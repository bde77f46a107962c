--------------------------- MODULE ProgramsProofs ---------------------------
(***************************************************************************)
(* Proofs about the components of Programs: that a file with recovery keeps*)
(* what was last closed, for any number of opens and of deaths at any step *)
(* of a program; that a process that goes on is what was asked for; that   *)
(* the last token of each name is found; that a dialogue answers what it   *)
(* sees and misses nothing; and that a lookup finds its own credential, in *)
(* memory that may be used.                                                *)
(***************************************************************************)
EXTENDS Programs, SeqLemmas, FiniteSetTheorems, TLAPS

-----------------------------------------------------------------------------
(* A FILE WITH RECOVERY.                                                   *)

Steps == {"idle", "backup", "stat", "unlink", "archive", "import", "open",
          "truncate", "opened", "delete", "close"}
IsProcess(pr) ==
    /\ DOMAIN pr = DOMAIN Idle
    /\ pr.pc \in Steps /\ pr.mode \in Modes
    /\ pr.n \in Nat /\ pr.fd \in Nat /\ pr.parts \in Seq(Nat)
    /\ pr.failed = FALSE

Programs ==
    /\ DOMAIN proc = Procs /\ \A q \in Procs : IsProcess(proc[q])
    /\ \A q \in Procs \ config.procs : proc[q] = Idle

Typed ==
    /\ config \in Configs
    /\ dir \in [Names -> Nat]
    /\ inode \in Seq(Seq(Nat))
    /\ Programs
    /\ opens \in Nat /\ deaths \in Nat /\ died \in BOOLEAN
    /\ closed \in Seq(Nat) /\ closed # << >>
    /\ died => config.recovers

(* Where what was last closed is: in the file, or in its backup.           *)
File == dir["Path"]
Backup == dir["Path.autorecover"]
InFile == Backup = None /\ File \in 1 .. Len(inode) /\ inode[File] = closed
InBackup == Backup \in 1 .. Len(inode) /\ inode[Backup] = closed

(* The file of a writer, what it has written so far, and what it will.     *)
Writes(pr) ==
    /\ InBackup /\ File # Backup
    /\ File \in 1 .. Len(inode) /\ pr.fd = File
Written(pr) ==
    \/ pr.parts = <<pr.n, pr.n>> /\ inode[pr.fd] = << >>
    \/ pr.parts = <<pr.n>> /\ inode[pr.fd] = <<pr.n>>
    \/ pr.parts = << >> /\ inode[pr.fd] = Append(<<pr.n>>, pr.n)

(* Who reads or appends has the file open, and appends one part.           *)
Extends(pr) ==
    /\ Backup = None /\ File \in 1 .. Len(inode) /\ pr.fd = File
    /\ \/ inode[File] = closed
       \/ pr.mode = "a" /\ pr.parts = << >> /\ inode[File] = Append(closed, pr.n)

(* What is so at each step of the program.                                 *)
AtStep(p) ==
    LET pr == proc[p] IN
    /\ pr.pc = "idle" => InFile \/ (died /\ InBackup)
    /\ pr.pc \in {"backup", "truncate", "delete"} => pr.mode = "w"
    /\ pr.pc \in {"stat", "archive", "import"} => pr.mode # "w"
    /\ pr.pc \in {"idle", "backup", "stat", "archive", "import", "open"} => pr.fd = None
    /\ pr.pc \in {"backup", "stat", "archive", "import", "open", "truncate"} =>
         pr.parts \in (IF pr.mode = "w" THEN {<<pr.n, pr.n>>}
                       ELSE IF pr.mode = "a" THEN {<<pr.n>>} ELSE {<< >>})
    /\ pr.pc = "backup" => InFile
    /\ pr.pc = "stat" => InFile \/ (InBackup /\ pr.mode \in {"r", "a"})
    /\ pr.pc # "unlink"
    /\ pr.pc = "archive" => InBackup
    /\ pr.pc = "import" => InBackup /\ File = None
    /\ pr.pc = "open" => IF pr.mode = "w" THEN InBackup /\ File = None ELSE InFile
    /\ pr.pc \in {"truncate", "opened", "delete"} /\ pr.mode = "w" => Writes(pr)
    /\ pr.pc \in {"opened", "delete"} /\ pr.mode = "w" => Written(pr)
    /\ pr.pc = "delete" => pr.parts = << >>
    /\ pr.pc \in {"opened", "close"} /\ pr.mode # "w" => Extends(pr)
    /\ pr.pc = "opened" /\ pr.mode \in {"r", "rw"} => pr.parts = << >>
    /\ pr.pc = "opened" /\ pr.mode = "a" => pr.parts \in {<<pr.n>>, << >>}
    /\ pr.pc = "opened" /\ pr.parts # << >> /\ pr.mode = "a" => inode[File] = closed
    /\ pr.pc = "close" /\ pr.mode = "w" => InFile

(* The invariant: at each step of the one process that is at work.         *)
IInv == Orderly => Typed /\ \A p \in config.procs : AtStep(p)

-----------------------------------------------------------------------------
Fields == {"pc", "mode", "n", "fd", "parts", "failed"}

(* What a step of a process changes of it, and of no other.                *)
LEMMA SetProperties ==
    ASSUME DOMAIN proc = Procs, NEW p \in Procs, NEW changes, Set(p, changes)
    PROVE  /\ DOMAIN proc' = Procs
           /\ \A q \in Procs \ {p} : proc'[q] = proc[q]
           /\ DOMAIN Idle = Fields
           /\ proc'[p] = [f \in Fields |->
                            IF f \in DOMAIN changes THEN changes[f] ELSE proc[p][f]]
BY DEF Set, Idle, Fields

(* A program moves to another step; the others are idle.                   *)
LEMMA SetKeepsTypes ==
    ASSUME Typed, NEW p \in Procs, config.procs = {p}, UNCHANGED config,
           NEW changes, Set(p, changes), IsProcess(proc'[p])
    PROVE  Programs'
BY SetProperties DEF Typed, Programs

(* A process goes on to its next step.                                     *)
LEMMA GotoProperties ==
    ASSUME Typed, NEW p \in Procs, config.procs = {p}, UNCHANGED config,
           NEW place \in Steps, Goto(p, place)
    PROVE  /\ Programs' /\ proc'[p].pc = place
           /\ proc'[p].mode = proc[p].mode /\ proc'[p].n = proc[p].n
           /\ proc'[p].fd = proc[p].fd /\ proc'[p].parts = proc[p].parts
<1> DEFINE changes == [pc |-> place]
<1>1. Set(p, changes)
  BY DEF Goto
<1>2. DOMAIN changes = {"pc"} /\ changes["pc"] = place
  OBVIOUS
<1> HIDE DEF changes
<1>3. DOMAIN Idle = Fields
      /\ proc'[p] = [f \in Fields |-> IF f \in DOMAIN changes THEN changes[f] ELSE proc[p][f]]
  BY <1>1, SetProperties DEF Typed, Programs
<1>4. /\ DOMAIN proc'[p] = Fields
      /\ proc'[p].pc = place
      /\ proc'[p].mode = proc[p].mode /\ proc'[p].n = proc[p].n
      /\ proc'[p].fd = proc[p].fd /\ proc'[p].parts = proc[p].parts
      /\ proc'[p].failed = proc[p].failed
  BY <1>2, <1>3 DEF Fields
<1>5. IsProcess(proc'[p])
  BY <1>3, <1>4 DEF Typed, Programs, IsProcess
<1>6. QED
  BY <1>1, <1>4, <1>5, SetKeepsTypes

(* The rename()s and the unlink() of names that differ.                    *)
LEMMA NameProperties ==
    ASSUME dir \in [Names -> Nat]
    PROVE  /\ Unlink("Path.autorecover") =>
                dir' \in [Names -> Nat] /\ Backup' = None /\ File' = File
           /\ Rename("Path", "Path.autorecover") =>
                /\ dir' \in [Names -> Nat]
                /\ File # None => Backup' = File /\ File' = None
           /\ Rename("Path", "Path.error") =>
                dir' \in [Names -> Nat] /\ Backup' = Backup /\ File' = None
           /\ Rename("Path.autorecover", "Path") =>
                /\ dir' \in [Names -> Nat]
                /\ Backup # None => File' = Backup /\ Backup' = None
BY DEF Unlink, Rename, Names, None, File, Backup

(* The parts that a program writes are numbers.                            *)
LEMMA PartsProperties ==
    ASSUME ~config.empty, NEW mode \in Modes, NEW n \in Nat
    PROVE  Parts(mode, n) = IF mode = "w" THEN {<<n, n>>}
                            ELSE IF mode = "a" THEN {<<n>>} ELSE {<< >>}
<1>1. {q \in {<< >>} : config.empty} = {}
  OBVIOUS
<1>2. CASE mode = "w"
  BY <1>1, <1>2 DEF Parts
<1>3. CASE mode = "a"
  BY <1>3 DEF Parts
<1>4. CASE mode \notin {"w", "a"}
  BY <1>4 DEF Parts
<1>5. QED
  BY <1>2, <1>3, <1>4

(* A program opens the file, by its mode.                                  *)
LEMMA StartProperties ==
    ASSUME Orderly, Typed, NEW p \in Procs, config.procs = {p}, AtStep(p), Start(p)
    PROVE  Typed' /\ AtStep(p)'
<1> USE DEF At
<1> DEFINE n == opens + 1
<1>0. opens' = n /\ n \in Nat
  BY DEF Start, Typed
<1>1. PICK mode \in config.modes :
        \E parts \in Parts(mode, n) :
          /\ config.recovers /\ died => mode \in {"r", "a"}
          /\ Set(p, [pc |-> IF STREAMAutoRecoverRequired(mode) THEN "backup" ELSE "stat",
                     mode |-> mode, n |-> n, parts |-> parts])
  BY DEF Start
<1> HIDE DEF n
<1>2. PICK parts \in Parts(mode, n) :
        /\ config.recovers /\ died => mode \in {"r", "a"}
        /\ Set(p, [pc |-> IF STREAMAutoRecoverRequired(mode) THEN "backup" ELSE "stat",
                   mode |-> mode, n |-> n, parts |-> parts])
  BY <1>1
<1> DEFINE changes == [pc |-> IF STREAMAutoRecoverRequired(mode) THEN "backup" ELSE "stat",
                       mode |-> mode, n |-> n, parts |-> parts]
<1>3. DOMAIN changes = {"pc", "mode", "n", "parts"} /\ changes["mode"] = mode
      /\ changes["pc"] = (IF mode = "w" THEN "backup" ELSE "stat")
      /\ changes["n"] = n /\ changes["parts"] = parts
  BY DEF STREAMAutoRecoverRequired
<1>4. Set(p, changes)
  BY <1>2
<1> HIDE DEF changes
<1>5. mode \in Modes /\ ~config.empty
  BY AutoRecoverAssumption DEF Start, Typed, Orderly, Config
<1>6. parts \in (IF mode = "w" THEN {<<n, n>>}
                 ELSE IF mode = "a" THEN {<<n>>} ELSE {<< >>})
  BY <1>0, <1>5, PartsProperties
<1>7. parts \in Seq(Nat)
  <2>1. <<n, n>> \in Seq(Nat) /\ <<n>> \in Seq(Nat) /\ << >> \in Seq(Nat)
    BY <1>0
  <2>2. parts = <<n, n>> \/ parts = <<n>> \/ parts = << >>
    BY <1>6
  <2>3. QED
    BY <2>1, <2>2
<1>8. DOMAIN Idle = Fields
      /\ proc'[p] = [f \in Fields |-> IF f \in DOMAIN changes THEN changes[f] ELSE proc[p][f]]
  BY <1>4, SetProperties DEF Typed, Programs
<1>9. /\ DOMAIN proc'[p] = Fields
      /\ proc'[p].pc = (IF mode = "w" THEN "backup" ELSE "stat")
      /\ proc'[p].mode = mode /\ proc'[p].n = n /\ proc'[p].parts = parts
      /\ proc'[p].fd = proc[p].fd /\ proc'[p].failed = proc[p].failed
  BY <1>3, <1>8 DEF Fields
<1>10. IsProcess(proc'[p])
  BY <1>0, <1>5, <1>7, <1>8, <1>9 DEF Typed, Programs, IsProcess, Steps
<1>11. Programs'
  BY <1>4, <1>10, SetKeepsTypes DEF Start
<1>12. Typed'
  BY <1>0, <1>11 DEF Start, Typed
<1>13. proc[p].fd = None /\ (InFile \/ (died /\ InBackup))
  BY DEF Start, AtStep
<1>14. (InFile' \/ (InBackup' /\ mode \in {"r", "a"})) /\ (mode = "w" => InFile')
  BY <1>2, <1>13 DEF Start, Typed, InFile, InBackup, File, Backup
<1>15. QED
  BY <1>6, <1>9, <1>12, <1>13, <1>14 DEF AtStep, None

(* A program is done, or died.                                             *)
LEMMA IdleProperties ==
    ASSUME Typed, NEW p \in Procs, config.procs = {p}, UNCHANGED config, Set(p, Idle)
    PROVE  Programs' /\ proc'[p] = Idle
<1>1. DOMAIN Idle = Fields
      /\ proc'[p] = [f \in Fields |-> IF f \in DOMAIN Idle THEN Idle[f] ELSE proc[p][f]]
  BY SetProperties DEF Typed, Programs
<1>2. proc'[p] = Idle
  BY <1>1 DEF Idle, Fields
<1>3. IsProcess(Idle)
  BY DEF IsProcess, Idle, Steps, Modes, None
<1>4. QED
  BY <1>2, <1>3, SetKeepsTypes

SetOpen(p, to, fd) == Set(p, [pc |-> to, fd |-> fd])

(* The file is opened, or made.                                            *)
LEMMA OpenProperties ==
    ASSUME Orderly, Typed, NEW p \in Procs, config.procs = {p}, AtStep(p), Open(p)
    PROVE  Typed' /\ AtStep(p)'
<1> USE DEF At, None
<1>1. /\ proc[p].pc = "open" /\ proc[p].fd = None
      /\ proc[p].parts \in (IF proc[p].mode = "w" THEN {<<proc[p].n, proc[p].n>>}
                            ELSE IF proc[p].mode = "a" THEN {<<proc[p].n>>} ELSE {<< >>})
      /\ IF proc[p].mode = "w" THEN InBackup /\ File = None ELSE InFile
  BY DEF Open, AtStep
<1>2. /\ died' \in BOOLEAN /\ (died' => died)
      /\ UNCHANGED <<config, opens, deaths, closed>>
  BY DEF Open
<1>3. ASSUME NEW fd \in Nat, NEW to \in {"truncate", "opened"},
             SetOpen(p, to, fd)
      PROVE  /\ Programs' /\ proc'[p].pc = to /\ proc'[p].fd = fd
             /\ proc'[p].mode = proc[p].mode /\ proc'[p].n = proc[p].n
             /\ proc'[p].parts = proc[p].parts
  <2> DEFINE changes == [pc |-> to, fd |-> fd]
  <2>1. DOMAIN changes = {"pc", "fd"} /\ changes["pc"] = to /\ changes["fd"] = fd
    OBVIOUS
  <2>2. Set(p, changes)
    BY <1>3 DEF SetOpen
  <2> HIDE DEF changes
  <2>3. DOMAIN Idle = Fields
        /\ proc'[p] = [f \in Fields |-> IF f \in DOMAIN changes THEN changes[f] ELSE proc[p][f]]
    BY <2>2, SetProperties DEF Typed, Programs
  <2>4. /\ DOMAIN proc'[p] = Fields
        /\ proc'[p].pc = to /\ proc'[p].fd = fd
        /\ proc'[p].mode = proc[p].mode /\ proc'[p].n = proc[p].n
        /\ proc'[p].parts = proc[p].parts /\ proc'[p].failed = proc[p].failed
    BY <2>1, <2>3 DEF Fields
  <2>5. IsProcess(proc'[p])
    BY <2>3, <2>4 DEF Typed, Programs, IsProcess, Steps
  <2>6. QED
    BY <2>2, <2>4, <2>5, SetKeepsTypes DEF Open
<1>4. CASE proc[p].mode = "w"
  <2>1. File = None /\ InBackup
    BY <1>1, <1>4
  <2> DEFINE new == Len(inode) + 1
  <2>2. /\ inode' = Append(inode, << >>)
        /\ dir' = [dir EXCEPT !["Path"] = new]
        /\ SetOpen(p, "truncate", new)
    BY <2>1, <1>4 DEF Open, File, SetOpen
  <2>3. /\ inode' \in Seq(Seq(Nat)) /\ Len(inode') = new /\ new \in Nat /\ Len(inode) < new
        /\ \A i \in 1 .. Len(inode) : inode'[i] = inode[i]
    BY <2>2 DEF Typed
  <2> HIDE DEF new
  <2>4. dir' \in [Names -> Nat] /\ File' = Len(inode') /\ Backup' = Backup
    BY <2>2, <2>3 DEF Typed, Names, File, Backup
  <2>5. InBackup' /\ File' # Backup' /\ File' \in 1 .. Len(inode')
    BY <2>1, <2>3, <2>4 DEF InBackup, Open, Typed
  <2>6. /\ Programs' /\ proc'[p].pc = "truncate" /\ proc'[p].fd = new
        /\ proc'[p].mode = proc[p].mode /\ proc'[p].n = proc[p].n
        /\ proc'[p].parts = proc[p].parts
    BY <1>3, <2>2, <2>3
  <2>7. Typed'
    BY <1>2, <2>3, <2>4, <2>6 DEF Typed
  <2>8. AtStep(p)'
    BY <1>1, <1>4, <2>3, <2>4, <2>5, <2>6 DEF AtStep, Writes
  <2>9. QED
    BY <2>7, <2>8
<1>5. CASE proc[p].mode # "w"
  <2>1. InFile
    BY <1>1, <1>5
  <2>2. SetOpen(p, "opened", File) /\ UNCHANGED <<dir, inode>>
    BY <2>1, <1>5 DEF Open, SetOpen, File, InFile, Typed
  <2>3. /\ Programs' /\ proc'[p].pc = "opened" /\ proc'[p].fd = File
        /\ proc'[p].mode = proc[p].mode /\ proc'[p].n = proc[p].n
        /\ proc'[p].parts = proc[p].parts
    BY <1>3, <2>1, <2>2 DEF InFile, Typed
  <2>4. Typed'
    BY <1>2, <2>2, <2>3 DEF Typed
  <2>5. Extends(proc[p])' /\ inode'[File'] = closed'
    BY <2>1, <2>2, <2>3 DEF Extends, InFile, File, Backup, Open
  <2>6. AtStep(p)'
    BY <1>1, <1>5, <2>3, <2>5 DEF AtStep
  <2>7. QED
    BY <2>4, <2>6
<1>6. QED
  BY <1>4, <1>5

(* Programs that are done or died leave the file, or its backup, as closed.*)
LEMMA CloseProperties ==
    ASSUME Orderly, Typed, NEW p \in Procs, config.procs = {p}, AtStep(p), Close(p)
    PROVE  Typed' /\ AtStep(p)'
<1> USE DEF At, Same, None
<1>1. Programs' /\ proc'[p] = Idle
  BY IdleProperties DEF Close
<1>2. proc[p].pc = "close" /\ proc[p].failed = FALSE /\ proc[p].mode \in Modes
  BY DEF Close, Typed, Programs, IsProcess
<1>3. CASE proc[p].mode = "a"
  <2>1. Extends(proc[p])
    BY <1>2, <1>3 DEF AtStep
  <2>2. closed' = inode[File]
    BY <1>2, <1>3, <2>1 DEF Close, Committed, Extends
  <2>3. closed' \in Seq(Nat) /\ closed' # << >>
    BY <2>1, <2>2, <1>2 DEF Extends, Typed, Programs, IsProcess
  <2>4. InFile'
    BY <2>1, <2>2 DEF Extends, InFile, Close, File, Backup
  <2>5. QED
    BY <1>1, <2>3, <2>4 DEF Close, Typed, AtStep, Idle
<1>4. CASE proc[p].mode # "a"
  <2>1. InFile /\ closed' = closed
    BY <1>2, <1>4 DEF Close, AtStep, Extends, InFile
  <2>2. InFile'
    BY <2>1 DEF InFile, Close, File, Backup
  <2>3. QED
    BY <1>1, <2>1, <2>2 DEF Close, Typed, AtStep, Idle
<1>5. QED
  BY <1>3, <1>4

(* A program that dies leaves what it did to the files.                    *)
LEMMA DieProperties ==
    ASSUME Orderly, Typed, NEW p \in Procs, config.procs = {p}, AtStep(p), Die(p)
    PROVE  Typed' /\ AtStep(p)'
<1> USE DEF At, None
<1>1. Programs' /\ proc'[p] = Idle
  BY IdleProperties DEF Die
<1>2. config.recovers
  <2>1. config.deaths \in Nat /\ deaths < config.deaths
    BY AutoRecoverAssumption DEF Die, Typed, Config
  <2>2. QED
    BY <2>1 DEF Orderly, Typed
<1>3. /\ proc[p].pc \in Steps \ {"idle"} /\ proc[p].mode \in Modes /\ proc[p].n \in Nat
      /\ deaths' \in Nat /\ died' = TRUE
  BY DEF Die, Typed, Programs, IsProcess
<1>4. CASE proc[p].mode = "a" /\ proc[p].fd # None
  <2>1. Extends(proc[p])
    BY <1>3, <1>4 DEF AtStep, Steps
  <2>2. closed' = inode[File]
    BY <1>4, <2>1 DEF Die, Extends
  <2>3. closed' \in Seq(Nat) /\ closed' # << >>
    BY <1>3, <2>1, <2>2 DEF Extends, Typed
  <2>4. InFile'
    BY <2>1, <2>2 DEF Extends, InFile, Die, File, Backup
  <2>5. QED
    BY <1>1, <1>2, <1>3, <2>3, <2>4 DEF Die, Typed, AtStep, Idle
<1>5. CASE ~(proc[p].mode = "a" /\ proc[p].fd # None)
  <2>1. closed' = closed
    BY <1>5 DEF Die
  <2>2. InFile \/ InBackup
    BY <1>3, <1>5 DEF AtStep, Writes, Extends, InFile, InBackup, Steps
  <2>3. InFile' \/ InBackup'
    BY <2>1, <2>2 DEF InFile, InBackup, Die, File, Backup
  <2>4. QED
    BY <1>1, <1>2, <1>3, <2>1, <2>3 DEF Die, Typed, AtStep, Idle
<1>6. QED
  BY <1>4, <1>5

(* The files are functions from the inodes.                                *)
LEMMA FileAppends ==
    ASSUME inode \in Seq(Seq(Nat)), NEW fd \in 1 .. Len(inode), NEW piece \in Nat,
           inode' = [inode EXCEPT ![fd] = Append(@, piece)]
    PROVE  /\ inode' \in Seq(Seq(Nat)) /\ Len(inode') = Len(inode)
           /\ inode'[fd] = Append(inode[fd], piece)
           /\ \A i \in 1 .. Len(inode) : i # fd => inode'[i] = inode[i]
<1> DEFINE new == Append(inode[fd], piece)
<1>1. inode[fd] \in Seq(Nat)
  OBVIOUS
<1>2. new \in Seq(Nat)
  BY <1>1
<1>3. inode' = [inode EXCEPT ![fd] = new]
  OBVIOUS
<1> HIDE DEF new
<1>4. /\ inode' \in Seq(Seq(Nat)) /\ Len(inode') = Len(inode) /\ inode'[fd] = new
      /\ \A i \in 1 .. Len(inode) : i # fd => inode'[i] = inode[i]
  BY <1>2, <1>3
<1>5. QED
  BY <1>4 DEF new

(* Two parts of the file are written one behind the other.                 *)
LEMMA TwoParts ==
    ASSUME NEW n \in Nat
    PROVE  /\ Head(<<n, n>>) = n /\ Tail(<<n, n>>) = <<n>>
           /\ Head(<<n>>) = n /\ Tail(<<n>>) = << >>
           /\ Append(<< >>, n) = <<n>>
<1>1. Head(<<n, n>>) = n /\ Head(<<n>>) = n
  OBVIOUS
<1>2. Tail(<<n, n>>) = <<n>>
  OBVIOUS
<1>3. Tail(<<n>>) = << >>
  OBVIOUS
<1>4. Append(<< >>, n) = <<n>>
  OBVIOUS
<1>5. QED
  BY <1>1, <1>2, <1>3, <1>4

(* A program writes the next of its parts; no disk is full.                *)
LEMMA WriteProperties ==
    ASSUME Orderly, Typed, NEW p \in Procs, config.procs = {p}, AtStep(p), WritePart(p)
    PROVE  Typed' /\ AtStep(p)'
<1> USE DEF At, Same, None
<1> DEFINE pr == proc[p]
           rest == Tail(pr.parts)
           changes == [parts |-> rest]
<1>1. /\ pr.pc = "opened" /\ pr.parts # << >> /\ pr.parts \in Seq(Nat)
      /\ inode' = [inode EXCEPT ![pr.fd] = Append(@, Head(pr.parts))]
      /\ Set(p, changes)
      /\ UNCHANGED <<config, opens, deaths, died, dir, closed>>
  BY DEF WritePart, Write, Orderly, Typed, Programs, IsProcess
<1>2. rest \in Seq(Nat) /\ Head(pr.parts) \in Nat
  BY <1>1
<1>3. DOMAIN changes = {"parts"} /\ changes["parts"] = rest
  OBVIOUS
<1> HIDE DEF changes
<1>4. DOMAIN Idle = Fields
      /\ proc'[p] = [f \in Fields |-> IF f \in DOMAIN changes THEN changes[f] ELSE pr[f]]
  BY <1>1, SetProperties DEF Typed, Programs
<1>5. /\ DOMAIN proc'[p] = Fields
      /\ proc'[p].pc = "opened" /\ proc'[p].fd = pr.fd /\ proc'[p].mode = pr.mode
      /\ proc'[p].n = pr.n /\ proc'[p].parts = rest /\ proc'[p].failed = pr.failed
  BY <1>1, <1>3, <1>4 DEF Fields
<1>6. IsProcess(proc'[p])
  BY <1>1, <1>2, <1>4, <1>5 DEF Typed, Programs, IsProcess, Steps
<1>7. Programs'
  BY <1>1, <1>6, SetKeepsTypes
<1>8. pr.fd \in 1 .. Len(inode)
  BY <1>1 DEF AtStep, Writes, Extends
<1>9. /\ inode' \in Seq(Seq(Nat)) /\ Len(inode') = Len(inode)
      /\ inode'[pr.fd] = Append(inode[pr.fd], Head(pr.parts))
      /\ \A i \in 1 .. Len(inode) : i # pr.fd => inode'[i] = inode[i]
  <2> DEFINE piece == Head(pr.parts)
  <2>1. inode' = [inode EXCEPT ![pr.fd] = Append(@, piece)] /\ piece \in Nat
    BY <1>1, <1>2
  <2> HIDE DEF piece, pr
  <2>2. QED
    BY <1>8, <2>1, FileAppends DEF Typed, piece
<1>10. Typed'
  <2>1. died' \in BOOLEAN /\ (died' => config'.recovers) /\ config' \in Configs
    BY <1>1 DEF Typed
  <2>2. QED
    BY <1>1, <1>7, <1>9, <2>1 DEF Typed
<1>11. pr.n \in Nat
  BY DEF Typed, Programs, IsProcess
<1>12. CASE pr.mode = "w"
  <2>1. Writes(pr) /\ Written(pr)
    BY <1>1, <1>12 DEF AtStep
  <2>2. Writes(pr)' /\ proc'[p].mode = "w"
    BY <1>1, <1>5, <1>9, <1>12, <2>1 DEF Writes, InBackup, File, Backup
  <2>3. CASE pr.parts = <<pr.n, pr.n>> /\ inode[pr.fd] = << >>
    <3>1. rest = <<pr.n>> /\ inode'[pr.fd] = <<pr.n>>
      BY <1>9, <2>3, <1>11, TwoParts
    <3>2. Written(proc[p])'
      BY <1>5, <3>1 DEF Written
    <3>3. QED
      BY <1>5, <1>10, <2>2, <3>2 DEF AtStep
  <2>4. CASE pr.parts = <<pr.n>> /\ inode[pr.fd] = <<pr.n>>
    <3>1. rest = << >> /\ inode'[pr.fd] = Append(<<pr.n>>, pr.n)
      BY <1>9, <2>4, <1>11, TwoParts
    <3>2. QED
      BY <1>5, <2>2, <3>1, <1>10 DEF AtStep, Written
  <2>5. QED
    BY <1>1, <2>1, <2>3, <2>4 DEF Written
<1>13. CASE pr.mode # "w"
  <2>1. /\ pr.mode = "a" /\ pr.parts = <<pr.n>> /\ inode[File] = closed /\ Extends(pr)
    BY <1>1, <1>13 DEF AtStep, Typed, Programs, IsProcess, Modes
  <2>2. rest = << >> /\ Head(pr.parts) = pr.n
    BY <2>1
  <2>3. Extends(proc[p])' /\ proc'[p].mode = "a"
    BY <1>1, <1>5, <1>9, <2>1, <2>2 DEF Extends, File, Backup
  <2>4. QED
    BY <1>5, <1>10, <2>2, <2>3 DEF AtStep
<1>14. QED
  BY <1>12, <1>13

(* A step of the one program that is at work keeps what was closed.        *)
LEMMA StepProperties ==
    ASSUME Orderly, Typed, NEW p \in Procs, config.procs = {p}, AtStep(p), Step(p)
    PROVE  Typed' /\ AtStep(p)'
<1> USE DEF At, Same, None, Steps
<1>1. CASE TakeBackup(p)
  <2>1. /\ proc[p].pc = "backup" /\ InFile /\ proc[p].mode = "w" /\ Goto(p, "open")
        /\ proc[p].fd = None /\ proc[p].parts = <<proc[p].n, proc[p].n>>
        /\ Rename("Path", "Path.autorecover")
    BY <1>1 DEF TakeBackup, AtStep
  <2>2. File' = None /\ InBackup' /\ dir' \in [Names -> Nat]
    BY <1>1, <2>1, NameProperties DEF TakeBackup, InFile, InBackup, Typed
  <2>3. /\ Programs'
        /\ proc'[p].pc = "open" /\ proc'[p].mode = "w" /\ proc'[p].fd = None
        /\ proc'[p].parts = <<proc'[p].n, proc'[p].n>>
    BY <1>1, <2>1, GotoProperties DEF TakeBackup
  <2>4. Typed'
    BY <1>1, <2>2, <2>3 DEF TakeBackup, Typed
  <2>5. AtStep(p)'
    BY <2>2, <2>3 DEF AtStep
  <2>6. QED
    BY <2>4, <2>5
<1>2. CASE Stat(p)
  <2> DEFINE to == IF Backup = None THEN "open" ELSE "archive"
  <2>1. /\ proc[p].pc = "stat" /\ proc[p].mode # "w" /\ proc[p].fd = None
        /\ InFile \/ (InBackup /\ proc[p].mode \in {"r", "a"})
        /\ proc[p].parts \in (IF proc[p].mode = "a" THEN {<<proc[p].n>>} ELSE {<< >>})
    BY <1>2 DEF Stat, AtStep
  <2>2. Goto(p, to)
    <3>1. CASE Backup = None
      BY <1>2, <3>1 DEF Stat, Backup
    <3>2. CASE Backup # None
      <4>1. inode[Backup] # << >> /\ proc[p].mode # "rw"
        BY <2>1, <3>2 DEF InFile, InBackup, Typed
      <4>2. QED
        BY <1>2, <3>2, <4>1 DEF Stat, Backup
    <3>3. QED
      BY <3>1, <3>2
  <2>3. InFile' = InFile /\ InBackup' = InBackup /\ Backup' = Backup
    BY <1>2 DEF Stat, InFile, InBackup, File, Backup
  <2>4. /\ Programs' /\ proc'[p].pc = to /\ proc'[p].mode = proc[p].mode
        /\ proc'[p].fd = None /\ proc'[p].n = proc[p].n /\ proc'[p].parts = proc[p].parts
    BY <1>2, <2>1, <2>2, GotoProperties DEF Stat
  <2>5. Typed'
    BY <1>2, <2>4 DEF Stat, Typed
  <2>6. to = "open" => InFile
    BY <2>1 DEF InFile, InBackup
  <2>7. to = "archive" => InBackup
    BY <2>1 DEF InFile, InBackup
  <2>8. AtStep(p)'
    BY <2>1, <2>3, <2>4, <2>6, <2>7 DEF AtStep
  <2>9. QED
    BY <2>5, <2>8
<1>3. CASE UnlinkBackup(p)
  BY <1>3 DEF UnlinkBackup, AtStep
<1>4. CASE Archive(p)
  <2>1. /\ proc[p].pc = "archive" /\ InBackup /\ proc[p].mode # "w" /\ Goto(p, "import")
        /\ proc[p].fd = None
        /\ proc[p].parts \in (IF proc[p].mode = "a" THEN {<<proc[p].n>>} ELSE {<< >>})
    BY <1>4 DEF Archive, AtStep
  <2>2. InBackup' /\ File' = None /\ dir' \in [Names -> Nat]
    BY <1>4, <2>1, NameProperties DEF Archive, InBackup, Typed
  <2>3. /\ Programs' /\ proc'[p].pc = "import" /\ proc'[p].mode = proc[p].mode
        /\ proc'[p].fd = None /\ proc'[p].n = proc[p].n /\ proc'[p].parts = proc[p].parts
    BY <1>4, <2>1, GotoProperties DEF Archive
  <2>4. Typed'
    BY <1>4, <2>2, <2>3 DEF Archive, Typed
  <2>5. AtStep(p)'
    BY <2>1, <2>2, <2>3 DEF AtStep
  <2>6. QED
    BY <2>4, <2>5
<1>5. CASE Import(p)
  <2>1. /\ proc[p].pc = "import" /\ InBackup /\ proc[p].mode # "w" /\ Goto(p, "open")
        /\ proc[p].fd = None
        /\ proc[p].parts \in (IF proc[p].mode = "a" THEN {<<proc[p].n>>} ELSE {<< >>})
    BY <1>5 DEF Import, AtStep
  <2>2. InFile' /\ dir' \in [Names -> Nat]
    BY <1>5, <2>1, NameProperties DEF Import, InBackup, InFile, Typed
  <2>3. /\ Programs' /\ proc'[p].pc = "open" /\ proc'[p].mode = proc[p].mode
        /\ proc'[p].fd = None /\ proc'[p].n = proc[p].n /\ proc'[p].parts = proc[p].parts
    BY <1>5, <2>1, GotoProperties DEF Import
  <2>4. Typed'
    BY <1>5, <2>2, <2>3 DEF Import, Typed
  <2>5. AtStep(p)'
    BY <2>1, <2>2, <2>3 DEF AtStep
  <2>6. QED
    BY <2>4, <2>5
<1>6. CASE Start(p)
  BY <1>6, StartProperties
<1>7. CASE Open(p)
  BY <1>7, OpenProperties
<1>8. CASE Truncate(p)
  <2>1. /\ proc[p].pc = "truncate" /\ proc[p].mode = "w" /\ Goto(p, "opened")
        /\ Writes(proc[p]) /\ proc[p].parts = <<proc[p].n, proc[p].n>>
    BY <1>8 DEF Truncate, AtStep
  <2>2. inode' \in Seq(Seq(Nat)) /\ Len(inode') = Len(inode) /\ inode'[proc[p].fd] = << >>
        /\ \A i \in 1 .. Len(inode) : i # proc[p].fd => inode'[i] = inode[i]
    BY <1>8, <2>1 DEF Truncate, Typed, Writes
  <2>3. /\ Programs' /\ proc'[p].pc = "opened" /\ proc'[p].mode = "w"
        /\ proc'[p].fd = proc[p].fd /\ proc'[p].n = proc[p].n /\ proc'[p].parts = proc[p].parts
    BY <1>8, <2>1, GotoProperties DEF Truncate
  <2>4. Typed'
    BY <1>8, <2>2, <2>3 DEF Truncate, Typed
  <2>5. Writes(proc[p])' /\ Written(proc[p])'
    BY <1>8, <2>1, <2>2, <2>3 DEF Truncate, Writes, Written, InBackup, File, Backup
  <2>6. QED
    BY <2>3, <2>4, <2>5 DEF AtStep
<1>9. CASE WritePart(p)
  BY <1>9, WriteProperties
<1>10. CASE STREAMClose(p)
  <2> DEFINE to == IF proc[p].mode = "w" THEN "delete" ELSE "close"
  <2>1. /\ proc[p].pc = "opened" /\ proc[p].parts = << >> /\ Goto(p, to)
        /\ UNCHANGED <<config, opens, deaths, died, dir, inode, closed>>
    BY <1>10 DEF STREAMClose, STREAMAutoRecoverRequired
  <2>2. /\ Programs' /\ proc'[p].pc = to /\ proc'[p].mode = proc[p].mode
        /\ proc'[p].fd = proc[p].fd /\ proc'[p].n = proc[p].n /\ proc'[p].parts = << >>
    BY <2>1, GotoProperties
  <2>3. Typed'
    BY <2>1, <2>2 DEF Typed
  <2>4. CASE proc[p].mode = "w"
    <3>1. Writes(proc[p]) /\ Written(proc[p])
      BY <2>1, <2>4 DEF AtStep
    <3>2. Writes(proc[p])' /\ Written(proc[p])'
      BY <2>1, <2>2, <3>1 DEF Writes, Written, InBackup, File, Backup
    <3>3. QED
      BY <2>2, <2>3, <2>4, <3>2 DEF AtStep
  <2>5. CASE proc[p].mode # "w"
    <3>1. Extends(proc[p])
      BY <2>1, <2>5 DEF AtStep
    <3>2. Extends(proc[p])'
      BY <2>1, <2>2, <3>1 DEF Extends, File, Backup
    <3>3. QED
      BY <2>2, <2>3, <2>5, <3>2 DEF AtStep
  <2>6. QED
    BY <2>4, <2>5
<1>11. CASE STREAMCloseFile(p)
  <2>1. /\ proc[p].pc = "delete" /\ proc[p].mode = "w" /\ proc[p].parts = << >>
        /\ Writes(proc[p]) /\ Written(proc[p]) /\ Goto(p, "close")
        /\ proc[p].failed = FALSE /\ proc[p].n \in Nat
        /\ UNCHANGED <<config, opens, deaths, died, inode>>
        /\ Unlink("Path.autorecover")
    BY <1>11 DEF STREAMCloseFile, AtStep, Typed, Programs, IsProcess
  <2>2. closed' = inode[File] /\ closed' = Append(<<proc[p].n>>, proc[p].n)
    BY <1>11, <2>1 DEF STREAMCloseFile, Committed, Writes, Written
  <2>3. closed' \in Seq(Nat) /\ closed' # << >>
    BY <2>1, <2>2
  <2>4. dir' \in [Names -> Nat] /\ Backup' = None /\ File' = File
    BY <2>1, NameProperties DEF Typed
  <2>5. InFile'
    BY <2>1, <2>2, <2>4 DEF InFile, Writes
  <2>6. Programs' /\ proc'[p].pc = "close" /\ proc'[p].mode = "w"
    BY <2>1, GotoProperties
  <2>7. Typed'
    BY <2>1, <2>4, <2>6, <2>3 DEF Typed
  <2>8. QED
    BY <2>5, <2>6, <2>7 DEF AtStep
<1>12. CASE Close(p)
  BY <1>12, CloseProperties
<1>13. CASE Die(p)
  BY <1>13, DieProperties
<1>14. QED
  BY <1>1, <1>2, <1>3, <1>4, <1>5, <1>6, <1>7, <1>8, <1>9, <1>10, <1>11, <1>12, <1>13 DEF Step

-----------------------------------------------------------------------------
(* Types, of any number of processes, with full disks and empty files.     *)
HasFile == {"truncate", "opened", "delete", "close"}
WellTyped(pr) ==
    /\ DOMAIN pr = Fields
    /\ pr.pc \in Steps /\ pr.mode \in Modes
    /\ pr.n \in 0 .. opens /\ pr.fd \in 0 .. Len(inode)
    /\ pr.parts \in Seq(0 .. opens)
    /\ pr.pc \in HasFile => pr.fd # None
Types ==
    /\ config \in Configs
    /\ opens \in Nat
    /\ inode \in Seq(Seq(0 .. opens))
    /\ dir \in [Names -> 0 .. Len(inode)]
    /\ DOMAIN proc = Procs /\ \A q \in Procs : WellTyped(proc[q])

(* The types at the start.                                                 *)
LEMMA TypesInit == Init => Types
<1> SUFFICES ASSUME Init PROVE Types
  OBVIOUS
<1>1. inode \in Seq(Seq(0 .. opens)) /\ Len(inode) = 1 /\ opens \in Nat
  BY DEF Init
<1>2. dir \in [Names -> 0 .. Len(inode)]
  BY <1>1 DEF Init, Names, None
<1>3. WellTyped(Idle)
  BY <1>1 DEF WellTyped, Idle, Fields, Steps, Modes, None, HasFile
<1>4. QED
  BY <1>1, <1>2, <1>3 DEF Init, Types

(* More opens and more inodes leave what is typed so.                      *)
LEMMA TypesGrow ==
    ASSUME opens \in Nat, opens' \in Nat, opens <= opens',
           Len(inode) \in Nat, Len(inode') \in Nat, Len(inode) <= Len(inode'),
           NEW pr, WellTyped(pr)
    PROVE  /\ pr.n \in 0 .. opens' /\ pr.fd \in 0 .. Len(inode')
           /\ pr.parts \in Seq(0 .. opens')
<1>1. pr.parts \in Seq(0 .. opens) /\ 0 .. opens \subseteq 0 .. opens'
  BY DEF WellTyped
<1>2. pr.parts \in Seq(0 .. opens')
  BY <1>1
<1>3. QED
  BY <1>2 DEF WellTyped

(* One process goes on, in some of its fields.                             *)
LEMMA SetTyped ==
    ASSUME Types, NEW p \in Procs, NEW changes, Set(p, changes),
           opens' \in Nat, opens <= opens', Len(inode') \in Nat, Len(inode) <= Len(inode'),
           DOMAIN changes \subseteq Fields,
           "pc" \in DOMAIN changes => changes["pc"] \in Steps,
           "mode" \in DOMAIN changes => changes["mode"] \in Modes,
           "n" \in DOMAIN changes => changes["n"] \in 0 .. opens',
           "fd" \in DOMAIN changes => changes["fd"] \in 0 .. Len(inode'),
           "parts" \in DOMAIN changes => changes["parts"] \in Seq(0 .. opens'),
           proc'[p].pc \in HasFile => proc'[p].fd # None
    PROVE  DOMAIN proc' = Procs /\ \A q \in Procs : WellTyped(proc[q])'
<1>1. /\ DOMAIN proc' = Procs
      /\ \A q \in Procs \ {p} : proc'[q] = proc[q]
      /\ proc'[p] = [f \in Fields |-> IF f \in DOMAIN changes THEN changes[f] ELSE proc[p][f]]
  BY SetProperties DEF Types
<1>2. ASSUME NEW q \in Procs
      PROVE  /\ proc[q].n \in 0 .. opens' /\ proc[q].fd \in 0 .. Len(inode')
             /\ proc[q].parts \in Seq(0 .. opens')
             /\ proc[q].pc \in Steps /\ proc[q].mode \in Modes
             /\ DOMAIN proc[q] = Fields /\ (proc[q].pc \in HasFile => proc[q].fd # None)
  <2>1. WellTyped(proc[q]) /\ opens \in Nat /\ Len(inode) \in Nat
    BY DEF Types
  <2>2. QED
    BY <2>1, TypesGrow DEF WellTyped
<1>3. WellTyped(proc[p])'
  BY <1>1, <1>2 DEF WellTyped, Fields
<1>4. ASSUME NEW q \in Procs \ {p} PROVE WellTyped(proc[q])'
  BY <1>1, <1>2 DEF WellTyped
<1>5. QED
  BY <1>1, <1>3, <1>4

(* The types, if a process goes on.                                        *)
LEMMA GotoTyped ==
    ASSUME Types, NEW p \in Procs, NEW place \in Steps, Goto(p, place),
           UNCHANGED opens, Len(inode') = Len(inode),
           place \in HasFile => proc[p].fd # None
    PROVE  DOMAIN proc' = Procs /\ \A q \in Procs : WellTyped(proc[q])'
<1> DEFINE changes == [pc |-> place]
<1>1. DOMAIN changes = {"pc"} /\ changes["pc"] = place /\ Set(p, changes)
  BY DEF Goto
<1> HIDE DEF changes
<1>2. proc'[p] = [f \in Fields |-> IF f \in DOMAIN changes THEN changes[f] ELSE proc[p][f]]
  BY <1>1, SetProperties DEF Types
<1>3. proc'[p].pc = place /\ proc'[p].fd = proc[p].fd
  BY <1>1, <1>2 DEF Fields
<1>4. opens' \in Nat /\ opens <= opens' /\ Len(inode') \in Nat /\ Len(inode) <= Len(inode')
  BY DEF Types
<1>5. QED
  BY <1>1, <1>3, <1>4, SetTyped DEF Fields

(* The types, if a process is done or dies.                                *)
LEMMA IdleTyped ==
    ASSUME Types, NEW p \in Procs, Set(p, Idle), UNCHANGED <<opens, inode>>
    PROVE  DOMAIN proc' = Procs /\ \A q \in Procs : WellTyped(proc[q])'
<1>1. DOMAIN Idle = Fields /\ Idle["pc"] = "idle" /\ Idle["mode"] = "r" /\ Idle["n"] = 0
      /\ Idle["fd"] = 0 /\ Idle["parts"] = << >>
  BY DEF Idle, Fields, None
<1>2. proc'[p] = [f \in Fields |-> IF f \in DOMAIN Idle THEN Idle[f] ELSE proc[p][f]]
  BY SetProperties DEF Types
<1>3. proc'[p].pc = "idle"
  BY <1>1, <1>2 DEF Fields
<1>4. opens' \in Nat /\ opens <= opens' /\ Len(inode') \in Nat /\ Len(inode) <= Len(inode')
  BY DEF Types
<1>5. QED
  <2>1. "idle" \in Steps /\ "idle" \notin HasFile /\ "r" \in Modes
    BY DEF Steps, HasFile, Modes
  <2>2. 0 \in 0 .. opens' /\ 0 \in 0 .. Len(inode') /\ << >> \in Seq(0 .. opens')
    BY <1>4
  <2>3. QED
    BY <1>1, <1>3, <1>4, <2>1, <2>2, SetTyped

(* The types, if the file was opened.                                      *)
LEMMA OpenTyped ==
    ASSUME Types, NEW p \in Procs, NEW place \in {"truncate", "opened"},
           NEW fd \in 0 .. Len(inode'), fd # None, SetOpen(p, place, fd),
           UNCHANGED opens, Len(inode') \in Nat, Len(inode) <= Len(inode')
    PROVE  DOMAIN proc' = Procs /\ \A q \in Procs : WellTyped(proc[q])'
<1> DEFINE changes == [pc |-> place, fd |-> fd]
<1>1. /\ DOMAIN changes = {"pc", "fd"} /\ changes["pc"] = place /\ changes["fd"] = fd
      /\ Set(p, changes)
  BY DEF SetOpen
<1> HIDE DEF changes
<1>2. proc'[p] = [f \in Fields |-> IF f \in DOMAIN changes THEN changes[f] ELSE proc[p][f]]
  BY <1>1, SetProperties DEF Types
<1>3. proc'[p].fd = fd
  BY <1>1, <1>2 DEF Fields
<1>4. opens' \in Nat /\ opens <= opens'
  BY DEF Types
<1>5. DOMAIN changes \subseteq Fields /\ changes["pc"] \in Steps
  BY <1>1 DEF Fields, Steps
<1>6. QED
  BY <1>1, <1>3, <1>4, <1>5, SetTyped

(* The types, if a part is written.                                        *)
LEMMA WriteTyped ==
    ASSUME Types, NEW p \in Procs, WritePart(p)
    PROVE  Types'
<1> USE DEF At, Same
<1> DEFINE rest == Tail(proc[p].parts)
           piece == Head(proc[p].parts)
           fd == proc[p].fd
<1>1. /\ opens \in Nat /\ Len(inode) \in Nat /\ proc[p].pc = "opened"
      /\ proc[p].parts \in Seq(0 .. opens) /\ proc[p].parts # << >>
      /\ fd # None /\ fd \in 0 .. Len(inode)
      /\ UNCHANGED <<config, opens, dir>>
  BY DEF WritePart, Write, Types, WellTyped, HasFile
<1>2. rest \in Seq(0 .. opens) /\ piece \in 0 .. opens /\ fd \in 1 .. Len(inode)
  <2> DEFINE parts == proc[p].parts  values == 0 .. opens
  <2>1. parts \in Seq(values) /\ parts # << >>
    BY <1>1
  <2> HIDE DEF parts, values
  <2>2. Tail(parts) \in Seq(values) /\ Head(parts) \in values
    BY <2>1
  <2>3. fd \in 1 .. Len(inode)
    BY <1>1 DEF None
  <2>4. QED
    BY <2>2, <2>3 DEF parts, values
<1>3. inode' \in Seq(Seq(0 .. opens)) /\ Len(inode') = Len(inode)
  <2>1. CASE UNCHANGED inode
    BY <2>1 DEF Types
  <2>2. CASE inode' = [inode EXCEPT ![fd] = Append(@, piece)]
    <3> DEFINE new == Append(inode[fd], piece)
    <3>1. inode[fd] \in Seq(0 .. opens)
      BY <1>2 DEF Types
    <3> HIDE DEF fd, piece
    <3>2. new \in Seq(0 .. opens) /\ inode' = [inode EXCEPT ![fd] = new]
      BY <1>2, <2>2, <3>1
    <3> HIDE DEF new
    <3>3. QED
      BY <1>2, <3>2 DEF Types
  <2>3. QED
    BY <2>1, <2>2 DEF WritePart, Write
<1>4. PICK changes : /\ Set(p, changes) /\ DOMAIN changes \in {{"parts"}, {"parts", "failed"}}
                     /\ changes["parts"] = rest
  <2>1. CASE Set(p, [parts |-> rest])
    <3>1. DOMAIN [parts |-> rest] = {"parts"} /\ [parts |-> rest]["parts"] = rest
      OBVIOUS
    <3>2. QED
      BY <2>1, <3>1
  <2>2. CASE Set(p, [parts |-> rest, failed |-> TRUE])
    <3> DEFINE both == [parts |-> rest, failed |-> TRUE]
    <3>1. DOMAIN both = {"parts", "failed"} /\ both["parts"] = rest
      OBVIOUS
    <3>2. QED
      BY <2>2, <3>1
  <2>3. QED
    BY <2>1, <2>2 DEF WritePart, Write
<1>5. proc'[p] = [f \in Fields |-> IF f \in DOMAIN changes THEN changes[f] ELSE proc[p][f]]
  BY <1>4, SetProperties DEF Types
<1>6. proc'[p].fd = proc[p].fd
  BY <1>4, <1>5 DEF Fields
<1>7. DOMAIN changes \subseteq Fields /\ opens' \in Nat /\ opens <= opens'
      /\ Len(inode') \in Nat /\ Len(inode) <= Len(inode') /\ changes["parts"] \in Seq(0 .. opens')
  BY <1>1, <1>2, <1>3, <1>4 DEF Fields
<1>8. {"pc", "mode", "n", "fd"} \cap DOMAIN changes = {}
  BY <1>4
<1>9. DOMAIN proc' = Procs /\ \A q \in Procs : WellTyped(proc[q])'
  BY <1>1, <1>4, <1>6, <1>7, <1>8, SetTyped
<1>10. QED
  BY <1>1, <1>3, <1>9 DEF Types

(* A file with other content.                                              *)
LEMMA SeqReplaced ==
    ASSUME NEW A, NEW s \in Seq(A), NEW a \in A, NEW i
    PROVE  [s EXCEPT ![i] = a] \in Seq(A) /\ Len([s EXCEPT ![i] = a]) = Len(s)
<1> DEFINE new == [s EXCEPT ![i] = a]
<1>1. s \in [1 .. Len(s) -> A] /\ Len(s) \in Nat
  OBVIOUS
<1>2. new \in [1 .. Len(s) -> A]
  BY <1>1
<1> HIDE DEF new
<1>3. new \in Seq(A) /\ Len(new) = Len(s)
  BY <1>1, <1>2
<1>4. QED
  BY <1>3 DEF new

(* A file more.                                                            *)
LEMMA SeqGrows ==
    ASSUME NEW A, NEW B, A \subseteq B
    PROVE  Seq(A) \subseteq Seq(B)
OBVIOUS

(* Each name has a file or none.                                           *)
LEMMA NamesTyped ==
    ASSUME dir \in [Names -> 0 .. Len(inode)], Len(inode) \in Nat,
           NEW from \in Names, NEW to \in Names
    PROVE  /\ Rename(from, to) => dir' \in [Names -> 0 .. Len(inode)]
           /\ Unlink(from) => dir' \in [Names -> 0 .. Len(inode)]
BY DEF Rename, Unlink, None

(* The types at each step.                                                 *)
LEMMA TypesNext == Types /\ [Next]_vars => Types'
<1> SUFFICES ASSUME Types, [Next]_vars PROVE Types'
  OBVIOUS
<1> USE DEF At, Same
<1>1. opens \in Nat /\ Len(inode) \in Nat /\ dir \in [Names -> 0 .. Len(inode)]
  BY DEF Types
<1>2. ASSUME NEW p \in Procs, Start(p) PROVE Types'
  <2> DEFINE n == opens + 1
  <2>1. n \in Nat /\ opens <= n /\ opens' = n /\ 0 .. opens \subseteq 0 .. n
    BY <1>1, <1>2 DEF Start
  <2>2. PICK mode \in config.modes : \E parts \in Parts(mode, n) :
          Set(p, [pc |-> IF STREAMAutoRecoverRequired(mode) THEN "backup" ELSE "stat",
                  mode |-> mode, n |-> n, parts |-> parts])
    BY <1>2 DEF Start
  <2>3. PICK parts \in Parts(mode, n) :
          Set(p, [pc |-> IF STREAMAutoRecoverRequired(mode) THEN "backup" ELSE "stat",
                  mode |-> mode, n |-> n, parts |-> parts])
    BY <2>2
  <2> HIDE DEF n
  <2> DEFINE changes == [pc |-> IF STREAMAutoRecoverRequired(mode) THEN "backup" ELSE "stat",
                         mode |-> mode, n |-> n, parts |-> parts]
  <2>4. mode \in Modes
    BY AutoRecoverAssumption DEF Types, Config
  <2>5. parts \in Seq(0 .. n)
    <3>1. <<n, n>> \in Seq(0 .. n) /\ <<n>> \in Seq(0 .. n) /\ << >> \in Seq(0 .. n)
      BY <2>1
    <3>2. Parts(mode, n) \subseteq {<<n, n>>, <<n>>, << >>}
      BY <2>4 DEF Parts, Modes
    <3>3. QED
      BY <3>1, <3>2
  <2>6. /\ DOMAIN changes = {"pc", "mode", "n", "parts"} /\ changes["mode"] = mode
        /\ changes["pc"] \in {"backup", "stat"} /\ changes["n"] = n /\ changes["parts"] = parts
        /\ Set(p, changes)
    BY <2>3
  <2> HIDE DEF changes
  <2>7. proc'[p] = [f \in Fields |-> IF f \in DOMAIN changes THEN changes[f] ELSE proc[p][f]]
    BY <2>6, SetProperties DEF Types
  <2>8. proc'[p].pc \notin HasFile
    BY <2>6, <2>7 DEF Fields, HasFile
  <2>9. UNCHANGED <<config, inode, dir>>
    BY <1>2 DEF Start
  <2>10. DOMAIN proc' = Procs /\ \A q \in Procs : WellTyped(proc[q])'
    <3>1. DOMAIN changes \subseteq Fields /\ changes["pc"] \in Steps
      BY <2>6 DEF Fields, Steps
    <3>2. opens' \in Nat /\ opens <= opens' /\ Len(inode') \in Nat /\ Len(inode) <= Len(inode')
      BY <1>1, <2>1, <2>9
    <3>3. changes["n"] \in 0 .. opens' /\ changes["parts"] \in Seq(0 .. opens')
      BY <2>1, <2>5, <2>6
    <3>4. QED
      BY <2>4, <2>6, <2>8, <3>1, <3>2, <3>3, SetTyped
  <2>11. inode' \in Seq(Seq(0 .. opens'))
    <3>1. Seq(0 .. opens) \subseteq Seq(0 .. n)
      BY <2>1, SeqGrows
    <3>2. Seq(Seq(0 .. opens)) \subseteq Seq(Seq(0 .. n))
      BY <3>1, SeqGrows
    <3>3. QED
      BY <2>1, <2>9, <3>2 DEF Types
  <2>12. QED
    BY <2>1, <2>9, <2>10, <2>11 DEF Types
(* The steps that change names only, and no inode.                         *)
<1>3. ASSUME NEW p \in Procs, NEW place \in Steps \ HasFile, Goto(p, place), Same,
             UNCHANGED inode, dir' \in [Names -> 0 .. Len(inode)]
      PROVE  Types'
  <2>1. DOMAIN proc' = Procs /\ \A q \in Procs : WellTyped(proc[q])'
    BY <1>3, GotoTyped
  <2>2. QED
    BY <1>3, <2>1 DEF Types
<1>4. ASSUME NEW p \in Procs, TakeBackup(p) PROVE Types'
  BY <1>1, <1>3, <1>4, NamesTyped DEF TakeBackup, Names, Steps, HasFile
<1>5. ASSUME NEW p \in Procs, Stat(p) PROVE Types'
  <2>1. PICK place \in {"open", "unlink", "archive"} : Goto(p, place)
    BY <1>5 DEF Stat
  <2>2. QED
    BY <1>1, <1>3, <1>5, <2>1 DEF Stat, Steps, HasFile
<1>6. ASSUME NEW p \in Procs, UnlinkBackup(p) PROVE Types'
  BY <1>1, <1>3, <1>6, NamesTyped DEF UnlinkBackup, Names, Steps, HasFile
<1>7. ASSUME NEW p \in Procs, Archive(p) PROVE Types'
  BY <1>1, <1>3, <1>7, NamesTyped DEF Archive, Names, Steps, HasFile
<1>8. ASSUME NEW p \in Procs, Import(p) PROVE Types'
  BY <1>1, <1>3, <1>8, NamesTyped DEF Import, Names, Steps, HasFile
<1>9. ASSUME NEW p \in Procs, Open(p) PROVE Types'
  <2> DEFINE to == IF proc[p].mode = "w" THEN "truncate" ELSE "opened"
             new == Len(inode) + 1
  <2>1. UNCHANGED <<config, opens>> /\ new \in Nat
    BY <1>1, <1>9 DEF Open
  <2>2. CASE dir["Path"] # None /\ Set(p, [pc |-> to, fd |-> dir["Path"]])
             /\ UNCHANGED <<dir, inode>>
    <3>1. dir["Path"] \in 0 .. Len(inode)
      BY <1>1 DEF Names
    <3>2. DOMAIN proc' = Procs /\ \A q \in Procs : WellTyped(proc[q])'
      BY <1>1, <2>1, <2>2, <3>1, OpenTyped DEF SetOpen, HasFile
    <3>3. QED
      BY <2>1, <2>2, <3>2 DEF Types
  <2>3. CASE /\ inode' = Append(inode, << >>)
             /\ dir' = [dir EXCEPT !["Path"] = new]
             /\ Set(p, [pc |-> to, fd |-> new])
    <3>1. inode' \in Seq(Seq(0 .. opens)) /\ Len(inode') = new
      BY <2>3 DEF Types
    <3>2. dir' \in [Names -> 0 .. Len(inode')]
      <4>1. new \in 0 .. new /\ 0 .. Len(inode) \subseteq 0 .. new
        BY <1>1
      <4> HIDE DEF new
      <4>2. dir' \in [Names -> 0 .. new]
        BY <1>1, <2>3, <4>1
      <4>3. QED
        BY <3>1, <4>2
    <3>3. DOMAIN proc' = Procs /\ \A q \in Procs : WellTyped(proc[q])'
      <4>1. SetOpen(p, to, new) /\ to \in {"truncate", "opened"}
        BY <2>3 DEF SetOpen
      <4>2. new \in 0 .. Len(inode') /\ new # None /\ Len(inode) <= Len(inode')
            /\ Len(inode') \in Nat
        BY <1>1, <3>1 DEF None
      <4> HIDE DEF new, to
      <4>3. QED
        BY <2>1, <4>1, <4>2, OpenTyped, Zenon
    <3>4. QED
      BY <2>1, <3>1, <3>2, <3>3 DEF Types
  <2>4. CASE Set(p, Idle) /\ UNCHANGED <<dir, inode>>
    BY <2>1, <2>4, IdleTyped DEF Types
  <2>5. \/ dir["Path"] # None /\ Set(p, [pc |-> to, fd |-> dir["Path"]])
           /\ UNCHANGED <<dir, inode>>
        \/ /\ inode' = Append(inode, << >>)
           /\ dir' = [dir EXCEPT !["Path"] = new]
           /\ Set(p, [pc |-> to, fd |-> new])
        \/ Set(p, Idle) /\ UNCHANGED <<dir, inode>>
    BY <1>9, Zenon DEF Open
  <2>6. QED
    BY <2>2, <2>3, <2>4, <2>5, Zenon
<1>10. ASSUME NEW p \in Procs, Truncate(p) PROVE Types'
  <2>1. proc[p].fd # None /\ Goto(p, "opened") /\ UNCHANGED <<config, opens, dir>>
    BY <1>10 DEF Truncate, Types, WellTyped, HasFile
  <2>2. inode' \in Seq(Seq(0 .. opens)) /\ Len(inode') = Len(inode)
    <3> DEFINE values == 0 .. opens
    <3>1. inode \in Seq(Seq(values)) /\ << >> \in Seq(values)
      BY DEF Types
    <3> HIDE DEF values
    <3>2. inode' \in Seq(Seq(values)) /\ Len(inode') = Len(inode)
      BY <1>10, <3>1, SeqReplaced DEF Truncate
    <3>3. QED
      BY <3>2 DEF values
  <2>3. DOMAIN proc' = Procs /\ \A q \in Procs : WellTyped(proc[q])'
    BY <2>1, <2>2, GotoTyped DEF Steps, HasFile
  <2>4. QED
    BY <2>1, <2>2, <2>3 DEF Types
<1>11. ASSUME NEW p \in Procs, WritePart(p) PROVE Types'
  BY <1>11, WriteTyped
<1>12. ASSUME NEW p \in Procs, STREAMClose(p) PROVE Types'
  <2>1. PICK place \in {"delete", "close"} : Goto(p, place)
    BY <1>12 DEF STREAMClose
  <2>2. proc[p].fd # None /\ UNCHANGED <<config, opens, inode, dir>>
    BY <1>12 DEF STREAMClose, Types, WellTyped, HasFile
  <2>3. DOMAIN proc' = Procs /\ \A q \in Procs : WellTyped(proc[q])'
    BY <2>1, <2>2, GotoTyped DEF Steps
  <2>4. QED
    BY <2>2, <2>3 DEF Types
<1>13. ASSUME NEW p \in Procs, STREAMCloseFile(p) PROVE Types'
  <2>1. /\ proc[p].fd # None /\ UNCHANGED <<config, opens, inode>>
        /\ Goto(p, "close") /\ Unlink("Path.autorecover")
    BY <1>13 DEF STREAMCloseFile, Types, WellTyped, HasFile
  <2>2. DOMAIN proc' = Procs /\ \A q \in Procs : WellTyped(proc[q])'
    BY <2>1, GotoTyped DEF Steps
  <2>3. dir' \in [Names -> 0 .. Len(inode)]
    BY <1>1, <2>1, NamesTyped DEF Names
  <2>4. QED
    BY <2>1, <2>2, <2>3 DEF Types
<1>14. ASSUME NEW p \in Procs, Close(p) PROVE Types'
  BY <1>14, IdleTyped DEF Close, Types
<1>15. ASSUME NEW p \in Procs, Die(p) PROVE Types'
  BY <1>15, IdleTyped DEF Die, Types
<1>16. CASE Next
  <2>1. PICK p \in config.procs : Step(p)
    BY <1>16 DEF Next
  <2>2. p \in Procs
    BY AutoRecoverAssumption DEF Types, Config
  <2>3. QED
    BY <1>2, <1>4, <1>5, <1>6, <1>7, <1>8, <1>9, <1>10, <1>11, <1>12, <1>13, <1>14, <1>15,
       <2>1, <2>2 DEF Step
<1>17. CASE UNCHANGED vars
  BY <1>17 DEF vars, Types, WellTyped
<1>18. QED
  BY <1>16, <1>17
-----------------------------------------------------------------------------
(* An orderly use is by one program at a time.                             *)
LEMMA OneProcess ==
    ASSUME Orderly, config \in Configs
    PROVE  \E p \in Procs : config.procs = {p}
<1>1. config.procs \subseteq Procs /\ IsFiniteSet(Procs)
  BY AutoRecoverAssumption DEF Config
<1>2. IsFiniteSet(config.procs) /\ Cardinality(config.procs) = 1
  BY <1>1, FS_Subset DEF Orderly
<1>3. PICK p : config.procs = {p}
  BY <1>2, FS_Singleton
<1>4. QED
  BY <1>1, <1>3

(* The invariant at the start.                                             *)
LEMMA IInvInit == Init => IInv
<1> SUFFICES ASSUME Init, Orderly PROVE Typed /\ \A p \in config.procs : AtStep(p)
  BY DEF IInv
<1>1. closed = <<0, 0>> /\ closed \in Seq(Nat) /\ closed # << >>
  BY DEF Init
<1>2. inode = <<closed>> /\ inode \in Seq(Seq(Nat)) /\ Len(inode) = 1 /\ inode[1] = closed
  BY <1>1 DEF Init
<1>3. dir \in [Names -> Nat] /\ File = 1 /\ Backup = None
  BY DEF Init, Names, None, File, Backup
<1>4. IsProcess(Idle)
  BY DEF IsProcess, Idle, Steps, Modes, None
<1>5. Typed
  BY <1>1, <1>2, <1>3, <1>4 DEF Init, Typed, Programs
<1>6. InFile
  BY <1>2, <1>3 DEF InFile, None
<1>7. ASSUME NEW p \in config.procs PROVE AtStep(p)
  <2>1. proc[p] = Idle
    BY OneProcess, <1>5 DEF Init, Typed
  <2>2. QED
    BY <1>6, <2>1 DEF AtStep, Idle
<1>8. QED
  BY <1>5, <1>7

(* The invariant at each step.                                             *)
LEMMA IInvNext == IInv /\ [Next]_vars => IInv'
<1> SUFFICES ASSUME IInv, [Next]_vars, Orderly'
             PROVE  Typed' /\ \A p \in config'.procs : AtStep(p)'
  BY DEF IInv
<1>1. UNCHANGED config
  BY DEF Next, Step, vars, Start, TakeBackup, Stat, UnlinkBackup, Archive, Import, Open,
         Truncate, WritePart, STREAMClose, STREAMCloseFile, Close, Die, Same
<1>2. Orderly
  BY <1>1 DEF Orderly
<1>3. Typed /\ \A p \in config.procs : AtStep(p)
  BY <1>2 DEF IInv
<1>4. PICK p \in Procs : config.procs = {p}
  BY <1>2, <1>3, OneProcess DEF Typed
<1>5. CASE Next
  <2>1. Step(p)
    BY <1>4, <1>5 DEF Next
  <2>2. QED
    BY <1>1, <1>2, <1>3, <1>4, <2>1, StepProperties
<1>6. CASE UNCHANGED vars
  <2>1. Typed'
    BY <1>3, <1>6 DEF vars, Typed, Programs
  <2>2. AtStep(p)'
    BY <1>3, <1>4, <1>6 DEF vars, AtStep, InFile, InBackup, Writes, Written, Extends, File, Backup
  <2>3. QED
    BY <1>1, <1>4, <2>1, <2>2
<1>7. QED
  BY <1>5, <1>6

(* What was last closed is in the file or in its backup at every step of   *)
(* any number of programs one after another, wherever they die: neither    *)
(* the two renames of a recovery nor the two of a writer leave a moment    *)
(* at which STREAMFileAutoRecover would find neither.                      *)
THEOREM Kept == Spec => []ClosedIsKept
<1>1. IInv => ClosedIsKept
  <2> SUFFICES ASSUME IInv, Orderly
               PROVE  \E name \in {"Path", "Path.autorecover"} :
                        dir[name] # None /\ IsPrefix(closed, inode[dir[name]])
    BY DEF ClosedIsKept
  <2>1. Typed /\ \A p \in config.procs : AtStep(p)
    BY DEF IInv
  <2>2. PICK p \in Procs : config.procs = {p}
    BY <2>1, OneProcess DEF Typed
  <2>3. AtStep(p) /\ proc[p].pc \in Steps /\ proc[p].n \in Nat
    BY <2>1, <2>2 DEF Typed, Programs, IsProcess
  <2>4. closed \in Seq(Nat)
    BY <2>1 DEF Typed
  <2>5. IsPrefix(closed, closed)
    BY <2>4 DEF IsPrefix
  <2>6. IsPrefix(closed, Append(closed, proc[p].n))
    BY <2>3, <2>4 DEF IsPrefix
  <2>7. InFile \/ InBackup \/ Extends(proc[p])
    BY <2>3 DEF AtStep, Steps, Writes
  <2>8. CASE InFile \/ Extends(proc[p])
    <3>1. File \in 1 .. Len(inode)
      BY <2>8 DEF InFile, Extends
    <3>2. inode[File] = closed \/ inode[File] = Append(closed, proc[p].n)
      BY <2>8 DEF InFile, Extends
    <3>3. IsPrefix(closed, inode[File])
      BY <2>5, <2>6, <3>2
    <3>4. QED
      BY <3>1, <3>3 DEF File, None
  <2>9. CASE InBackup
    <3>1. Backup # None /\ IsPrefix(closed, inode[Backup])
      BY <2>5, <2>9 DEF InBackup, None
    <3>2. QED
      BY <3>1 DEF Backup
  <2>10. QED
    BY <2>7, <2>8, <2>9
<1>2. QED
  BY <1>1, IInvInit, IInvNext, PTL DEF Spec

(* "If the file isn't closed properly, then revert to that backup when     *)
(* next it's opened" (Stream.h): who opens the file to read it or to add   *)
(* to it finds what was last closed, whatever number of programs died.     *)
THEOREM Reverted == Spec => []RevertsToClosed
<1>1. IInv => RevertsToClosed
  <2> SUFFICES ASSUME IInv, Orderly, NEW q \in Procs, At(q, "opened"),
                      proc[q].parts \in Parts(proc[q].mode, proc[q].n),
                      proc[q].mode # "w"
               PROVE  inode[proc[q].fd] = closed
    BY DEF RevertsToClosed, Reverts
  <2>1. Typed /\ \A p \in config.procs : AtStep(p)
    BY DEF IInv
  <2>2. q \in config.procs
    BY <2>1 DEF At, Typed, Programs, Idle
  <2>3. AtStep(q) /\ proc[q].pc = "opened" /\ proc[q].mode \in Modes /\ proc[q].n \in Nat
    BY <2>1, <2>2 DEF At, Typed, Programs, IsProcess
  <2>4. ~config.empty
    BY DEF Orderly
  <2>5. proc[q].mode = "a" => proc[q].parts # << >>
    BY <2>3, <2>4, PartsProperties
  <2>6. Extends(proc[q])
    BY <2>3 DEF AtStep
  <2>7. QED
    BY <2>3, <2>5, <2>6 DEF Extends
<1>2. QED
  BY <1>1, IInvInit, IInvNext, PTL DEF Spec

(* Types; and, of one process that recovers after a death, what is above.  *)
THEOREM ClosedIsKeptAlways == Spec => []ClosedIsKeptInFile
<1>1. Types => TypeOK
  <2> SUFFICES ASSUME Types PROVE TypeOK
    OBVIOUS
  <2>1. ASSUME NEW i \in DOMAIN inode PROVE ToSet(inode[i]) \subseteq 0 .. opens
    BY DEF Types, ToSet
  <2>2. ASSUME NEW p \in Procs
        PROVE  /\ proc[p].mode \in Modes /\ proc[p].fd \in 0 .. Len(inode)
               /\ At(p, "opened") => proc[p].fd # None
    BY DEF Types, WellTyped, At, HasFile
  <2>3. QED
    BY <2>1, <2>2 DEF Types, TypeOK
<1>2. Spec => []TypeOK
  BY <1>1, TypesInit, TypesNext, PTL DEF Spec
<1>3. QED
  BY <1>2, Kept, Reverted, PTL DEF ClosedIsKeptInFile

-----------------------------------------------------------------------------
(* THE SETUP OF A PROCESS.                                                 *)

(* What a list of rules is made of.                                        *)
Words == {"deny", "group:ptrace", "ioctl(tiocsti)", "kill", "group:kexec",
          "group:weird", "acct", "capset", "chown", "chmod(suid)",
          "group:sysadmin", "bpf", "group:keyring", "group:chroot",
          "group:ns", "utimes", "allow", "ioctl(user)", "ioctl",
          "chmod(exec)", "group:kill", "link", "unlink", "group:exec",
          "group:filesystem", "group:open", "group:filesystem:pipe",
          "socket", "group:server", "socket(inet)", "socket(unix)",
          "group:net", "group:mexec", "group:ipc", "group:shm",
          "group:msgq", "?"}
CallNames == Seq(Words) \ {<< >>}
Rules == [act : Words, names : CallNames, space : BOOLEAN]
Lists == Seq(Rules) \ {<< >>}

(* A list of one name,                                                     *)
LEMMA OneName ==
    ASSUME NEW a \in Words PROVE <<a>> \in CallNames
BY DEF CallNames

(* of two,                                                                 *)
LEMMA TwoNames ==
    ASSUME NEW a \in Words, NEW b \in Words PROVE <<a, b>> \in CallNames
BY DEF CallNames

(* of three,                                                               *)
LEMMA ThreeNames ==
    ASSUME NEW a \in Words, NEW b \in Words, NEW c \in Words
    PROVE  <<a, b, c>> \in CallNames
BY DEF CallNames

(* and of four names.                                                      *)
LEMMA FourNames ==
    ASSUME NEW a \in Words, NEW b \in Words, NEW c \in Words, NEW d \in Words
    PROVE  <<a, b, c, d>> \in CallNames
BY DEF CallNames

(* A rule of such names, and lists of one, two or three of them.           *)
LEMMA RuleTyped ==
    ASSUME NEW act \in Words, NEW names \in CallNames PROVE Pr!Rule(act, names) \in Rules
BY DEF Pr!Rule, Rules

(* Lists of one, two or three rules.                                       *)
LEMMA ListsTyped ==
    ASSUME NEW a \in Rules
    PROVE  /\ <<a>> \in Lists
           /\ \A b \in Rules : <<a, b>> \in Lists
           /\ \A b \in Rules, c \in Rules : <<a, b, c>> \in Lists
BY DEF Lists

(* The names that a list may run into are names as well.                   *)
LEMMA WordsUsed ==
    /\ "allow" \in Words /\ "deny" \in Words /\ "kill" \in Words /\ "?" \in Words
BY DEF Words

(* What each level adds is a list of rules, and never none.                *)
LEMMA LevelLists == \A t \in DOMAIN Pr!LevelRules : Pr!LevelRules[t] \in Lists
<1> DEFINE L == Pr!LevelRules
<1> SUFFICES ASSUME NEW t \in DOMAIN L PROVE L[t] \in Lists
  OBVIOUS
<1>1. DOMAIN L = {"minimal", "basic", "user", "guest", "untrusted", "constrained",
                   "high", "paranoid", "worker", "memworker"}
  BY DEF Pr!LevelRules
<1>2. L["minimal"] \in Lists
  BY TwoNames, RuleTyped, ListsTyped, WordsUsed DEF Pr!LevelRules, Words
<1>3. L["basic"] \in Lists
  BY TwoNames, RuleTyped, ListsTyped, WordsUsed DEF Pr!LevelRules, Words
<1>4. L["user"] \in Lists
  <2>1. "group:sysadmin" \in Words /\ "bpf" \in Words
        /\ "capset" \in Words /\ "ioctl(tiocsti)" \in Words
    BY DEF Words
  <2>2. <<"group:sysadmin", "bpf", "capset", "ioctl(tiocsti)">> \in CallNames
    BY <2>1, FourNames
  <2>3. QED
    BY <2>2, TwoNames, RuleTyped, ListsTyped, WordsUsed
       DEF Pr!LevelRules, Words
<1>5. L["guest"] \in Lists
  BY OneName, RuleTyped, ListsTyped, WordsUsed DEF Pr!LevelRules, Words
<1>6. L["untrusted"] \in Lists
  <2>1. "group:chroot" \in Words /\ "group:keyring" \in Words
        /\ "group:ns" \in Words /\ "acct" \in Words
    BY DEF Words
  <2>2. <<"group:chroot", "group:keyring", "group:ns", "acct">> \in CallNames
    BY <2>1, FourNames
  <2>3. QED
    BY <2>2, OneName, RuleTyped, ListsTyped, WordsUsed
       DEF Pr!LevelRules, Words
<1>7. L["constrained"] \in Lists
  BY OneName, RuleTyped, ListsTyped, WordsUsed DEF Pr!LevelRules, Words
<1>8. L["high"] \in Lists
  <2>1. "chmod(exec)" \in Words /\ "group:kill" \in Words /\ "link" \in Words
    BY DEF Words
  <2>2. <<"chmod(exec)", "group:kill", "link">> \in CallNames
    BY <2>1, ThreeNames
  <2>3. QED
    BY <2>2, RuleTyped, ListsTyped, WordsUsed DEF Pr!LevelRules
<1>9. L["paranoid"] \in Lists
  <2>1. "group:kill" \in Words /\ "link" \in Words
        /\ "unlink" \in Words /\ "group:exec" \in Words
    BY DEF Words
  <2>2. <<"group:kill", "link", "unlink", "group:exec">> \in CallNames
    BY <2>1, FourNames
  <2>3. QED
    BY <2>2, RuleTyped, ListsTyped, WordsUsed
       DEF Pr!LevelRules, Words
<1>10. L["worker"] \in Lists
  BY OneName, RuleTyped, ListsTyped, WordsUsed DEF Pr!LevelRules, Words
<1>11. L["memworker"] \in Lists
  BY TwoNames, RuleTyped, ListsTyped, WordsUsed DEF Pr!LevelRules, Words
<1> HIDE DEF L
<1>12. QED
  BY <1>1, <1>2, <1>3, <1>4, <1>5, <1>6, <1>7, <1>8, <1>9, <1>10, <1>11

(* So is what each modifier adds.                                          *)
LEMMA ModifierLists == \A t \in DOMAIN Pr!Modifiers : Pr!Modifiers[t] \in Lists
<1> DEFINE L == Pr!Modifiers
<1> SUFFICES ASSUME NEW t \in DOMAIN L PROVE L[t] \in Lists
  OBVIOUS
<1>1. DOMAIN L = {"client", "basicnet", "local", "nonet", "killnet", "noexec", "nomemexec",
                   "noipc", "noshm", "nomsgq", "noptrace"}
  BY DEF Pr!Modifiers
<1>2. L["client"] \in Lists
  BY OneName, RuleTyped, ListsTyped, WordsUsed DEF Pr!Modifiers, Words
<1>3. L["basicnet"] \in Lists
  BY OneName, TwoNames, RuleTyped, ListsTyped, WordsUsed DEF Pr!Modifiers, Words, Pr!Sockets
<1>4. L["local"] \in Lists
  BY OneName, RuleTyped, ListsTyped, WordsUsed DEF Pr!Modifiers, Words, Pr!Sockets
<1>5. L["nonet"] \in Lists
  BY OneName, RuleTyped, ListsTyped, WordsUsed DEF Pr!Modifiers, Words
<1>6. L["killnet"] \in Lists
  BY OneName, RuleTyped, ListsTyped, WordsUsed DEF Pr!Modifiers, Words
<1>7. L["noexec"] \in Lists
  BY OneName, RuleTyped, ListsTyped, WordsUsed DEF Pr!Modifiers, Words
<1>8. L["nomemexec"] \in Lists
  BY OneName, RuleTyped, ListsTyped, WordsUsed DEF Pr!Modifiers, Words
<1>9. L["noipc"] \in Lists
  BY OneName, RuleTyped, ListsTyped, WordsUsed DEF Pr!Modifiers, Words
<1>10. L["noshm"] \in Lists
  <2>1. Pr!Rule("deny", <<"group:shm">>) \in Rules
    BY OneName, RuleTyped, WordsUsed DEF Words
  <2>2. [Pr!Rule("deny", <<"group:shm">>) EXCEPT !.space = FALSE] \in Rules
    BY <2>1 DEF Rules
  <2>3. QED
    BY <2>2, ListsTyped DEF Pr!Modifiers
<1>11. L["nomsgq"] \in Lists
  <2>1. Pr!Rule("deny", <<"group:msgq">>) \in Rules
    BY OneName, RuleTyped, WordsUsed DEF Words
  <2>2. [Pr!Rule("deny", <<"group:msgq">>) EXCEPT !.space = FALSE] \in Rules
    BY <2>1 DEF Rules
  <2>3. QED
    BY <2>2, ListsTyped DEF Pr!Modifiers
<1>12. L["noptrace"] \in Lists
  BY OneName, RuleTyped, ListsTyped, WordsUsed DEF Pr!Modifiers, Words
<1> HIDE DEF L
<1>13. QED
  BY <1>1, <1>2, <1>3, <1>4, <1>5, <1>6, <1>7, <1>8, <1>9, <1>10, <1>11, <1>12

(* So it is for every token, a level with all the levels below it.         *)
LEMMA TokenLists == \A t \in Pr!Tokens : Pr!TokenRules(t) \in Lists
<1> SUFFICES ASSUME NEW t \in Pr!Tokens PROVE Pr!TokenRules(t) \in Lists
  OBVIOUS
<1>1. CASE t \in DOMAIN Pr!Modifiers
  BY <1>1, ModifierLists DEF Pr!TokenRules, Pr!ProcessSeccompSetupModifier
<1>2. CASE t \notin DOMAIN Pr!Modifiers
  <2> DEFINE n == Pr!LevelOf(t)
             levels == [k \in 1 .. n |-> Pr!LevelRules[Pr!Levels[n + 1 - k]]]
  <2>1. DOMAIN Pr!Levels = 1 .. 10
    BY DEF Pr!Levels
  <2>2. \A i \in 1 .. 10 : Pr!Levels[i] \in DOMAIN Pr!LevelRules
    BY DEF Pr!Levels, Pr!LevelRules
  <2>3. \E i \in 1 .. 10 : Pr!Levels[i] = t
    BY <1>2, <2>1 DEF Pr!Tokens, Pr!Range
  <2>4. n \in 1 .. 10
    BY <2>1, <2>3 DEF Pr!LevelOf
  <2>5. Pr!TokenRules(t) = Flat(levels)
    BY <1>2 DEF Pr!TokenRules, Pr!ProcessSeccompSetupLevel, Pr!LevelsFrom, Pr!FlattenSeq, Flat
  <2> HIDE DEF n
  <2>6. \A k \in 1 .. n : levels[k] \in Lists
    <3>1. \A k \in 1 .. n : n + 1 - k \in 1 .. 10
      BY <2>4
    <3>2. QED
      BY <2>2, <3>1, LevelLists
  <2>7. levels \in Seq(Lists) /\ levels # << >>
    <3>1. levels \in [1 .. n -> Lists] /\ n \in Nat /\ 1 \in DOMAIN levels
      BY <2>4, <2>6
    <3> HIDE DEF levels
    <3>2. levels \in Seq(Lists)
      BY <3>1
    <3>3. QED
      BY <3>1, <3>2
  <2> HIDE DEF levels
  <2>8. Flat(levels) \in Seq(Rules) /\ Flat(levels) # << >>
    BY <2>7, FlatNotEmpty DEF Lists
  <2>9. QED
    BY <2>5, <2>8 DEF Lists
<1>3. QED
  BY <1>1, <1>2

(* Lists that run into each other are lists still.                         *)
LEMMA JoinedTyped ==
    ASSUME NEW a \in Rules, NEW b \in Rules PROVE Pr!Joined(a, b) \in Rules
<1>1. /\ a.names \in Seq(Words) /\ b.names \in Seq(Words) /\ b.names # << >>
      /\ a.act \in Words /\ b.space \in BOOLEAN
      /\ b = [act |-> b.act, names |-> b.names, space |-> b.space]
  BY DEF Rules, CallNames
<1> DEFINE front == Pr!Front(a.names)
           names == front \o <<"?">> \o Tail(b.names)
<1>2. front \in Seq(Words)
  <2>1. Len(a.names) \in Nat /\ \A i \in 1 .. Len(a.names) - 1 : a.names[i] \in Words
    BY <1>1, LenProperties, ElementOfSeq
  <2>2. SubSeq(a.names, 1, Len(a.names) - 1) \in Seq(Words)
    BY <2>1, SubSeqProperties
  <2>3. QED
    BY <2>2 DEF Pr!Front
<1>3. Tail(b.names) \in Seq(Words)
  BY <1>1, HeadTailProperties
<1> HIDE DEF front
<1>4. <<"?">> \in Seq(Words) /\ <<"?">> # << >>
  <2>1. <<"?">> \in CallNames
    BY WordsUsed, OneName
  <2>2. QED
    BY <2>1 DEF CallNames
<1> DEFINE mark == <<"?">>
           rest == Tail(b.names)
<1>5. names \in Seq(Words) /\ names # << >>
  <2>1. front \in Seq(Words) /\ mark \in Seq(Words) /\ rest \in Seq(Words) /\ mark # << >>
    BY <1>2, <1>3, <1>4
  <2> HIDE DEF mark, rest
  <2>2. front \o mark \in Seq(Words) /\ front \o mark # << >>
    BY <2>1, ConcatProperties, ConcatEqualIffEmpty
  <2>3. (front \o mark) \o rest \in Seq(Words) /\ (front \o mark) \o rest # << >>
    BY <2>1, <2>2, ConcatProperties, ConcatEqualIffEmpty
  <2>4. QED
    BY <2>3 DEF mark, rest
<1>6. Pr!Joined(a, b) = [b EXCEPT !.act = a.act, !.names = names]
  BY DEF Pr!Joined, front
<1> HIDE DEF names
<1>7. QED
  BY <1>1, <1>5, <1>6 DEF Rules, CallNames

(* And so it stays where lists run into each other.                        *)
LEMMA ParsedLists ==
    ASSUME NEW list \in Lists PROVE Pr!Parsed(list) # << >>
<1> DEFINE N == Len(list)
           R == Seq(Rules)
           Go(q, i) == IF i = 1 \/ list[i - 1].space THEN Append(q, list[i])
                          ELSE Pr!Join(q, list[i])
           step == [x \in (1 .. N) \X R |-> Go(x[2], x[1])]
           F(g) == g = [i \in 0 .. N |-> IF i = 0 THEN << >>
                          ELSE IF i = 1 \/ list[i - 1].space THEN Append(g[i - 1], list[i])
                          ELSE Pr!Join(g[i - 1], list[i])]
           e == CHOOSE g : F(g)
<1>1. /\ N \in Nat /\ N # 0 /\ list \in Seq(Rules)
      /\ \A i \in 1 .. N : list[i] \in Rules
  <2>1. list \in Seq(Rules) /\ list # << >>
    BY DEF Lists
  <2>2. N \in Nat \ {0}
    BY <2>1, EmptySeq
  <2>3. QED
    BY <2>1, <2>2, ElementOfSeq
<1>2. Pr!Parsed(list) = e[N]
  BY DEF Pr!Parsed
<1> HIDE DEF N
<1>3. ASSUME NEW q \in R, NEW r \in Rules
      PROVE  /\ Pr!Join(q, r) \in R /\ Append(q, r) \in R /\ Append(q, r) # << >>
             /\ q # << >> => Pr!Join(q, r) # << >>
  <2>1. Append(q, r) \in R /\ Append(q, r) # << >>
    BY AppendProperties
  <2>2. CASE q = << >>
    <3>1. Len(q) = 0 /\ DOMAIN q = {}
      BY <2>2
    <3>2. Pr!Join(q, r) = q
      BY <2>2, <3>1 DEF Pr!Join
    <3>3. QED
      BY <2>1, <2>2, <3>2
  <2>3. CASE q # << >>
    <3> DEFINE last == q[Len(q)]
               new == Pr!Joined(last, r)
    <3>1. Len(q) \in 1 .. Len(q) /\ last \in Rules
      <4>1. Len(q) \in Nat \ {0}
        BY <2>3, EmptySeq
      <4>2. Len(q) \in 1 .. Len(q)
        BY <4>1
      <4>3. QED
        BY <4>2, ElementOfSeq
    <3>2. new \in Rules
      BY <3>1, JoinedTyped
    <3>3. Pr!Join(q, r) = [q EXCEPT ![Len(q)] = new]
      BY DEF Pr!Join
    <3> HIDE DEF new
    <3>4. /\ [q EXCEPT ![Len(q)] = new] \in R
          /\ Len([q EXCEPT ![Len(q)] = new]) = Len(q)
      BY <3>1, <3>2, ExceptSeq
    <3>5. Pr!Join(q, r) # << >>
      <4>1. Len(q) # 0 /\ Len(<< >>) = 0
        BY <2>3, EmptySeq
      <4>2. QED
        BY <3>3, <3>4, <4>1
    <3>6. QED
      BY <2>1, <3>3, <3>4, <3>5
  <2>4. QED
    BY <2>2, <2>3
<1>4. \A i \in 1 .. N, q \in R :
        /\ Go(q, i) \in R
        /\ i = 1 \/ q # << >> => Go(q, i) # << >>
  BY <1>1, <1>3
<1>5. << >> \in R
  OBVIOUS
<1> HIDE DEF R, Go
<1>6. /\ step \in [(1 .. N) \X R -> R]
      /\ \A i \in 1 .. N, q \in R : step[<<i, q>>] = Go(q, i)
  BY <1>4
<1> HIDE DEF step
<1>7. PICK f \in [0 .. N -> R] : Stepwise(f, N, << >>, step)
  BY <1>1, <1>5, <1>6, StepsExist
<1>8. \A i \in 1 .. N : f[i - 1] \in R /\ f[i] = Go(f[i - 1], i)
  <2>1. \A i \in 1 .. N : f[i - 1] \in R
    BY <1>1
  <2>2. QED
    BY <1>6, <1>7, <2>1 DEF Stepwise
<1>9. F(f)
  <2>1. \A i \in 0 .. N : i = 0 \/ i \in 1 .. N
    BY <1>1
  <2>2. f[0] = << >>
    BY <1>7 DEF Stepwise
  <2>3. \A i \in 0 .. N : f[i] = IF i = 0 THEN << >>
                          ELSE IF i = 1 \/ list[i - 1].space THEN Append(f[i - 1], list[i])
                          ELSE Pr!Join(f[i - 1], list[i])
    BY <1>8, <2>1, <2>2 DEF Go
  <2>4. QED
    BY <2>3
<1>10. F(e)
  <2> HIDE DEF F
  <2>1. QED
    BY <1>9
<1>11. e[0] = << >> /\ \A i \in 1 .. N : e[i] = Go(e[i - 1], i)
  <2> HIDE DEF e
  <2>1. \A i \in 0 .. N : e[i] = IF i = 0 THEN << >>
                          ELSE IF i = 1 \/ list[i - 1].space THEN Append(e[i - 1], list[i])
                          ELSE Pr!Join(e[i - 1], list[i])
    BY <1>10
  <2>2. 0 \in 0 .. N /\ \A i \in 1 .. N : i \in 0 .. N /\ i # 0
    BY <1>1
  <2>3. QED
    BY <2>1, <2>2 DEF Go
<1> HIDE DEF e, F
<1> DEFINE T == {i \in Nat : i <= N => e[i] \in R /\ (i # 0 => e[i] # << >>)}
<1>12. 0 \in T
  BY <1>5, <1>11
<1>13. ASSUME NEW i \in Nat, i \in T PROVE i + 1 \in T
  <2> SUFFICES ASSUME i + 1 <= N PROVE e[i + 1] \in R /\ e[i + 1] # << >>
    OBVIOUS
  <2>1. i <= N /\ i + 1 \in 1 .. N /\ (i + 1) - 1 = i /\ (i + 1 = 1 <=> i = 0)
    BY <1>1
  <2>2. e[i] \in R /\ (i # 0 => e[i] # << >>) /\ e[i + 1] = Go(e[i], i + 1)
    BY <1>11, <1>13, <2>1
  <2>3. QED
    BY <1>4, <2>1, <2>2
<1>14. N \in T
  <2> HIDE DEF T
  <2>1. QED
    BY <1>1, <1>12, <1>13, SetInduction
<1>15. QED
  BY <1>1, <1>2, <1>14

(* Any token makes for some rules.                                         *)
LEMMA SecurityHasRules ==
    ASSUME NEW asked \in Seq(Pr!Tokens), asked # << >>
    PROVE  Pr!Parsed(Pr!ProcessParseSecurity(asked)) # << >>
<1> DEFINE tables == [i \in DOMAIN asked |-> Pr!TokenRules(asked[i])]
           n == Len(asked)
<1>1. n \in Nat \ {0} /\ DOMAIN asked = 1 .. n /\ \A i \in 1 .. n : asked[i] \in Pr!Tokens
  BY EmptySeq, LenProperties, ElementOfSeq
<1>2. Pr!ProcessParseSecurity(asked) = Flat(tables)
  BY DEF Pr!ProcessParseSecurity, Pr!FlattenSeq, Flat
<1>3. tables \in [1 .. n -> Lists] /\ 1 \in DOMAIN tables
  BY <1>1, TokenLists
<1> HIDE DEF tables, n
<1>4. tables \in Seq(Lists) /\ tables # << >>
  BY <1>1, <1>3
<1>5. Flat(tables) \in Lists
  BY <1>4, FlatNotEmpty DEF Lists
<1>6. QED
  BY <1>2, <1>5, ParsedLists

-----------------------------------------------------------------------------
(* The steps of a setup that are done before each of the later ones.       *)
ToDaemon == {"early", "daemon"}
ToChroot == ToDaemon \cup {"chroot"}
ToContainer == ToChroot \cup {"container"}
ToOptions == ToContainer \cup {"options"}
ToLock == ToOptions \cup {"locked"}
ToGroup == ToLock \cup {"group"}
ToKeep == ToGroup \cup {"user", "keep"}
ToCaps == ToKeep \cup {"caps"}
ToPtrace == ToCaps \cup {"ptrace"}
ToJail == ToPtrace \cup {"jail"}
ToNnp == ToJail \cup {"nnp"}
ToSeccomp == ToNnp \cup {"seccomp"}
Stops == {"exit", "abort"}

(* What was asked for is one of the cases.                                 *)
ProcessTyped ==
    /\ pc \in ToSeccomp \cup Stops \cup {"return", "run"}
    /\ opts \subseteq Pr!Options
    /\ security \in Seq(Pr!Tokens)
    /\ "nspath" \in opts => "container" \in opts
    /\ failed \in BOOLEAN

(* A setup that did not fail has done what is asked for of each step that  *)
(* it is past.                                                             *)
DoneSoFar ==
    /\ "daemon" \in opts /\ pc \notin ToDaemon => "daemon" \in done
    /\ "chroot" \in opts /\ pc \notin ToChroot => "chroot" \in done
    /\ "unshare" \notin refused /\ pc \notin ToContainer
       => Pr!Namespaces \cup (opts \cap {"nspath"}) \subseteq done
    /\ "container" \in opts /\ {"unshare", "containerRoot"} \cap refused = {}
            /\ pc \notin ToContainer
       => "containerRoot" \in done
    /\ pc \notin ToLock => opts \cap Pr!Late \subseteq done
    /\ "group" \in opts /\ "group" \notin Pr!Unreported /\ pc \notin ToGroup
       => "group" \in done
    /\ "user" \in opts /\ "user" \notin Pr!Unreported /\ pc \notin ToKeep => "user" \in done
    /\ "caps" \in opts /\ pc \notin ToCaps => "caps" \in done
    /\ Pr!Asked("ptrace") /\ pc \notin ToPtrace => "ptrace" \in done
    /\ "jail" \in opts /\ pc \notin ToJail => "jail" \in done
    /\ "nosu" \in opts /\ "jail" \notin opts /\ pc \notin ToNnp => "nosu" \in done

(* The rest of it: its file names it, it is not root, and it has rules.    *)
HeldSoFar ==
    /\ Pr!WritePidFile /\ pc \notin ToLock => pidInFile = pid
    /\ "user" \in opts /\ "user" \notin Pr!Unreported /\ pc \notin ToKeep
       => uid = "other" /\ (permitted => "keepcaps" \in opts)
    /\ security # << >> /\ pc \notin ToOptions => rules # << >>
    /\ "jail" \in opts => pc \notin {"nnp", "seccomp"}
    /\ security # << >> /\ "jail" \notin opts /\ pc \notin ToSeccomp => "security" \in done

ProcessInv ==
    /\ ProcessTyped
    /\ pc = "run" => ~failed
    /\ ~failed /\ pc \notin Stops => DoneSoFar /\ HeldSoFar

(* The setup begins with nothing done and nothing failed.                  *)
LEMMA ProcessStart == Pr!Init => ProcessInv
<1> SUFFICES ASSUME Pr!Init PROVE ProcessInv
  OBVIOUS
<1>1. PICK case \in ProcessCases :
        opts = case[1] /\ security = case[2] /\ refused = case[3]
  BY DEF Pr!Init
<1>2. /\ ProcessCases \subseteq (SUBSET Pr!Options) \X Seq(Pr!Tokens) \X (SUBSET Pr!Steps)
      /\ "nspath" \in case[1] => "container" \in case[1]
  BY ProgramsAssumption DEF Pr!ProcessAssumption
<1>3. case[1] \subseteq Pr!Options /\ case[2] \in Seq(Pr!Tokens)
  <2> HIDE DEF Pr!Options, Pr!Tokens, Pr!Steps
  <2>1. case \in (SUBSET Pr!Options) \X Seq(Pr!Tokens) \X (SUBSET Pr!Steps)
    BY <1>2
  <2>2. QED
    BY <2>1
<1>4. pc = "early" /\ failed = FALSE
  BY DEF Pr!Init
<1>5. ProcessTyped
  BY <1>1, <1>2, <1>3, <1>4 DEF ProcessTyped, ToDaemon, ToChroot, ToContainer, ToOptions, ToGroup,
     ToLock, ToKeep, ToCaps, ToPtrace, ToJail, ToNnp, ToSeccomp
<1>6. DoneSoFar /\ HeldSoFar
  BY <1>4 DEF DoneSoFar, HeldSoFar, ToDaemon, ToChroot, ToContainer, ToOptions, ToGroup,
     ToLock, ToKeep, ToCaps, ToPtrace, ToJail, ToNnp, ToSeccomp
<1>7. QED
  BY <1>4, <1>5, <1>6 DEF ProcessInv

(* Each step does what is asked of it, or fails.                           *)
LEMMA ProcessStep == ProcessInv /\ Pr!Next => ProcessInv'
<1> SUFFICES ASSUME ProcessInv, Pr!Next PROVE ProcessInv'
  OBVIOUS
<1>0. /\ UNCHANGED <<opts, security, refused, root>>
      /\ Pr!Namespaces' = Pr!Namespaces /\ Pr!Late' = Pr!Late
      /\ Pr!Unreported' = Pr!Unreported /\ Pr!WritePidFile' = Pr!WritePidFile
      /\ Pr!Asked("ptrace")' = Pr!Asked("ptrace")
  <2>1. UNCHANGED <<opts, security, refused, root>>
    BY DEF Pr!Next, Pr!Library, Pr!ProcessApplyEarlyConfig, Pr!demonize, Pr!Chroot,
       Pr!ContainerApplyConfig, Pr!LateOptions, Pr!LockIsFree, Pr!OptionsAreDone, Pr!SwitchGID,
       Pr!SetEffectiveUID, Pr!SwitchUID, Pr!ProcessSetCapabilities, Pr!ProcessResistPtrace,
       Pr!Jail, Pr!ProcessNoNewPrivs, Pr!SeccompAddRules, Pr!ProcessApplyConfig, Pr!Goto,
       Pr!Const, Pr!Try
  <2>2. QED
    BY <2>1 DEF Pr!Namespaces, Pr!Late, Pr!Unreported, Pr!WritePidFile, Pr!Asked, Pr!May,
       Pr!Switches, Pr!TokenNamespaces
<1> USE <1>0 DEF ProcessInv, ProcessTyped, DoneSoFar, HeldSoFar, ToDaemon, ToChroot,
            ToContainer, ToOptions, ToLock, ToGroup, ToKeep, ToCaps, ToPtrace, ToJail, ToNnp,
            ToSeccomp, Stops, Pr!Goto, Pr!Keep, Pr!Nothing, Pr!Become, Pr!May, Pr!Try
<1> HIDE DEF Pr!Options, Pr!Tokens
<1>1. CASE Pr!ProcessApplyEarlyConfig
  BY <1>1 DEF Pr!ProcessApplyEarlyConfig
<1>2. CASE Pr!demonize
  BY <1>2 DEF Pr!demonize, Pr!Asked
<1>3. CASE Pr!Chroot
  BY <1>3 DEF Pr!Chroot, Pr!Asked
<1>4. CASE Pr!ContainerApplyConfig
  <2>1. /\ pc = "container" /\ pc' = "options" /\ done \subseteq done'
        /\ failed' \in BOOLEAN /\ (~failed' => ~failed)
    BY <1>4 DEF Pr!ContainerApplyConfig
  <2>2. ASSUME ~failed', "unshare" \notin refused
        PROVE  /\ Pr!Namespaces \cup (opts \cap {"nspath"}) \subseteq done'
               /\ "container" \in opts /\ "containerRoot" \notin refused
                  => "containerRoot" \in done'
    <3>1. "container" \in opts => Pr!Namespaces # {}
      BY DEF Pr!Namespaces
    <3>2. Pr!Namespaces # {} => Pr!OnNamespaceJoin
      BY <1>4, <2>2 DEF Pr!ContainerApplyConfig
    <3>3. CASE Pr!Namespaces # {}
      BY <1>4, <2>2, <3>2, <3>3 DEF Pr!ContainerApplyConfig, Pr!Asked
    <3>4. CASE Pr!Namespaces = {}
      BY <3>1, <3>4
    <3>5. QED
      BY <3>3, <3>4
  <2>3. QED
    BY <2>1, <2>2
<1>5. CASE Pr!LateOptions
  <2>1. security # << >> => Pr!Parsed(Pr!ProcessParseSecurity(security)) # << >>
    BY SecurityHasRules
  <2> DEFINE parsed == Pr!Parsed(Pr!ProcessParseSecurity(security))
  <2>2. rules' = parsed /\ (security # << >> => parsed # << >>)
    BY <1>5, <2>1 DEF Pr!LateOptions
  <2> HIDE DEF parsed
  <2>3. QED
    BY <1>5, <2>2 DEF Pr!LateOptions, Pr!OptionsAreDone
<1>6. CASE Pr!SwitchGID
  BY <1>6 DEF Pr!SwitchGID, Pr!Asked, Pr!Unreported, Pr!Switches
<1>7. CASE Pr!SetEffectiveUID
  <2>1. /\ pc = "user" /\ pc' = IF "user" \in opts THEN "keep" ELSE "caps"
        /\ failed' \in BOOLEAN /\ (~failed' => ~failed)
        /\ UNCHANGED <<permitted, done, pid, pidInFile, rules>>
    BY <1>7 DEF Pr!SetEffectiveUID, Pr!Asked
  <2>2. QED
    BY <2>1
<1>8. CASE Pr!SwitchUID
  BY <1>8 DEF Pr!SwitchUID, Pr!KeepsCaps, Pr!Asked, Pr!Unreported, Pr!Switches
<1>9. CASE Pr!ProcessSetCapabilities
  <2>1. /\ pc = "caps" /\ pc' = "ptrace" /\ done \subseteq done'
        /\ failed' \in BOOLEAN /\ (~failed' => ~failed)
        /\ ~failed' /\ "caps" \in opts => "caps" \in done'
        /\ permitted' => permitted
        /\ UNCHANGED <<opts, security, refused, uid, pid, pidInFile, rules>>
    BY <1>9 DEF Pr!ProcessSetCapabilities, Pr!Asked
  <2>2. ProcessTyped'
    BY <2>1
  <2>3. ~failed' /\ pc' \notin Stops => DoneSoFar'
    BY <2>1
  <2>4. ~failed' /\ pc' \notin Stops => HeldSoFar'
    BY <2>1
  <2>5. QED
    BY <2>1, <2>2, <2>3, <2>4
<1>10. CASE Pr!ProcessResistPtrace
  <2>1. /\ pc = "ptrace" /\ pc' = "jail" /\ done \subseteq done'
        /\ failed' \in BOOLEAN /\ (~failed' => ~failed)
        /\ ~failed' /\ Pr!Asked("ptrace") => "ptrace" \in done'
        /\ UNCHANGED <<opts, security, refused, uid, permitted, pid, pidInFile, rules>>
    BY <1>10 DEF Pr!ProcessResistPtrace
  <2>2. ProcessTyped'
    BY <2>1
  <2>3. ~failed' /\ pc' \notin Stops => DoneSoFar'
    BY <2>1
  <2>4. ~failed' /\ pc' \notin Stops => HeldSoFar'
    BY <2>1
  <2>5. QED
    BY <2>1, <2>2, <2>3, <2>4
<1>11. CASE Pr!Jail
  <2>1. /\ pc = "jail" /\ done \subseteq done'
        /\ "jail" \in opts => pc' = "return"
        /\ "jail" \notin opts => pc' = "nnp"
        /\ failed' \in BOOLEAN /\ (~failed' => ~failed)
        /\ ~failed' /\ "jail" \in opts => "jail" \in done'
        /\ UNCHANGED <<opts, security, refused, uid, permitted, pid, pidInFile, rules>>
    BY <1>11 DEF Pr!Jail, Pr!Asked
  <2>2. ProcessTyped'
    BY <2>1
  <2>3. ~failed' /\ pc' \notin Stops => DoneSoFar'
    BY <2>1
  <2>4. ~failed' /\ pc' \notin Stops => HeldSoFar'
    BY <2>1
  <2>5. QED
    BY <2>1, <2>2, <2>3, <2>4
<1>12. CASE Pr!ProcessNoNewPrivs
  <2>1. /\ pc = "nnp" /\ done \subseteq done'
        /\ rules # << >> => pc' = "seccomp"
        /\ rules = << >> => pc' = "return"
        /\ failed' \in BOOLEAN /\ (~failed' => ~failed)
        /\ ~failed' /\ "nosu" \in opts => "nosu" \in done'
        /\ UNCHANGED <<opts, security, refused, uid, permitted, pid, pidInFile, rules>>
    BY <1>12 DEF Pr!ProcessNoNewPrivs, Pr!NoNewPrivs, Pr!Asked
  <2>2. ProcessTyped'
    BY <2>1
  <2>3. ~failed' /\ pc' \notin Stops => DoneSoFar'
    BY <2>1
  <2>4. ~failed' /\ pc' \notin Stops => HeldSoFar'
    BY <2>1
  <2>5. QED
    BY <2>1, <2>2, <2>3, <2>4
<1>13. CASE Pr!SeccompAddRules
  BY <1>13 DEF Pr!SeccompAddRules
<1>14. CASE Pr!ProcessApplyConfig
  BY <1>14 DEF Pr!ProcessApplyConfig
<1>15. CASE Pr!LockIsFree
  BY <1>15 DEF Pr!LockIsFree, Pr!OptionsAreDone
<1>16. QED
  BY <1>1, <1>2, <1>3, <1>4, <1>5, <1>6, <1>7, <1>8, <1>9, <1>10, <1>11, <1>12, <1>13, <1>14,
     <1>15 DEF Pr!Next, Pr!Library

(* What goes on has done it all.                                           *)
LEMMA ProcessRuns == ProcessInv => Pr!RunsAsAsked
<1> SUFFICES ASSUME ProcessInv, pc = "run" PROVE
        /\ Pr!Wanted \ Pr!Unreported \subseteq done
        /\ security # <<>> /\ "jail" \notin opts => "security" \in done
        /\ Pr!WritePidFile => pidInFile = pid
        /\ "user" \in opts /\ "user" \notin Pr!Unreported =>
                uid = "other" /\ (permitted => "keepcaps" \in opts)
  BY DEF Pr!RunsAsAsked, Pr!Asked
<1> USE DEF ProcessInv, Stops, ToDaemon, ToChroot, ToContainer,
            ToOptions, ToLock, ToGroup, ToKeep, ToCaps, ToPtrace, ToJail, ToNnp, ToSeccomp
<1>1. DoneSoFar /\ HeldSoFar
  OBVIOUS
<1>2. ASSUME NEW o \in Pr!Wanted, o \notin Pr!Unreported PROVE o \in done
  <2>1. CASE o \in Pr!Namespaces \/ (o = "nspath" /\ o \in opts)
    BY <1>1, <1>2, <2>1 DEF DoneSoFar, Pr!Unreported, Pr!May
  <2>2. CASE o = "containerRoot" /\ "container" \in opts
    BY <1>1, <1>2, <2>2 DEF DoneSoFar, Pr!Unreported, Pr!May
  <2>3. CASE o = "ptrace" /\ Pr!Asked("ptrace")
    BY <1>1, <2>3 DEF DoneSoFar
  <2>4. CASE o = "pidfile" /\ o \in opts
    BY <1>1, <1>2, <2>4 DEF DoneSoFar, Pr!Late, Pr!WritePidFile, Pr!Unreported, Pr!May, Pr!Asked
  <2>5. CASE o \in {"dir", "lockfile"} /\ o \in opts
    BY <1>1, <2>5 DEF DoneSoFar, Pr!Late
  <2>6. CASE o = "nosu" /\ o \in opts
    BY <1>1, <1>2, <2>6 DEF DoneSoFar, Pr!Unreported, Pr!Asked
  <2>7. CASE o \in {"daemon", "chroot", "group", "user", "caps", "jail"} /\ o \in opts
    BY <1>1, <1>2, <2>7 DEF DoneSoFar
  <2>9. \/ o \in opts /\ o \notin Pr!Settings
        \/ o \in Pr!Namespaces
        \/ o = "containerRoot" /\ "container" \in opts
        \/ o = "ptrace" /\ Pr!Asked("ptrace")
    BY <1>2 DEF Pr!Wanted, Pr!Asked
  <2>10. CASE o \in opts /\ o \notin Pr!Settings
    <3>1. o \in {"chroot", "daemon", "container", "nspath", "nopid", "dir", "lockfile",
                 "pidfile", "group", "user", "caps", "ptrace", "jail", "nosu"}
      BY <2>10 DEF ProcessTyped, Pr!Options
    <3>2. o \in {"container", "nopid"} => o \in Pr!Namespaces
      BY <2>10 DEF Pr!Namespaces
    <3>3. o = "ptrace" => Pr!Asked("ptrace")
      BY <2>10 DEF Pr!Asked
    <3>4. QED
      BY <2>1, <2>3, <2>4, <2>5, <2>6, <2>7, <2>10, <3>1, <3>2, <3>3
  <2>11. QED
    BY <2>1, <2>2, <2>3, <2>9, <2>10
<1>3. QED
  BY <1>1, <1>2 DEF HeldSoFar

(* Whatever is asked for and whatever the system refuses, a process that   *)
(* goes on to the program is what was asked for.                           *)
THEOREM AskedIsRun == ProgramsSpec => []RunsAsAsked
<1> DEFINE Inv == part = "Process" => ProcessInv
<1>1. ProgramsInit => Inv
  BY ProcessStart DEF ProgramsInit
<1>2. Inv /\ [ProgramsNext]_programsVars => Inv'
  <2> SUFFICES ASSUME Inv, [ProgramsNext]_programsVars, part' = "Process" PROVE ProcessInv'
    OBVIOUS
  <2>1. CASE UNCHANGED programsVars
    <3>1. UNCHANGED processVars /\ ProcessInv
      BY <2>1 DEF programsVars
    <3>2. QED
      BY <3>1 DEF processVars, ProcessInv, ProcessTyped, DoneSoFar, HeldSoFar, Pr!Namespaces,
         Pr!Late, Pr!Unreported, Pr!WritePidFile, Pr!Asked, Pr!May, Pr!Switches,
         Pr!TokenNamespaces
  <2>2. CASE ProcessNext
    BY <2>2, ProcessStep DEF ProcessNext
  <2>3. CASE ProgramsNext /\ ~ProcessNext
    <3>1. FALSE
      BY <2>3 DEF ProgramsNext, AutoRecoverNext, OAuthNext, SpawnNext, ExpectNext,
           SeccompNext, CredsNext
    <3>2. QED
      BY <3>1
  <2>4. QED
    BY <2>1, <2>2, <2>3
<1>3. Inv => RunsAsAsked
  BY ProcessRuns DEF RunsAsAsked
<1>4. QED
  BY <1>1, <1>2, <1>3, PTL DEF ProgramsSpec

-----------------------------------------------------------------------------
(* OAUTH.                                                                  *)

Line == [name : TokenNames, access : Nat, refresh : Nat]

(* The token of a name in some lines: that of its last line.               *)
IsLast(lines, n, i) ==
    /\ i \in DOMAIN lines /\ lines[i].name = n
    /\ \A j \in DOMAIN lines : lines[j].name = n => j <= i
Answers(lines, n, v) ==
    \/ v = 0 /\ \A i \in DOMAIN lines : lines[i].name # n
    \/ \E i \in DOMAIN lines : IsLast(lines, n, i) /\ v = lines[i].access

(* The last token of each name can be read from some lines.                *)
Latest(lines) == \A n \in TokenNames : Oa!Loaded(lines, n).access = saved[n]

OAuthTyped ==
    /\ file \in Seq(Line)
    /\ ctx \in [Clients -> Line]
    /\ next \in [Clients -> {"idle", "save", "clean", "truncate", "write"}]
    /\ items \in [Clients -> Seq(Line)]
    /\ tokens \in Nat
    /\ saved \in [TokenNames -> Nat]

(* Who has the lock has read the file, and there is one: what was saved is *)
(* in the file if nobody has the lock, and in what was read if one has.    *)
OAuthInv ==
    /\ OAuthTyped
    /\ lock = {} \/ \E p \in Clients : lock = {p}
    /\ \A p \in Clients : next[p] \in {"truncate", "write"} <=> lock = {p}
    /\ lock = {} => Latest(file)
    /\ \A p \in Clients : lock = {p} => Latest(items[p])

(* A name that is in the file has a last line.                             *)
LEMMA LastExists ==
    ASSUME NEW lines \in Seq(Line), NEW n, \E i \in DOMAIN lines : lines[i].name = n
    PROVE  \E i \in DOMAIN lines : IsLast(lines, n, i)
<1> DEFINE S == {i \in DOMAIN lines : lines[i].name = n}
<1>1. Len(lines) \in Nat /\ S \subseteq 1 .. Len(lines) /\ S # {}
  BY LenProperties
<1>2. PICK i \in S : \A j \in S : i >= j
  <2>1. S \subseteq 0 .. Len(lines)
    BY <1>1
  <2> HIDE DEF S
  <2>2. \E i \in S : \A j \in S : i >= j
    BY <1>1, <2>1, GreatestElement
  <2>3. QED
    BY <2>2
<1>3. \A j \in DOMAIN lines : lines[j].name = n => j <= i
  BY <1>2
<1>4. QED
  BY <1>2, <1>3 DEF IsLast

(* What is read of a name is the token of its last line.                   *)
LEMMA LoadedAnswers ==
    ASSUME NEW lines \in Seq(Line), NEW n, NEW v
    PROVE  Answers(lines, n, v) <=> Oa!Loaded(lines, n).access = v
<1> DEFINE S == Oa!Of(lines, n)
           last == CHOOSE i \in S : \A j \in S : i >= j
           token == IF S = {} THEN 0 ELSE lines[last].access
<1>1. Oa!Loaded(lines, n).access = token
  BY DEF Oa!Loaded
<1>2. S = {i \in DOMAIN lines : lines[i].name = n} /\ DOMAIN lines = 1 .. Len(lines)
      /\ Len(lines) \in Nat
  BY LenProperties DEF Oa!Of
<1>3. CASE \A i \in DOMAIN lines : lines[i].name # n
  <2>1. S = {}
    BY <1>2, <1>3
  <2>2. QED
    BY <1>1, <1>3, <2>1 DEF Answers, IsLast
<1>4. CASE \E i \in DOMAIN lines : lines[i].name = n
  <2>1. PICK i \in DOMAIN lines : IsLast(lines, n, i)
    BY <1>4, LastExists
  <2>2. i \in S /\ \A j \in S : i >= j
    BY <1>2, <2>1 DEF IsLast
  <2> HIDE DEF S
  <2>3. last \in S /\ \A j \in S : last >= j
    BY <2>2
  <2>4. last = i
    <3>1. last \in Int /\ i \in Int /\ last >= i /\ i >= last
      BY <1>2, <2>2, <2>3
    <3>2. QED
      BY <3>1
  <2>5. token = lines[i].access
    BY <2>2, <2>4
  <2>6. \A j \in DOMAIN lines : IsLast(lines, n, j) => j = i
    <3>1. \A j \in DOMAIN lines : j \in Int
      BY <1>2
    <3>2. QED
      BY <2>1, <3>1 DEF IsLast
  <2>7. QED
    BY <1>1, <1>4, <2>1, <2>5, <2>6 DEF Answers
<1>5. QED
  BY <1>3, <1>4

(* A line that is added answers for its name, and no other.                *)
LEMMA AppendAnswers ==
    ASSUME NEW lines \in Seq(Line), NEW c \in Line, NEW n, NEW v, Answers(lines, n, v)
    PROVE  /\ Append(lines, c) \in Seq(Line)
           /\ Answers(Append(lines, c), n, IF n = c.name THEN c.access ELSE v)
<1> DEFINE k == Len(lines)
           long == Append(lines, c)
<1>1. /\ k \in Nat /\ long \in Seq(Line) /\ Len(long) = k + 1
      /\ DOMAIN lines = 1 .. k /\ DOMAIN long = 1 .. k + 1
      /\ \A i \in 1 .. k : long[i] = lines[i]
      /\ long[k + 1] = c
  BY LenProperties, AppendProperties
<1> HIDE DEF long, k
<1>2. CASE n = c.name
  <2>1. IsLast(long, n, k + 1)
    BY <1>1, <1>2 DEF IsLast
  <2>2. QED
    BY <1>1, <1>2, <2>1 DEF Answers, long
<1>3. CASE n # c.name
  <2>1. CASE \A i \in DOMAIN lines : lines[i].name # n
    <3>1. \A i \in DOMAIN long : long[i].name # n
      BY <1>1, <1>3, <2>1
    <3>2. v = 0
      BY <2>1 DEF Answers, IsLast
    <3>3. QED
      BY <1>1, <1>3, <3>1, <3>2 DEF Answers, long
  <2>2. CASE \E i \in DOMAIN lines : lines[i].name = n
    <3>1. PICK i \in DOMAIN lines : IsLast(lines, n, i) /\ v = lines[i].access
      BY <2>2 DEF Answers
    <3>2. IsLast(long, n, i) /\ v = long[i].access /\ i \in DOMAIN long
      BY <1>1, <1>3, <3>1 DEF IsLast
    <3>3. QED
      BY <1>1, <1>3, <3>2 DEF Answers, long
  <2>3. QED
    BY <2>1, <2>2
<1>4. QED
  BY <1>2, <1>3

(* The list of SetVar has one line of each name.                           *)
OnePerName(lines) ==
    \A i, j \in DOMAIN lines : lines[i].name = lines[j].name => i = j

(* A line that is read answers for its name, and no other.                 *)
LEMMA SetVarAnswers ==
    ASSUME NEW lines \in Seq(Line), NEW c \in Line, OnePerName(lines)
    PROVE  /\ Oa!SetVar(lines, c) \in Seq(Line)
           /\ OnePerName(Oa!SetVar(lines, c))
           /\ \A n, v : Answers(lines, n, v) =>
                 Answers(Oa!SetVar(lines, c), n, IF n = c.name THEN c.access ELSE v)
<1> DEFINE S == Oa!Of(lines, c.name)
<1>0. S = {i \in DOMAIN lines : lines[i].name = c.name} /\ DOMAIN lines = 1 .. Len(lines)
      /\ Len(lines) \in Nat
  BY LenProperties DEF Oa!Of
<1>1. CASE S = {}
  <2>1. Oa!SetVar(lines, c) = Append(lines, c)
    BY <1>1 DEF Oa!SetVar
  <2>2. OnePerName(Append(lines, c))
    <3>1. /\ DOMAIN Append(lines, c) = 1 .. Len(lines) + 1
          /\ \A i \in 1 .. Len(lines) : Append(lines, c)[i] = lines[i]
          /\ Append(lines, c)[Len(lines) + 1] = c
      BY LenProperties, AppendProperties
    <3>2. \A i \in 1 .. Len(lines) : lines[i].name # c.name
      BY <1>0, <1>1
    <3>3. \A i \in 1 .. Len(lines) + 1 : i \in 1 .. Len(lines) \/ i = Len(lines) + 1
      BY <1>0
    <3>4. QED
      BY <1>0, <3>1, <3>2, <3>3 DEF OnePerName
  <2>3. QED
    BY <2>1, <2>2, AppendAnswers, AppendProperties
<1>2. CASE S # {}
  <2> DEFINE at == CHOOSE i \in S : \A j \in S : i <= j
             new == [lines EXCEPT ![at] = c]
  <2>1. S \subseteq Nat
    BY <1>0
  <2>2. at \in S
    <3> HIDE DEF S
    <3>1. \E i \in S : \A j \in S : i <= j
      BY <1>2, <2>1, LeastElement
    <3>2. QED
      BY <3>1
  <2>3. Oa!SetVar(lines, c) = new
    BY <1>2 DEF Oa!SetVar
  <2> HIDE DEF at
  <2>4. at \in 1 .. Len(lines) /\ lines[at].name = c.name
    BY <1>0, <2>2
  <2>5. /\ new \in Seq(Line) /\ DOMAIN new = DOMAIN lines
        /\ \A j \in DOMAIN lines : new[j] = IF j = at THEN c ELSE lines[j]
    BY <1>0, <2>4, ExceptSeq
  <2> HIDE DEF new
  <2>6. \A j \in DOMAIN lines : new[j].name = lines[j].name
    BY <2>4, <2>5
  <2>7. OnePerName(new)
    BY <2>5, <2>6 DEF OnePerName
  <2>8. ASSUME NEW n, NEW v, Answers(lines, n, v)
        PROVE  Answers(new, n, IF n = c.name THEN c.access ELSE v)
    <3>1. \A i : IsLast(lines, n, i) <=> IsLast(new, n, i)
      BY <2>5, <2>6 DEF IsLast
    <3>2. CASE n = c.name
      <4>1. \A j \in DOMAIN lines : lines[j].name = n => j = at
        BY <1>0, <2>4, <3>2 DEF OnePerName
      <4>2. IsLast(new, n, at)
        BY <1>0, <2>4, <2>5, <2>6, <3>2, <4>1 DEF IsLast
      <4>3. new[at].access = c.access /\ at \in DOMAIN new
        BY <1>0, <2>4, <2>5
      <4>4. QED
        BY <3>2, <4>2, <4>3 DEF Answers
    <3>3. CASE n # c.name
      <4>1. \A i \in DOMAIN lines : IsLast(lines, n, i) => new[i] = lines[i]
        BY <2>4, <2>5, <3>3 DEF IsLast
      <4>2. QED
        BY <2>5, <2>6, <2>8, <3>1, <3>3, <4>1 DEF Answers
    <3>4. QED
      BY <3>2, <3>3
  <2>9. QED
    BY <2>3, <2>5, <2>7, <2>8
<1>3. QED
  BY <1>1, <1>2

(* Writing the file anew keeps the token of each name.                     *)
LEMMA SetVarsAnswers ==
    ASSUME NEW lines \in Seq(Line)
    PROVE  /\ Oa!SetVars(lines) \in Seq(Line)
           /\ \A n, v : Answers(lines, n, v) => Answers(Oa!SetVars(lines), n, v)
<1> DEFINE N == Len(lines)
           Q == {q \in Seq(Line) : OnePerName(q)}
           base == << >>
           step == [x \in (1 .. N) \X Q |-> Oa!SetVar(x[2], lines[x[1]])]
           F(g) == g = [k \in 0 .. N |-> IF k = 0 THEN base ELSE Oa!SetVar(g[k - 1], lines[k])]
           e == CHOOSE g : F(g)
<1>1. N \in Nat /\ DOMAIN lines = 1 .. N /\ \A i \in 1 .. N : lines[i] \in Line
  BY LenProperties, ElementOfSeq
<1>2. Oa!SetVars(lines) = e[N]
  BY DEF Oa!SetVars
<1> HIDE DEF N
<1>3. base \in Q
  BY DEF OnePerName
<1>4. \A i \in 1 .. N, q \in Q : Oa!SetVar(q, lines[i]) \in Q
  BY <1>1, SetVarAnswers
<1> HIDE DEF Q, base
<1>5. /\ step \in [(1 .. N) \X Q -> Q]
      /\ \A i \in 1 .. N, q \in Q : step[<<i, q>>] = Oa!SetVar(q, lines[i])
  BY <1>4
<1> HIDE DEF step
<1>6. PICK f \in [0 .. N -> Q] : Stepwise(f, N, base, step)
  BY <1>1, <1>3, <1>5, StepsExist
<1>7. \A k \in 1 .. N : f[k - 1] \in Q /\ f[k] = Oa!SetVar(f[k - 1], lines[k])
  <2>1. \A k \in 1 .. N : f[k - 1] \in Q
    BY <1>1
  <2>2. QED
    BY <1>5, <1>6, <2>1 DEF Stepwise
<1>8. F(f)
  <2>1. \A k \in 0 .. N : k = 0 \/ k \in 1 .. N
    BY <1>1
  <2>2. QED
    BY <1>6, <1>7, <2>1 DEF Stepwise
<1>9. F(e)
  <2> HIDE DEF F
  <2>1. QED
    BY <1>8
<1> DEFINE Cut(k) == SubSeq(lines, 1, k)
           StillAnswers(k) == /\ e[k] \in Q
                      /\ \A n, v : Answers(Cut(k), n, v) => Answers(e[k], n, v)
           T == {k \in Nat : k <= N => StillAnswers(k)}
<1>10. e[0] = base /\ \A k \in 1 .. N : e[k] = Oa!SetVar(e[k - 1], lines[k])
  <2> HIDE DEF e
  <2>1. \A k \in 0 .. N : e[k] = IF k = 0 THEN base ELSE Oa!SetVar(e[k - 1], lines[k])
    BY <1>9
  <2>2. 0 \in 0 .. N /\ \A k \in 1 .. N : k \in 0 .. N /\ k # 0
    BY <1>1
  <2>3. QED
    BY <2>1, <2>2
<1> HIDE DEF e, F
<1>11. 0 \in T
  <2>1. Cut(0) = << >>
    BY SubSeqEmpty
  <2>2. e[0] = << >>
    BY <1>10 DEF base
  <2>3. QED
    BY <1>3, <1>10, <2>1, <2>2
<1>12. ASSUME NEW k \in Nat, k \in T PROVE k + 1 \in T
  <2> SUFFICES ASSUME k + 1 <= N PROVE StillAnswers(k + 1)
    OBVIOUS
  <2>1. StillAnswers(k) /\ k + 1 \in 1 .. N /\ (k + 1) - 1 = k
    BY <1>1, <1>12
  <2>2. e[k + 1] = Oa!SetVar(e[k], lines[k + 1]) /\ lines[k + 1] \in Line
    BY <1>1, <1>10, <2>1
  <2>3. e[k] \in Seq(Line) /\ OnePerName(e[k])
    BY <2>1 DEF Q
  <2>4. /\ e[k + 1] \in Q
        /\ \A n, v : Answers(e[k], n, v) =>
              Answers(e[k + 1], n, IF n = lines[k + 1].name THEN lines[k + 1].access ELSE v)
    BY <2>2, <2>3, SetVarAnswers DEF Q
  <2>5. Cut(k) \in Seq(Line) /\ Cut(k + 1) = Append(Cut(k), lines[k + 1])
    <3>1. k + 1 \in 1 .. Len(lines) /\ 1 \in 1 .. Len(lines) /\ k + 1 \in 1 .. k + 1
          /\ 1 \in 1 .. k + 1
      BY <1>1, <2>1 DEF N
    <3>2. Cut(k + 1) = SubSeq(lines, 1, (k + 1) - 1) \o <<lines[k + 1]>>
      <4>1. k + 1 \in 1 .. Len(lines)
        BY <3>1
      <4>2. QED
        BY <3>1, SubSeqRecursiveSecond
    <3>3. \A i \in 1 .. k : lines[i] \in Line
      BY <1>1, <2>1
    <3>4. Cut(k) \in Seq(Line)
      BY <3>3, SubSeqProperties
    <3>5. Cut(k) \o <<lines[k + 1]>> = Append(Cut(k), lines[k + 1])
      BY <2>2, <3>4, AppendIsConcat
    <3>6. QED
      BY <2>1, <3>2, <3>4, <3>5
  <2>6. ASSUME NEW n, NEW v, Answers(Cut(k + 1), n, v) PROVE Answers(e[k + 1], n, v)
    <3>1. PICK u : Answers(Cut(k), n, u)
      <4>1. Answers(Cut(k), n, Oa!Loaded(Cut(k), n).access)
        BY <2>5, LoadedAnswers
      <4>2. QED
        BY <4>1
    <3> DEFINE w == IF n = lines[k + 1].name THEN lines[k + 1].access ELSE u
    <3>2. Answers(Cut(k + 1), n, w) /\ Cut(k + 1) \in Seq(Line)
      BY <2>2, <2>5, <3>1, AppendAnswers
    <3>3. v = w
      <4> HIDE DEF w
      <4>1. Oa!Loaded(Cut(k + 1), n).access = v
        BY <2>6, <3>2, LoadedAnswers
      <4>2. Oa!Loaded(Cut(k + 1), n).access = w
        BY <3>2, LoadedAnswers
      <4>3. QED
        BY <4>1, <4>2
    <3>4. Answers(e[k], n, u)
      BY <2>1, <3>1
    <3>5. QED
      BY <2>4, <3>3, <3>4
  <2>7. QED
    BY <2>4, <2>6
<1>13. N \in T
  <2> HIDE DEF T
  <2>1. QED
    BY <1>1, <1>11, <1>12, SetInduction
<1>14. StillAnswers(N)
  BY <1>1, <1>13
<1>15. Cut(N) = lines
  BY SubSeqFull DEF N
<1>16. QED
  BY <1>2, <1>14, <1>15 DEF Q

(* What is loaded is a token.                                              *)
LEMMA LoadedTyped ==
    ASSUME NEW lines \in Seq(Line), NEW n \in TokenNames
    PROVE  Oa!Loaded(lines, n) \in Line
<1> DEFINE with == {i \in Oa!Of(lines, n) : lines[i].refresh # 0}
           last(S) == CHOOSE i \in S : \A j \in S : i >= j
<1>1. Len(lines) \in Nat /\ Oa!Of(lines, n) \subseteq 1 .. Len(lines)
      /\ \A i \in 1 .. Len(lines) : lines[i].access \in Nat /\ lines[i].refresh \in Nat
  <2>1. Len(lines) \in Nat /\ DOMAIN lines = 1 .. Len(lines)
    BY LenProperties
  <2>2. \A i \in 1 .. Len(lines) : lines[i] \in Line
    BY ElementOfSeq
  <2>3. QED
    BY <2>1, <2>2 DEF Oa!Of, Line
<1>2. ASSUME NEW S, S \subseteq 1 .. Len(lines), S # {} PROVE last(S) \in 1 .. Len(lines)
  <2>0. S \subseteq 0 .. Len(lines)
    BY <1>1, <1>2
  <2>1. \E i \in S : \A j \in S : i >= j
    BY <1>1, <1>2, <2>0, GreatestElement
  <2>2. last(S) \in S
    BY <2>1
  <2>3. QED
    BY <1>2, <2>2
<1>3. with \subseteq 1 .. Len(lines)
  BY <1>1
<1> DEFINE access_ == IF Oa!Of(lines, n) = {} THEN 0 ELSE lines[last(Oa!Of(lines, n))].access
           refresh_ == IF with = {} THEN 0 ELSE lines[last(with)].refresh
<1>4. access_ \in Nat /\ refresh_ \in Nat
  <2> HIDE DEF with, last
  <2>1. QED
    BY <1>1, <1>2, <1>3
<1>5. Oa!Loaded(lines, n) = [name |-> n, access |-> access_, refresh |-> refresh_]
  BY DEF Oa!Loaded
<1> HIDE DEF access_, refresh_
<1>6. QED
  BY <1>4, <1>5 DEF Line

(* Every step keeps it.                                                    *)
LEMMA OAuthStart ==
    ASSUME Oa!Init PROVE OAuthInv
<1>1. OAuthTyped
  <2>1. \A c \in {[name |-> n, access |-> 0, refresh |-> 0] : n \in TokenNames} : c \in Line
    BY DEF Line
  <2>2. QED
    BY <2>1 DEF Oa!Init, OAuthTyped
<1>2. \A n \in TokenNames : Answers(file, n, saved[n])
  <2>1. file = << >> /\ DOMAIN file = {}
    BY DEF Oa!Init
  <2>2. QED
    BY <2>1 DEF Oa!Init, Answers
<1>3. Latest(file)
  BY <1>1, <1>2, LoadedAnswers DEF Latest, OAuthTyped
<1>4. QED
  BY <1>1, <1>3 DEF Oa!Init, OAuthInv

(* Each step of a program keeps the last tokens.                           *)
LEMMA OAuthStep ==
    ASSUME OAuthInv, Oa!Next PROVE OAuthInv'
<1> PICK p \in Clients : \/ Oa!OAuthGrant(p) \/ Oa!OAuthSave(p) \/ Oa!OAuthLoad(p)
                         \/ Oa!CleanupReads(p) \/ Oa!CleanupTruncates(p) \/ Oa!CleanupWrites(p)
  BY DEF Oa!Next
<1> USE DEF OAuthInv
<1>0. /\ ctx[p] \in Line /\ ctx[p].name \in TokenNames /\ ctx[p].access \in Nat
      /\ \A q \in Clients : items[q] \in Seq(Line)
  BY DEF OAuthTyped, Line
<1>1. CASE Oa!OAuthGrant(p)
  <2>1. /\ ctx' \in [Clients -> Line] /\ tokens' \in Nat
        /\ next' = [next EXCEPT ![p] = "save"] /\ next[p] = "idle"
        /\ UNCHANGED <<file, lock, items, saved>>
    <3>1. CASE UNCHANGED <<ctx, tokens>>
      BY <1>1, <3>1 DEF Oa!OAuthGrant, OAuthTyped
    <3>2. CASE ~UNCHANGED <<ctx, tokens>>
      <4>1. tokens' = tokens + 1 /\ tokens \in Nat
        BY <1>1, <3>2 DEF Oa!OAuthGrant, OAuthTyped
      <4>2. PICK refresh \in {ctx[p].refresh, tokens'} :
               ctx' = [ctx EXCEPT ![p].access = tokens', ![p].refresh = refresh]
        BY <1>1, <3>2 DEF Oa!OAuthGrant
      <4>3. tokens' \in Nat /\ refresh \in Nat
        BY <1>0, <4>1 DEF Line
      <4>4. [ctx[p] EXCEPT !.access = tokens', !.refresh = refresh] \in Line
        BY <1>0, <4>3 DEF Line
      <4>5. ctx' = [ctx EXCEPT ![p] = [ctx[p] EXCEPT !.access = tokens', !.refresh = refresh]]
        BY <4>2 DEF OAuthTyped
      <4>6. ctx' \in [Clients -> Line]
        <5> DEFINE new == [ctx[p] EXCEPT !.access = tokens', !.refresh = refresh]
        <5>1. new \in Line /\ ctx' = [ctx EXCEPT ![p] = new] /\ ctx \in [Clients -> Line]
          BY <4>4, <4>5 DEF OAuthTyped
        <5> HIDE DEF new
        <5>2. QED
          BY <5>1
      <4>7. QED
        BY <1>1, <4>3, <4>6 DEF Oa!OAuthGrant
    <3>3. QED
      BY <3>1, <3>2
  <2>2. OAuthTyped'
    BY <2>1 DEF OAuthTyped
  <2>3. \A q \in Clients : next'[q] \in {"truncate", "write"} <=> lock' = {q}
    BY <2>1 DEF OAuthTyped
  <2>4. QED
    BY <2>1, <2>2, <2>3 DEF Latest
<1>2. CASE Oa!OAuthSave(p)
  <2>1. /\ next[p] = "save" /\ lock = {} /\ file' = Append(file, ctx[p])
        /\ saved' = [saved EXCEPT ![ctx[p].name] = ctx[p].access]
        /\ next' = [next EXCEPT ![p] = "idle"]
        /\ UNCHANGED <<lock, ctx, items, tokens>>
    BY <1>2 DEF Oa!OAuthSave
  <2>2. OAuthTyped'
    BY <1>0, <2>1, AppendProperties DEF OAuthTyped
  <2>3. \A q \in Clients : next'[q] \in {"truncate", "write"} <=> lock' = {q}
    BY <2>1 DEF OAuthTyped
  <2>4. ASSUME NEW n \in TokenNames PROVE Oa!Loaded(file', n).access = saved'[n]
    <3>1. Answers(file, n, saved[n]) /\ file \in Seq(Line)
      BY <2>1, LoadedAnswers DEF Latest, OAuthTyped
    <3>2. saved'[n] = IF n = ctx[p].name THEN ctx[p].access ELSE saved[n]
      BY <2>1 DEF OAuthTyped
    <3>3. Answers(file', n, saved'[n]) /\ file' \in Seq(Line)
      BY <1>0, <2>1, <3>1, <3>2, AppendAnswers
    <3>4. QED
      BY <3>3, LoadedAnswers
  <2>5. \A q \in Clients : lock' # {q}
    BY <2>1
  <2>6. QED
    BY <2>1, <2>2, <2>3, <2>4, <2>5 DEF Latest
<1>3. CASE Oa!OAuthLoad(p)
  <2>1. /\ next[p] = "idle" /\ lock = {}
        /\ ctx' = [ctx EXCEPT ![p] = Oa!Loaded(file, ctx[p].name)]
        /\ next' \in {next, [next EXCEPT ![p] = "clean"]}
        /\ items' \in {[items EXCEPT ![p] = file], [items EXCEPT ![p] = << >>]}
        /\ UNCHANGED <<file, lock, tokens, saved>>
    BY <1>3 DEF Oa!OAuthLoad, OAuthTyped
  <2>2. Oa!Loaded(file, ctx[p].name) \in Line
    BY <1>0, LoadedTyped DEF OAuthTyped
  <2>3. OAuthTyped'
    <3> DEFINE new == Oa!Loaded(file, ctx[p].name)
    <3>1. new \in Line /\ ctx' = [ctx EXCEPT ![p] = new] /\ ctx \in [Clients -> Line]
      BY <2>1, <2>2 DEF OAuthTyped
    <3> HIDE DEF new
    <3>2. ctx' \in [Clients -> Line]
      BY <3>1
    <3>3. items' \in [Clients -> Seq(Line)] /\ UNCHANGED <<file, tokens, saved>>
      <4>1. /\ items \in [Clients -> Seq(Line)] /\ file \in Seq(Line) /\ << >> \in Seq(Line)
        BY DEF OAuthTyped
      <4>2. CASE items' = [items EXCEPT ![p] = file]
        BY <2>1, <4>1, <4>2
      <4>3. CASE items' = [items EXCEPT ![p] = << >>]
        BY <2>1, <4>1, <4>3
      <4>4. QED
        BY <2>1, <4>2, <4>3
    <3>4. next' \in [Clients -> {"idle", "save", "clean", "truncate", "write"}]
      BY <2>1 DEF OAuthTyped
    <3>5. QED
      BY <3>2, <3>3, <3>4 DEF OAuthTyped
  <2>4. \A q \in Clients : next'[q] \in {"truncate", "write"} <=> lock' = {q}
    BY <2>1 DEF OAuthTyped
  <2>5. \A q \in Clients : lock' # {q}
    BY <2>1
  <2>6. QED
    BY <2>1, <2>3, <2>4, <2>5 DEF Latest
<1>4. CASE Oa!CleanupReads(p)
  <2>1. /\ next[p] = "clean" /\ lock = {} /\ lock' = {p}
        /\ items' = [items EXCEPT ![p] = file]
        /\ next' = [next EXCEPT ![p] = "truncate"]
        /\ UNCHANGED <<file, ctx, tokens, saved>>
    BY <1>4 DEF Oa!CleanupReads, Oa!Reads
  <2>2. OAuthTyped'
    BY <2>1 DEF OAuthTyped
  <2>3. \A q \in Clients : next'[q] \in {"truncate", "write"} <=> lock' = {q}
    BY <2>1 DEF OAuthTyped
  <2>4. items'[p] = file /\ Latest(file)' 
    BY <2>1 DEF OAuthTyped, Latest
  <2>5. \A q \in Clients : lock' = {q} => q = p
    BY <2>1
  <2>6. lock' # {}
    BY <2>1
  <2>7. QED
    BY <2>1, <2>2, <2>3, <2>4, <2>5, <2>6 DEF Latest
<1>5. CASE Oa!CleanupTruncates(p)
  <2>1. /\ next[p] = "truncate" /\ file' = << >>
        /\ next' = [next EXCEPT ![p] = "write"]
        /\ UNCHANGED <<lock, ctx, items, tokens, saved>>
    BY <1>5 DEF Oa!CleanupTruncates
  <2>2. OAuthTyped'
    BY <2>1 DEF OAuthTyped
  <2>3. \A q \in Clients : next'[q] \in {"truncate", "write"} <=> lock' = {q}
    BY <2>1 DEF OAuthTyped
  <2>4. lock' # {}
    BY <2>1
  <2>5. QED
    BY <2>1, <2>2, <2>3, <2>4 DEF Latest
<1>6. CASE Oa!CleanupWrites(p)
  <2>1. /\ next[p] = "write" /\ file' = Oa!SetVars(items[p]) /\ lock' = {}
        /\ items' = [items EXCEPT ![p] = << >>]
        /\ next' = [next EXCEPT ![p] = "idle"]
        /\ UNCHANGED <<ctx, tokens, saved>>
    BY <1>6 DEF Oa!CleanupWrites
  <2>2. lock = {p} /\ Latest(items[p])
    BY <2>1
  <2>3. file' \in Seq(Line)
    BY <1>0, <2>1, SetVarsAnswers
  <2>4. OAuthTyped'
    BY <2>1, <2>3 DEF OAuthTyped
  <2>5. \A q \in Clients : next'[q] \in {"truncate", "write"} <=> lock' = {q}
    <3>1. \A q \in Clients : next[q] \in {"truncate", "write"} => q = p
      BY <2>2
    <3>2. QED
      BY <2>1, <3>1 DEF OAuthTyped
  <2>6. ASSUME NEW n \in TokenNames PROVE Oa!Loaded(file', n).access = saved'[n]
    <3>1. Answers(items[p], n, saved[n])
      BY <1>0, <2>2, LoadedAnswers DEF Latest
    <3>2. Answers(file', n, saved[n])
      BY <1>0, <2>1, <3>1, SetVarsAnswers
    <3>3. QED
      BY <2>1, <2>3, <3>2, LoadedAnswers
  <2>7. \A q \in Clients : lock' # {q}
    BY <2>1
  <2>8. QED
    BY <2>1, <2>4, <2>5, <2>6, <2>7 DEF Latest
<1>7. QED
  BY <1>1, <1>2, <1>3, <1>4, <1>5, <1>6

(* However many programs save and clean up, in any order, the last token   *)
(* of each name is found in the file by whoever may read it.               *)
THEOREM LatestInFile == ProgramsSpec => []LatestIsInFile
<1> DEFINE Inv == part = "OAuth" => OAuthInv
<1>1. ProgramsInit => Inv
  BY OAuthStart DEF ProgramsInit
<1>2. Inv /\ [ProgramsNext]_programsVars => Inv'
  <2> SUFFICES ASSUME Inv, [ProgramsNext]_programsVars, part' = "OAuth" PROVE OAuthInv'
    OBVIOUS
  <2>1. CASE UNCHANGED programsVars
    <3>1. UNCHANGED oauthVars /\ OAuthInv
      BY <2>1 DEF programsVars
    <3>2. QED
      BY <3>1 DEF oauthVars, OAuthInv, OAuthTyped, Latest
  <2>2. CASE OAuthNext
    BY <2>2, OAuthStep DEF OAuthNext
  <2>3. CASE ProgramsNext /\ ~OAuthNext
    <3>1. FALSE
      BY <2>3 DEF ProgramsNext, AutoRecoverNext, ProcessNext, SpawnNext, ExpectNext,
           SeccompNext, CredsNext
    <3>2. QED
      BY <3>1
  <2>4. QED
    BY <2>1, <2>2, <2>3
<1>3. Inv => LatestIsInFile
  BY DEF LatestIsInFile, Oa!LatestIsInFile, OAuthInv, Latest
<1>4. QED
  BY <1>1, <1>2, <1>3, PTL DEF ProgramsSpec

-----------------------------------------------------------------------------
(* EXPECT.                                                                 *)

(* Numbers in their order are all of them, and no others.                  *)
LEMMA AscendingIsAll ==
    ASSUME NEW n \in Nat, NEW S, S \subseteq 1 .. n
    PROVE  /\ Ex!Ascending(S) \in Seq(S)
           /\ \A i \in S : \E k \in DOMAIN Ex!Ascending(S) : Ex!Ascending(S)[k] = i
<1> DEFINE N == Ex!Cardinality(S)
           Under(i) == {j \in S : j < i}
           Rank(i) == Ex!Cardinality(Under(i))
           rank == [i \in S |-> Rank(i)]
           seq == [k \in 1 .. N |-> CHOOSE i \in S : Rank(i) = k - 1]
<1>1. Ex!Ascending(S) = seq
  BY DEF Ex!Ascending
<1>0. ASSUME NEW T PROVE Ex!Cardinality(T) = Cardinality(T)
  BY DEF Ex!Cardinality, Cardinality
<1>2. IsFiniteSet(S) /\ N \in Nat
  <2>1. IsFiniteSet(1 .. n)
    BY FS_Interval
  <2>2. IsFiniteSet(S)
    BY <2>1, FS_Subset
  <2>3. QED
    BY <1>0, <2>2, FS_CardinalityType
<1>3. ASSUME NEW i \in S PROVE Rank(i) \in 0 .. N - 1
  <2>1. Under(i) \in SUBSET S /\ Under(i) # S
    BY DEF Under
  <2>2. IsFiniteSet(Under(i)) /\ Rank(i) <= N /\ Rank(i) # N
    BY <1>0, <1>2, <2>1, FS_Subset
  <2>3. Rank(i) \in Nat
    BY <1>0, <2>2, FS_CardinalityType
  <2>4. QED
    BY <1>2, <2>2, <2>3
<1>4. ASSUME NEW i \in S, NEW j \in S, i < j PROVE Rank(i) # Rank(j)
  <2>1. Under(j) \in SUBSET S
    OBVIOUS
  <2>2. IsFiniteSet(Under(j))
    BY <1>2, <2>1, FS_Subset
  <2>3. Under(i) \in SUBSET Under(j) /\ i \in Under(j) /\ i \notin Under(i)
    <3>1. i \in Nat /\ j \in Nat /\ i < j /\ \A m \in S : m \in Nat
      BY <1>4
    <3>2. \A m \in Under(i) : m \in Under(j)
      BY <3>1
    <3>3. i \in Under(j)
      BY <3>1
    <3>4. i \notin Under(i)
      BY <3>1
    <3> HIDE DEF Under
    <3>5. QED
      BY <3>2, <3>3, <3>4
  <2>4. Under(i) # Under(j)
    BY <2>3
  <2>5. QED
    BY <1>0, <2>2, <2>3, <2>4, FS_Subset
<1>5. \A i, j \in S : Rank(i) = Rank(j) => i = j
  BY <1>4
<1>6. rank \in Injection(S, 0 .. N - 1)
  <2> HIDE DEF Rank
  <2>1. QED
    BY <1>3, <1>5 DEF Injection, IsInjective
<1>7. rank \in Surjection(S, 0 .. N - 1)
  <2>1. IsFiniteSet(0 .. N - 1) /\ Cardinality(0 .. N - 1) = N
    <3>1. 0 \in Int /\ N - 1 \in Int /\ (N - 1) - 0 + 1 = N /\ (0 > N - 1 => N = 0)
      BY <1>2
    <3>2. QED
      BY <1>0, <3>1, FS_Interval
  <2> HIDE DEF rank
  <2>2. QED
    BY <1>0, <1>2, <1>6, <2>1, FS_Injection
<1>8. \A k \in 1 .. N : \E i \in S : Rank(i) = k - 1
  <2> HIDE DEF Rank
  <2>1. \A m \in 0 .. N - 1 : \E i \in S : rank[i] = m
    BY <1>7 DEF Surjection
  <2>2. \A k \in 1 .. N : k - 1 \in 0 .. N - 1
    BY <1>2
  <2>3. QED
    BY <2>1, <2>2
<1> HIDE DEF Rank
<1>9. \A k \in 1 .. N : seq[k] \in S /\ Rank(seq[k]) = k - 1
  BY <1>8
<1>10. seq \in Seq(S)
  <2>1. seq \in [1 .. N -> S]
    BY <1>9
  <2> HIDE DEF seq, N
  <2>2. QED
    BY <1>2, <2>1
<1>11. ASSUME NEW i \in S PROVE \E k \in DOMAIN seq : seq[k] = i
  <2>1. Rank(i) \in 0 .. N - 1
    BY <1>3
  <2>2. Rank(i) + 1 \in 1 .. N /\ (Rank(i) + 1) - 1 = Rank(i)
    BY <1>2, <2>1
  <2>3. Rank(seq[Rank(i) + 1]) = Rank(i) /\ seq[Rank(i) + 1] \in S
    BY <1>9, <2>2
  <2>4. seq[Rank(i) + 1] = i
    BY <1>5, <2>3
  <2>5. DOMAIN seq = 1 .. N
    OBVIOUS
  <2>6. QED
    BY <2>2, <2>4, <2>5
<1>12. QED
  <2> HIDE DEF seq
  <2>1. QED
    BY <1>1, <1>10, <1>11

-----------------------------------------------------------------------------
ExpectTyped ==
    /\ dialogs \in Seq(Ex!Dialog)
    /\ match \in [DOMAIN dialogs -> Nat]
    /\ doneAt \in [DOMAIN dialogs -> Nat]
    /\ input \in Seq(Characters)
    /\ replies \in Seq(DOMAIN dialogs)
    /\ result \in {"reads", "true", "false"}

(* The required ones before a dialog, and where they were seen.            *)
Bounds(ds, at, i) == {at[j] : j \in {j \in 1 .. i - 1 : ~ds[j].optional}}
Due(ds, at, i) == \A j \in 1 .. i - 1 : ~ds[j].optional => at[j] > 0

(* Of each dialog: where it was seen it stands, and while it is looked for *)
(* what is matched of it is at the end of the input.                       *)
ItemInv(i) ==
    /\ doneAt[i] <= Len(input) /\ match[i] < Len(dialogs[i].expect)
    /\ doneAt[i] > 0 =>
          /\ Due(dialogs, doneAt, i)
          /\ Stands(Bounds(dialogs, doneAt, i), input, dialogs[i].expect, doneAt[i])
          /\ \E k \in DOMAIN replies : replies[k] = i
    /\ result = "reads" /\ doneAt[i] = 0 =>
          IF Due(dialogs, doneAt, i)
          THEN Follows(Bounds(dialogs, doneAt, i), input, dialogs[i].expect, match[i])
          ELSE match[i] = 0

ExpectInv ==
    /\ ExpectTyped
    /\ \A i \in DOMAIN dialogs : ItemInv(i)
    /\ Ex!TrueMeansDone

(* The text of a dialog, and what it is to do.                             *)
LEMMA TextTyped ==
    ASSUME NEW ds \in Seq(Ex!Dialog), NEW i \in DOMAIN ds
    PROVE  /\ ds[i].expect \in Seq(Characters) /\ ds[i].expect # << >>
           /\ Len(ds[i].expect) \in Nat \ {0}
           /\ ds[i].optional \in BOOLEAN /\ i \in Nat
<1>1. ds[i] \in Ex!Dialog /\ i \in Nat
  <2> HIDE DEF Ex!Dialog
  <2>1. QED
    BY ElementOfSeq, LenProperties
<1>2. ds[i].expect \in Seq(Characters) /\ ds[i].expect # << >> /\ ds[i].optional \in BOOLEAN
  BY <1>1 DEF Ex!Dialog
<1>3. QED
  BY <1>1, <1>2, EmptySeq, LenProperties

(* Where the dialogs before one were seen.                                 *)
LEMMA BoundsTyped ==
    ASSUME NEW ds \in Seq(Ex!Dialog), NEW at \in [DOMAIN ds -> Nat], NEW i \in DOMAIN ds
    PROVE  /\ Bounds(ds, at, i) \in SUBSET Nat /\ 1 .. i - 1 \subseteq DOMAIN ds
           /\ DOMAIN ds = 1 .. Len(ds) /\ Len(ds) \in Nat
<1>1. DOMAIN ds = 1 .. Len(ds) /\ Len(ds) \in Nat
  BY LenProperties
<1>2. 1 .. i - 1 \subseteq DOMAIN ds
  BY <1>1
<1>3. QED
  BY <1>1, <1>2 DEF Bounds

(* Nothing is changed before a dialog: it is looked for as it was.         *)
LEMMA BoundsKept ==
    ASSUME NEW ds, NEW at, NEW at2, NEW i,
           \A j \in 1 .. i - 1 : ~ds[j].optional => at2[j] = at[j]
    PROVE  Bounds(ds, at2, i) = Bounds(ds, at, i) /\ (Due(ds, at2, i) <=> Due(ds, at, i))
  BY DEF Bounds, Due

(* The code looks for the dialogs that are due.                            *)
LEMMA ConsideredAreDue ==
    ASSUME ExpectTyped, NEW i \in DOMAIN dialogs
    PROVE  i \in Ex!Considered <=> doneAt[i] = 0 /\ Due(dialogs, doneAt, i)
<1>1. /\ dialogs \in Seq(Ex!Dialog) /\ doneAt \in [DOMAIN dialogs -> Nat]
      /\ DOMAIN dialogs = 1 .. Len(dialogs) /\ Len(dialogs) \in Nat
  BY LenProperties DEF ExpectTyped
<1>2. \A j \in DOMAIN dialogs : (doneAt[j] > 0 <=> doneAt[j] # 0) /\ j \in Nat
  BY <1>1
<1>3. i \in Ex!Considered
      <=> doneAt[i] = 0 /\ \A j \in DOMAIN dialogs : doneAt[j] = 0 /\ ~dialogs[j].optional => i <= j
  BY <1>2 DEF Ex!Considered, Ex!NextRequired, Ex!Items, Ex!Done
<1>4. (\A j \in DOMAIN dialogs : doneAt[j] = 0 /\ ~dialogs[j].optional => i <= j)
      <=> Due(dialogs, doneAt, i)
  <2>1. \A j \in DOMAIN dialogs : i <= j <=> j \notin 1 .. i - 1
    BY <1>1
  <2>2. 1 .. i - 1 \subseteq DOMAIN dialogs
    BY <1>1
  <2>3. QED
    BY <1>2, <2>1, <2>2 DEF Due
<1>5. QED
  BY <1>3, <1>4

(* Nothing was seen at the start.                                          *)
LEMMA ExpectStart == Ex!Init => ExpectInv
<1> SUFFICES ASSUME Ex!Init PROVE ExpectInv
  OBVIOUS
<1>1. /\ dialogs \in Seq(Ex!Dialog) /\ input = << >> /\ replies = << >> /\ result = "reads"
      /\ match = [i \in DOMAIN dialogs |-> 0] /\ doneAt = [i \in DOMAIN dialogs |-> 0]
  BY ProgramsAssumption DEF Ex!Init, Ex!Items, Ex!ExpectAssumption
<1>2. ExpectTyped
  <2>1. << >> \in Seq(Characters) /\ << >> \in Seq(DOMAIN dialogs)
    OBVIOUS
  <2>2. QED
    BY <1>1, <2>1 DEF ExpectTyped
<1>3. ASSUME NEW i \in DOMAIN dialogs PROVE ItemInv(i)
  <2>1. Len(dialogs[i].expect) \in Nat \ {0} /\ Len(input) = 0 /\ match[i] = 0 /\ doneAt[i] = 0
    BY <1>1, TextTyped
  <2>2. ASSUME Due(dialogs, doneAt, i)
        PROVE  Follows(Bounds(dialogs, doneAt, i), input, dialogs[i].expect, 0)
    <3>1. Bounds(dialogs, doneAt, i) = {}
      <4>1. 1 .. i - 1 \subseteq DOMAIN dialogs
        BY <1>1, BoundsTyped
      <4>2. \A j \in 1 .. i - 1 : doneAt[j] = 0
        BY <1>1, <4>1
      <4>3. QED
        BY <2>2, <4>2 DEF Due, Bounds
    <3>2. QED
      BY <2>1, <3>1 DEF Follows, EndsWith, Beyond, Stands
  <2>3. QED
    BY <2>1, <2>2 DEF ItemInv
<1>4. Ex!TrueMeansDone
  BY <1>1 DEF Ex!TrueMeansDone
<1>5. QED
  BY <1>2, <1>3, <1>4 DEF ExpectInv

(* A character is read.                                                    *)
LEMMA ExpectRead ==
    ASSUME ExpectInv, NEW c \in Characters, Ex!ReadChar(c)
    PROVE  ExpectInv'
<1> DEFINE D == DOMAIN dialogs
           N == Len(input)
           text(i) == dialogs[i].expect
           B(i) == Bounds(dialogs, doneAt, i)
           last == IF Ex!Ending(c) = {} THEN Len(dialogs) ELSE Ex!Least(Ex!Ending(c))
           now == {i \in Ex!Considered : i <= last}
           seen == now \cap Ex!Seen(c)
           added == Ex!Ascending(seen)
<1>1. /\ dialogs \in Seq(Ex!Dialog) /\ match \in [D -> Nat] /\ doneAt \in [D -> Nat]
      /\ input \in Seq(Characters) /\ replies \in Seq(D)
      /\ D = 1 .. Len(dialogs) /\ Len(dialogs) \in Nat /\ N \in Nat
  BY LenProperties DEF ExpectInv, ExpectTyped
<1>2. /\ result = "reads" /\ input' = Append(input, c) /\ dialogs' = dialogs
      /\ match' = [i \in D |-> IF i \notin now THEN match[i]
                               ELSE IF i \in Ex!Seen(c) THEN 0 ELSE Ex!Matched(i, c)]
      /\ doneAt' = [i \in D |-> IF i \in seen THEN Len(input') ELSE doneAt[i]]
      /\ replies' = replies \o added
      /\ result' = IF Ex!Ending(c) = {} THEN "reads"
                   ELSE IF dialogs[last].does = "ends" THEN "true" ELSE "false"
  BY DEF Ex!ReadChar, Ex!Items
<1>3. N + 1 \in Nat /\ Len(input') = N + 1 /\ input' \in Seq(Characters)
  BY <1>1, <1>2
<1>4. \A i \in D : i \in Ex!Considered <=> doneAt[i] = 0 /\ Due(dialogs, doneAt, i)
  BY ConsideredAreDue DEF ExpectInv
<1>5. /\ Ex!Considered \subseteq D
      /\ \A i : i \in Ex!Seen(c) <=> i \in Ex!Considered /\ Going(text(i), match[i], c) = Len(text(i))
      /\ \A i : Ex!Matched(i, c) = Going(text(i), match[i], c)
  BY DEF Ex!Seen, Ex!Matched, Going, Ex!Considered, Ex!Items
<1>6. seen \subseteq D
  BY <1>5
<1>7. /\ added \in Seq(D)
      /\ \A i \in seen : \E k \in DOMAIN added : added[k] = i
  <2> HIDE DEF seen
  <2>1. added \in Seq(seen) /\ \A i \in seen : \E k \in DOMAIN added : added[k] = i
    BY <1>1, <1>6, AscendingIsAll
  <2> HIDE DEF added
  <2>2. QED
    BY <1>6, <2>1
<1>8. result' = "reads" => now = Ex!Considered
  <2>1. ASSUME result' = "reads" PROVE last = Len(dialogs)
    BY <1>2, <2>1
  <2>2. \A i \in Ex!Considered : i <= Len(dialogs)
    BY <1>1, <1>5
  <2>3. QED
    BY <2>1, <2>2
<1>9. /\ replies' \in Seq(D)
      /\ \A i \in D : (\E k \in DOMAIN replies : replies[k] = i) \/ i \in seen
                      => \E k \in DOMAIN replies' : replies'[k] = i
  <2> HIDE DEF added, seen, D
  <2>1. replies' \in Seq(D) /\ Len(replies') = Len(replies) + Len(added)
    BY <1>1, <1>2, <1>7
  <2>2. /\ DOMAIN replies' = 1 .. Len(replies') /\ DOMAIN added = 1 .. Len(added)
        /\ DOMAIN replies = 1 .. Len(replies) /\ Len(added) \in Nat /\ Len(replies) \in Nat
    BY <1>1, <1>7, <2>1, LenProperties
  <2>3. \A k \in DOMAIN replies : k \in DOMAIN replies' /\ replies'[k] = replies[k]
    BY <1>1, <1>2, <1>7, <2>1, <2>2
  <2>4. \A k \in DOMAIN added :
            Len(replies) + k \in DOMAIN replies' /\ replies'[Len(replies) + k] = added[k]
    BY <1>1, <1>2, <1>7, <2>1, <2>2
  <2>5. QED
    BY <1>7, <2>1, <2>3, <2>4
<1>10. /\ \A i \in seen : doneAt'[i] = N + 1
       /\ \A i \in D \ seen : doneAt'[i] = doneAt[i]
       /\ \A i \in D \ now : match'[i] = match[i]
       /\ \A i \in now : match'[i] = IF i \in Ex!Seen(c) THEN 0 ELSE Going(text(i), match[i], c)
  <2>1. now \subseteq D
    BY <1>5
  <2> HIDE DEF now, seen, D
  <2>2. QED
    BY <1>2, <1>3, <1>5, <1>6, <2>1
<1> HIDE DEF added, seen, now, last
<1>11. /\ seen \subseteq now /\ now \subseteq Ex!Considered
       /\ \A i \in now : i \in seen <=> i \in Ex!Seen(c)
  BY DEF seen, now
<1>12. ASSUME NEW i \in D PROVE
         /\ text(i) \in Seq(Characters) /\ text(i) # << >> /\ Len(text(i)) \in Nat \ {0}
         /\ match[i] \in Nat /\ match[i] < Len(text(i)) /\ doneAt[i] \in Nat /\ doneAt[i] <= N
         /\ B(i) \in SUBSET Nat /\ 1 .. i - 1 \subseteq D
  BY <1>1, TextTyped, BoundsTyped DEF ExpectInv, ItemInv
<1>13. ASSUME NEW i \in now PROVE
         /\ Going(text(i), match[i], c) \in 0 .. Len(text(i))
         /\ Going(text(i), match[i], c) # Len(text(i))
            => Follows(B(i), input', text(i), Going(text(i), match[i], c))
         /\ Going(text(i), match[i], c) = Len(text(i)) => Stands(B(i), input', text(i), N + 1)
  <2>1. i \in D /\ Follows(B(i), input, text(i), match[i])
    BY <1>2, <1>4, <1>5, <1>11 DEF ExpectInv, ItemInv
  <2> HIDE DEF B, text
  <2>2. QED
    BY <1>1, <1>2, <1>12, <2>1, FollowsOn
<1>14. ASSUME NEW i \in D, Due(dialogs, doneAt, i)
       PROVE  Bounds(dialogs, doneAt', i) = B(i) /\ Due(dialogs, doneAt', i)
  <2>1. ASSUME NEW j \in 1 .. i - 1, ~dialogs[j].optional PROVE doneAt'[j] = doneAt[j]
    <3>1. j \in D /\ doneAt[j] > 0
      BY <1>12, <1>14, <2>1 DEF Due
    <3>2. j \notin seen
      <4>1. doneAt[j] # 0
        BY <1>12, <3>1
      <4>2. QED
        BY <1>4, <1>11, <3>1, <4>1
    <3>3. QED
      BY <1>10, <3>1, <3>2
  <2> DEFINE at2 == doneAt'
  <2>2. \A j \in 1 .. i - 1 : ~dialogs[j].optional => at2[j] = doneAt[j]
    BY <2>1
  <2> HIDE DEF at2
  <2>3. Bounds(dialogs, at2, i) = Bounds(dialogs, doneAt, i)
        /\ (Due(dialogs, at2, i) <=> Due(dialogs, doneAt, i))
    BY <2>2, BoundsKept
  <2>4. QED
    BY <1>14, <2>3 DEF at2
<1>15. /\ match' \in [D -> Nat] /\ doneAt' \in [D -> Nat]
       /\ \A i \in D : match'[i] < Len(text(i)) /\ doneAt'[i] <= N + 1
  <2>1. ASSUME NEW i \in D PROVE
           match'[i] \in Nat /\ doneAt'[i] \in Nat /\ match'[i] < Len(text(i)) /\ doneAt'[i] <= N + 1
    <3>1. match'[i] \in Nat /\ match'[i] < Len(text(i))
      <4>1. CASE i \notin now
        BY <1>10, <1>12, <4>1
      <4>2. CASE i \in now /\ i \in Ex!Seen(c)
        BY <1>10, <1>12, <4>2
      <4>3. CASE i \in now /\ i \notin Ex!Seen(c)
        <5>1. Going(text(i), match[i], c) # Len(text(i))
          BY <1>5, <1>11, <4>3
        <5>2. Going(text(i), match[i], c) \in 0 .. Len(text(i))
          BY <1>13, <4>3
        <5>3. match'[i] = Going(text(i), match[i], c)
          BY <1>10, <4>3
        <5> HIDE DEF text
        <5>4. QED
          BY <1>12, <5>1, <5>2, <5>3
      <4>4. QED
        BY <4>1, <4>2, <4>3
    <3>2. doneAt'[i] \in Nat /\ doneAt'[i] <= N + 1
      <4>1. doneAt'[i] = N + 1 \/ doneAt'[i] = doneAt[i]
        BY <1>10
      <4>2. doneAt[i] \in Nat /\ doneAt[i] <= N
        BY <1>12
      <4>3. QED
        BY <1>1, <4>1, <4>2
    <3>3. QED
      BY <3>1, <3>2
  <2>2. DOMAIN match' = D /\ DOMAIN doneAt' = D
    BY <1>2
  <2>3. match' = [i \in D |-> match'[i]] /\ doneAt' = [i \in D |-> doneAt'[i]]
    BY <1>2
  <2>4. QED
    BY <2>1, <2>3
<1>16. ExpectTyped'
  <2>1. result' \in {"reads", "true", "false"}
    BY <1>2
  <2>2. QED
    BY <1>1, <1>2, <1>3, <1>9, <1>15, <2>1 DEF ExpectTyped
<1>17. ASSUME NEW i \in D, doneAt'[i] > 0
       PROVE  /\ Due(dialogs, doneAt', i)
              /\ Stands(Bounds(dialogs, doneAt', i), input', text(i), doneAt'[i])
              /\ \E k \in DOMAIN replies' : replies'[k] = i
  <2>1. CASE i \in seen
    <3>1. i \in now /\ Due(dialogs, doneAt, i) /\ Going(text(i), match[i], c) = Len(text(i))
      BY <1>4, <1>5, <1>11, <2>1
    <3>2. doneAt'[i] = N + 1
      BY <1>10, <2>1
    <3>3. Stands(B(i), input', text(i), N + 1)
      BY <1>13, <3>1
    <3>4. QED
      BY <1>9, <1>14, <2>1, <3>1, <3>2, <3>3
  <2>2. CASE i \notin seen
    <3>1. doneAt'[i] = doneAt[i] /\ doneAt[i] > 0
      BY <1>10, <1>17, <2>2
    <3>2. /\ Due(dialogs, doneAt, i) /\ Stands(B(i), input, text(i), doneAt[i])
          /\ \E k \in DOMAIN replies : replies[k] = i
      BY <3>1 DEF ExpectInv, ItemInv
    <3>3. doneAt[i] \in 1 .. N
      BY <1>1, <1>12, <3>1
    <3>4. Stands(B(i), input', text(i), doneAt[i])
      <4> HIDE DEF B, text
      <4>1. QED
        BY <1>1, <1>2, <1>12, <3>2, <3>3, StandsOn
    <3>5. QED
      BY <1>9, <1>14, <3>1, <3>2, <3>4
  <2>3. QED
    BY <2>1, <2>2
<1>18. ASSUME NEW i \in D, result' = "reads", doneAt'[i] = 0
       PROVE  IF Due(dialogs, doneAt', i)
              THEN Follows(Bounds(dialogs, doneAt', i), input', text(i), match'[i])
              ELSE match'[i] = 0
  <2>1. now = Ex!Considered /\ i \notin seen /\ doneAt[i] = 0
    <3>1. N + 1 # 0
      BY <1>1
    <3>2. QED
      BY <1>8, <1>10, <1>18, <3>1
  <2>2. CASE Due(dialogs, doneAt, i)
    <3>1. i \in now /\ i \notin Ex!Seen(c)
      BY <1>4, <1>11, <2>1, <2>2
    <3>2. match'[i] = Going(text(i), match[i], c) /\ Going(text(i), match[i], c) # Len(text(i))
      BY <1>5, <1>10, <2>1, <3>1
    <3>3. Follows(B(i), input', text(i), match'[i])
      BY <1>13, <3>1, <3>2
    <3>4. QED
      BY <1>14, <2>2, <3>3
  <2>3. CASE ~Due(dialogs, doneAt, i)
    <3>1. match'[i] = 0
      <4>1. i \notin now /\ match[i] = 0
        BY <1>2, <1>4, <2>1, <2>3 DEF ExpectInv, ItemInv
      <4>2. QED
        BY <1>10, <4>1
    <3>2. ASSUME Due(dialogs, doneAt', i)
          PROVE  Follows(Bounds(dialogs, doneAt', i), input', text(i), 0)
      <4> DEFINE at2 == doneAt'
                 in2 == input'
                 B2 == Bounds(dialogs, at2, i)
      <4>1. PICK j \in 1 .. i - 1 : ~dialogs[j].optional /\ ~(doneAt[j] > 0)
        BY <2>3 DEF Due
      <4>2. at2[j] > 0 /\ j \in D
        BY <1>12, <3>2, <4>1 DEF Due
      <4>3. at2[j] = N + 1
        BY <1>10, <4>1, <4>2
      <4>4. N + 1 \in B2
        BY <4>1, <4>3 DEF Bounds
      <4>5. \A b \in B2 : b <= N + 1
        BY <1>12, <1>15 DEF Bounds
      <4>6. B2 \in SUBSET Nat
        <5>1. at2 \in [D -> Nat]
          BY <1>15
        <5> HIDE DEF at2
        <5>2. QED
          BY <1>1, <5>1, BoundsTyped
      <4>7. in2 \in Seq(Characters) /\ Len(in2) = N + 1
        BY <1>3
      <4> HIDE DEF B2, in2, text
      <4>8. Follows(B2, in2, text(i), 0)
        BY <1>12, <4>4, <4>5, <4>6, <4>7, FollowsFromHere
      <4>9. QED
        BY <4>8 DEF B2, in2
    <3>3. QED
      BY <3>1, <3>2
  <2>4. QED
    BY <2>2, <2>3
<1>19. ASSUME NEW i \in D PROVE ItemInv(i)'
  <2>1. doneAt'[i] <= Len(input') /\ match'[i] < Len(text(i))
    BY <1>3, <1>15
  <2> HIDE DEF B
  <2>2. QED
    BY <1>2, <1>17, <1>18, <2>1 DEF ItemInv
<1>20. Ex!TrueMeansDone'
  <2> SUFFICES ASSUME result' = "true"
               PROVE  \E i \in D : doneAt'[i] > 0 /\ dialogs[i].does = "ends"
    BY <1>2 DEF Ex!TrueMeansDone, Ex!Done, Ex!Items
  <2>1. Ex!Ending(c) # {} /\ dialogs[last].does = "ends" /\ last = Ex!Least(Ex!Ending(c))
    BY <1>2 DEF last
  <2>2. Ex!Ending(c) \subseteq Ex!Seen(c) /\ Ex!Seen(c) \subseteq Ex!Considered
    BY DEF Ex!Ending, Ex!Seen
  <2>3. Ex!Ending(c) \subseteq Nat
    BY <1>1, <1>5, <2>2
  <2>4. \E i \in Ex!Ending(c) : \A j \in Ex!Ending(c) : i <= j
    BY <2>1, <2>3, LeastElement
  <2>5. last \in Ex!Ending(c)
    BY <2>1, <2>4 DEF Ex!Least
  <2>6. last \in seen /\ last \in D
    <3>1. last \in Nat
      BY <2>3, <2>5
    <3>2. last \in Ex!Considered /\ last \in Ex!Seen(c) /\ last <= last
      BY <2>2, <2>5, <3>1
    <3>3. QED
      BY <1>5, <3>2 DEF seen, now
  <2>7. doneAt'[last] > 0
    <3>1. doneAt'[last] = N + 1
      BY <1>10, <2>6
    <3>2. QED
      BY <1>1, <3>1
  <2>8. QED
    BY <2>1, <2>6, <2>7
<1>21. QED
  BY <1>2, <1>16, <1>19, <1>20 DEF ExpectInv

(* A character, the end, or no data.                                       *)
LEMMA ExpectStep == ExpectInv /\ Ex!Next => ExpectInv'
<1> SUFFICES ASSUME ExpectInv, Ex!Next PROVE ExpectInv'
  OBVIOUS
<1>1. CASE \E c \in Characters : Ex!ReadChar(c)
  BY <1>1, ExpectRead
<1>2. ASSUME UNCHANGED <<dialogs, timeout, match, doneAt, replies, input>>,
             result = "reads", result' \in {"reads", "true", "false"},
             result' = "true" => Ex!NextRequired = {}
      PROVE  ExpectInv'
  <2>1. ExpectTyped'
    BY <1>2 DEF ExpectInv, ExpectTyped
  <2>2. ASSUME NEW i \in DOMAIN dialogs PROVE ItemInv(i)'
    <3>1. ItemInv(i)
      BY DEF ExpectInv
    <3>2. QED
      BY <1>2, <3>1 DEF ItemInv
  <2>3. Ex!TrueMeansDone'
    BY <1>2 DEF Ex!TrueMeansDone, Ex!NextRequired, Ex!Items, Ex!Done
  <2>4. QED
    BY <1>2, <2>1, <2>2, <2>3 DEF ExpectInv
<1>3. CASE Ex!EndOfStream
  BY <1>2, <1>3 DEF Ex!EndOfStream
<1>4. CASE Ex!NoData
  BY <1>2, <1>4 DEF Ex!NoData
<1>5. QED
  BY <1>1, <1>3, <1>4 DEF Ex!Next

(* Where a text is looked for from is behind all of the bounds.            *)
LEMMA FromIsBeyond ==
    ASSUME NEW i, Bounds(dialogs, doneAt, i) \subseteq 0 .. Len(input), Len(input) \in Nat,
           NEW start \in Int
    PROVE  start >= Ex!From(i) <=> Beyond(Bounds(dialogs, doneAt, i), start)
<1> DEFINE B == Bounds(dialogs, doneAt, i)
<1>1. Ex!From(i) = IF B = {} THEN 0 ELSE CHOOSE n \in B : \A m \in B : m <= n
  BY DEF Ex!From, Bounds
<1> HIDE DEF B
<1> SUFFICES start >= Ex!From(i) <=> Beyond(B, start)
  BY DEF B
<1>2. CASE B = {}
  BY <1>1, <1>2 DEF Beyond
<1>3. CASE B # {}
  <2>1. B \subseteq 0 .. Len(input)
    BY DEF B
  <2>2. \E n \in B : \A m \in B : n >= m
    BY <1>3, <2>1, GreatestElement
  <2>3. \E n \in B : \A m \in B : m <= n
    BY <2>1, <2>2
  <2>4. PICK from \in B : from = Ex!From(i) /\ \A m \in B : m <= from
    BY <1>1, <1>3, <2>3
  <2>5. from \in Nat /\ \A m \in B : m \in Nat
    BY <2>1
  <2>6. start >= from <=> Beyond(B, start)
    BY <2>4, <2>5 DEF Beyond
  <2>7. QED
    BY <2>4, <2>6
<1>4. QED
  BY <1>2, <1>3

(* To occur behind the dialogs before it is to stand there.                *)
LEMMA OccursStands ==
    ASSUME ExpectInv, NEW i \in DOMAIN dialogs, NEW end \in 1 .. Len(input)
    PROVE  Ex!Occurs(i, end)
           <=> Stands(Bounds(dialogs, doneAt, i), input, dialogs[i].expect, end)
<1> DEFINE B == Bounds(dialogs, doneAt, i)
           text == dialogs[i].expect
           start == end - Len(text)
<1>1. /\ input \in Seq(Characters) /\ Len(input) \in Nat /\ text \in Seq(Characters)
      /\ Len(text) \in Nat \ {0}
  BY TextTyped, LenProperties DEF ExpectInv, ExpectTyped
<1>2. B \subseteq 0 .. Len(input)
  <2>1. 1 .. i - 1 \subseteq DOMAIN dialogs
    BY BoundsTyped DEF ExpectInv, ExpectTyped
  <2>2. \A j \in DOMAIN dialogs : doneAt[j] \in Nat /\ doneAt[j] <= Len(input)
    BY DEF ExpectInv, ExpectTyped, ItemInv
  <2>3. \A j \in 1 .. i - 1 : doneAt[j] \in 0 .. Len(input)
    BY <1>1, <2>1, <2>2
  <2>4. QED
    BY <2>3 DEF Bounds
<1>3. start >= Ex!From(i) <=> Beyond(B, start)
  <2>1. start \in Int
    BY <1>1
  <2> HIDE DEF start
  <2>2. QED
    BY <1>1, <1>2, <2>1, FromIsBeyond
<1>4. Ex!Occurs(i, end) <=> start >= Ex!From(i) /\ SubSeq(input, start + 1, end) = text
  BY DEF Ex!Occurs
<1> HIDE DEF B, text
<1>5. ASSUME Beyond(B, start)
      PROVE  SubSeq(input, start + 1, end) = text
             <=> \A q \in 1 .. Len(text) : input[start + q] = text[q]
  <2> DEFINE piece == SubSeq(input, start + 1, end)
  <2>1. start >= 0 /\ start \in Int
    BY <1>1, <1>5 DEF Beyond
  <2>2. /\ piece \in Seq(Characters) /\ Len(piece) = Len(text)
        /\ \A q \in 1 .. Len(text) : piece[q] = input[start + q]
    <3>1. start + 1 \in 1 .. Len(input) + 1 /\ end \in 0 .. Len(input) /\ start + 1 <= end
      BY <1>1, <2>1
    <3>2. end - (start + 1) + 1 = Len(text)
      BY <1>1
    <3>3. \A q \in 1 .. Len(text) : (start + 1) + q - 1 = start + q
      BY <1>1
    <3> HIDE DEF start
    <3>4. QED
      BY <1>1, <2>1, <3>1, <3>2, <3>3
  <2> HIDE DEF piece, start
  <2>3. piece = text <=> \A q \in 1 .. Len(text) : piece[q] = text[q]
    BY <1>1, <2>2
  <2>4. QED
    BY <2>2, <2>3 DEF piece
<1>6. QED
  <2>1. Stands(B, input, text, end)
        <=> Beyond(B, start) /\ \A q \in 1 .. Len(text) : input[start + q] = text[q]
    BY DEF Stands
  <2> HIDE DEF start
  <2>2. QED
    BY <1>3, <1>4, <1>5, <2>1 DEF B, text

(* The invariant says that what was seen is answered.                      *)
LEMMA ExpectSees == ExpectInv => Ex!SeenIsAnswered /\ Ex!TrueMeansDone
<1> SUFFICES ASSUME ExpectInv PROVE Ex!SeenIsAnswered
  BY DEF ExpectInv
<1> SUFFICES ASSUME NEW i \in DOMAIN dialogs
             PROVE  /\ doneAt[i] > 0 => Ex!Occurs(i, doneAt[i]) /\ i \in Ex!Range(replies)
                    /\ ~(doneAt[i] > 0) /\ Ex!IsSimple(i) /\ (\A j \in Ex!NextRequired : i <= j)
                       /\ result = "reads" => ~\E end \in 1 .. Len(input) : Ex!Occurs(i, end)
  BY DEF Ex!SeenIsAnswered, Ex!Items, Ex!Done
<1>1. ItemInv(i) /\ ExpectTyped /\ doneAt[i] \in Nat /\ Len(input) \in Nat
  BY LenProperties DEF ExpectInv, ExpectTyped
<1>2. ASSUME doneAt[i] > 0 PROVE Ex!Occurs(i, doneAt[i]) /\ i \in Ex!Range(replies)
  <2>1. doneAt[i] \in 1 .. Len(input)
    BY <1>1, <1>2 DEF ItemInv
  <2>2. Ex!Occurs(i, doneAt[i])
    BY <1>1, <1>2, <2>1, OccursStands DEF ItemInv
  <2>3. i \in Ex!Range(replies)
    BY <1>1, <1>2 DEF ItemInv, Ex!Range
  <2>4. QED
    BY <2>2, <2>3
<1>3. ASSUME ~(doneAt[i] > 0), Ex!IsSimple(i), \A j \in Ex!NextRequired : i <= j,
             result = "reads", NEW end \in 1 .. Len(input), Ex!Occurs(i, end)
      PROVE  FALSE
  <2>1. doneAt[i] = 0
    BY <1>1, <1>3
  <2>2. Due(dialogs, doneAt, i)
    <3>1. i \in Ex!Considered
      BY <1>3 DEF Ex!Considered, Ex!Items, Ex!Done
    <3>2. QED
      BY <1>1, <3>1, ConsideredAreDue
  <2>3. Simple(dialogs[i].expect)
    BY <1>3 DEF Ex!IsSimple, Simple
  <2>4. Stands(Bounds(dialogs, doneAt, i), input, dialogs[i].expect, end)
    BY <1>3, OccursStands
  <2>5. QED
    BY <1>1, <1>3, <2>1, <2>2, <2>3, <2>4 DEF ItemInv, Follows
<1>4. QED
  BY <1>2, <1>3

(* Whatever is sent and however it comes, what is replied to was seen in   *)
(* its place, what was seen is replied to, and TRUE means that all came.   *)
THEOREM DialogsAreKept == ProgramsSpec => []SeenIsAnswered
<1> DEFINE Inv == part = "Expect" => ExpectInv
<1>1. ProgramsInit => Inv
  BY ExpectStart DEF ProgramsInit
<1>2. Inv /\ [ProgramsNext]_programsVars => Inv'
  <2> SUFFICES ASSUME Inv, [ProgramsNext]_programsVars, part' = "Expect" PROVE ExpectInv'
    OBVIOUS
  <2>1. CASE UNCHANGED programsVars
    <3>1. UNCHANGED expectVars /\ ExpectInv
      BY <2>1 DEF programsVars
    <3>2. QED
      BY <3>1 DEF expectVars, ExpectInv, ExpectTyped, ItemInv, Ex!TrueMeansDone, Ex!NextRequired,
           Ex!Items, Ex!Done
  <2>2. CASE ExpectNext
    BY <2>2, ExpectStep DEF ExpectNext
  <2>3. CASE ProgramsNext /\ ~ExpectNext
    <3>1. FALSE
      BY <2>3 DEF ProgramsNext, AutoRecoverNext, OAuthNext, SpawnNext, ProcessNext,
           SeccompNext, CredsNext
    <3>2. QED
      BY <3>1
  <2>4. QED
    BY <2>1, <2>2, <2>3
<1>3. Inv => SeenIsAnswered
  BY ExpectSees DEF SeenIsAnswered
<1>4. QED
  BY <1>1, <1>2, <1>3, PTL DEF ProgramsSpec

-----------------------------------------------------------------------------
(* CREDENTIALS.                                                            *)

(* What a character is written as.                                         *)
Piece(c) == IF c = Cr!Colon THEN <<"\\", Cr!Colon>> ELSE <<c>>
Quotes(f, s) == f[0] = << >> /\ \A i \in 1 .. Len(s) : f[i] = f[i - 1] \o Piece(s[i])

(* What a character is written as is one or two characters.                *)
LEMMA PieceTyped ==
    ASSUME NEW S, "\\" \in S, Cr!Colon \in S, NEW c \in S
    PROVE  /\ Piece(c) \in Seq(S) /\ Len(Piece(c)) \in Nat \ {0}
           /\ Piece(c)[1] = IF c = Cr!Colon THEN "\\" ELSE c
           /\ c # Cr!Colon => Len(Piece(c)) = 1
<1>1. CASE c = Cr!Colon
  <2>1. Piece(c) = <<"\\", Cr!Colon>>
    BY <1>1 DEF Piece
  <2>2. <<"\\", Cr!Colon>> \in Seq(S)
    OBVIOUS
  <2>3. QED
    BY <1>1, <2>1, <2>2
<1>2. CASE c # Cr!Colon
  <2>1. Piece(c) = <<c>>
    BY <1>2 DEF Piece
  <2>2. QED
    BY <1>2, <2>1
<1>3. QED
  BY <1>1, <1>2

(* What is quoted is put together a character at a time.                   *)
LEMMA QuotedSteps ==
    ASSUME NEW S, "\\" \in S, Cr!Colon \in S, NEW s \in Seq(S)
    PROVE  \E f \in [0 .. Len(s) -> Seq(S)] : Quotes(f, s) /\ Cr!Quoted(s) = f[Len(s)]
<1> DEFINE pieces == [i \in DOMAIN s |-> Piece(s[i])]
<1>1. Len(s) \in Nat /\ DOMAIN s = 1 .. Len(s) /\ \A i \in 1 .. Len(s) : s[i] \in S
  BY LenProperties, ElementOfSeq
<1>2. Cr!Quoted(s) = Flat(pieces)
  BY DEF Cr!Quoted, Cr!FlattenSeq, Flat, Piece
<1>3. pieces \in [1 .. Len(s) -> Seq(S)]
  BY <1>1, PieceTyped
<1>4. \A i \in 1 .. Len(s) : pieces[i] = Piece(s[i])
  BY <1>1
<1> HIDE DEF pieces
<1>5. pieces \in Seq(Seq(S)) /\ Len(pieces) = Len(s)
  <2> DEFINE R == Seq(S)
             N == Len(s)
  <2>1. pieces \in [1 .. N -> R] /\ N \in Nat
    BY <1>1, <1>3
  <2> HIDE DEF R, N
  <2>2. pieces \in Seq(R) /\ Len(pieces) = N
    BY <2>1
  <2>3. QED
    BY <2>2 DEF R, N
<1>6. PICK f \in [0 .. Len(pieces) -> Seq(S)] : Flattens(f, pieces) /\ Flat(pieces) = f[Len(pieces)]
  BY <1>5, FlatSteps
<1>7. Quotes(f, s)
  BY <1>4, <1>5, <1>6 DEF Flattens, Quotes
<1>8. QED
  BY <1>2, <1>5, <1>6, <1>7

(* What was quoted of a sequence stays as it is.                           *)
LEMMA QuotesBegin ==
    ASSUME NEW S, "\\" \in S, Cr!Colon \in S, NEW s \in Seq(S),
           NEW f \in [0 .. Len(s) -> Seq(S)], Quotes(f, s), NEW i \in 0 .. Len(s)
    PROVE  Begins(f[i], f[Len(s)])
<1> DEFINE N == Len(s)
           T == {d \in Nat : i + d <= N => Begins(f[i], f[i + d])}
<1>1. N \in Nat /\ \A k \in 1 .. N : s[k] \in S
  BY LenProperties, ElementOfSeq
<1>2. \A k \in 0 .. N : f[k] \in Seq(S) /\ Len(f[k]) \in Nat
  BY LenProperties
<1>3. 0 \in T
  BY <1>2 DEF Begins
<1>4. ASSUME NEW d \in Nat, d \in T PROVE d + 1 \in T
  <2> SUFFICES ASSUME i + (d + 1) <= N PROVE Begins(f[i], f[i + (d + 1)])
    OBVIOUS
  <2>1. /\ i + d \in 0 .. N /\ i + (d + 1) \in 1 .. N /\ (i + (d + 1)) - 1 = i + d
        /\ i + d <= N
    BY <1>1
  <2> DEFINE a == f[i]
             b == f[i + d]
             p == Piece(s[i + (d + 1)])
  <2>2. f[i + (d + 1)] = b \o p
    BY <2>1 DEF Quotes
  <2>3. a \in Seq(S) /\ b \in Seq(S) /\ p \in Seq(S)
    BY <1>1, <1>2, <2>1, PieceTyped
  <2>4. Begins(a, b)
    BY <1>4, <2>1
  <2> HIDE DEF a, b, p
  <2>5. Begins(a, b \o p)
    BY <2>3, <2>4 DEF Begins
  <2>6. QED
    BY <2>2, <2>5 DEF a, b
<1>5. N - i \in T
  <2> HIDE DEF T
  <2>1. N - i \in Nat
    BY <1>1
  <2>2. QED
    BY <1>3, <1>4, <2>1, SetInduction
<1>6. i + (N - i) = N /\ N <= N
  BY <1>1
<1>7. QED
  BY <1>5, <1>6

(* Without a backslash in them, what is quoted can be told apart.          *)
LEMMA QuotedBegins ==
    ASSUME NEW S, "\\" \in S, Cr!Colon \in S, NEW n \in Seq(S), NEW m \in Seq(S),
           \A q \in 1 .. Len(n) : n[q] # "\\", \A q \in 1 .. Len(m) : m[q] # "\\",
           Begins(Cr!Quoted(n), Cr!Quoted(m))
    PROVE  Begins(n, m)
<1>1. PICK f \in [0 .. Len(n) -> Seq(S)] : Quotes(f, n) /\ Cr!Quoted(n) = f[Len(n)]
  BY QuotedSteps
<1>2. PICK g \in [0 .. Len(m) -> Seq(S)] : Quotes(g, m) /\ Cr!Quoted(m) = g[Len(m)]
  BY QuotedSteps
<1> DEFINE N == Len(n)
           M == Len(m)
           Agree(k) == k <= M /\ (\A q \in 1 .. k : n[q] = m[q]) /\ f[k] = g[k]
           T == {k \in Nat : k <= N => Agree(k)}
<1>3. /\ N \in Nat /\ M \in Nat /\ (\A q \in 1 .. N : n[q] \in S)
      /\ \A q \in 1 .. M : m[q] \in S
  BY LenProperties, ElementOfSeq
<1>4. /\ \A k \in 0 .. N : f[k] \in Seq(S) /\ Len(f[k]) \in Nat
      /\ \A k \in 0 .. M : g[k] \in Seq(S) /\ Len(g[k]) \in Nat
  BY LenProperties
<1>5. 0 \in T
  BY <1>1, <1>2, <1>3 DEF Quotes
<1>6. ASSUME NEW k \in Nat, k \in T PROVE k + 1 \in T
  <2> SUFFICES ASSUME k + 1 <= N PROVE Agree(k + 1)
    OBVIOUS
  <2>1. Agree(k) /\ k \in 0 .. N /\ k + 1 \in 1 .. N /\ (k + 1) - 1 = k /\ k \in 0 .. M
        /\ k + 1 \in 0 .. N
    BY <1>3, <1>6
  <2> DEFINE a == f[k]
             x == n[k + 1]
             all == Cr!Quoted(n)
             other == Cr!Quoted(m)
  <2>2. a \in Seq(S) /\ Len(a) \in Nat /\ x \in S /\ x # "\\" /\ Piece(x) \in Seq(S)
        /\ Len(Piece(x)) \in Nat \ {0}
    BY <1>3, <1>4, <2>1, PieceTyped
  <2>3. f[k + 1] = a \o Piece(x)
    BY <1>1, <2>1 DEF Quotes
  <2>4. Len(a) + 1 <= Len(all) /\ all[Len(a) + 1] = Piece(x)[1] /\ Len(all) \in Nat
    <3>1. Begins(f[k + 1], all)
      BY <1>1, <2>1, QuotesBegin
    <3>2. Len(all) \in Nat
      BY <1>1, <1>3, <1>4
    <3> HIDE DEF a, x, all
    <3>3. Len(a \o Piece(x)) = Len(a) + Len(Piece(x)) /\ (a \o Piece(x))[Len(a) + 1] = Piece(x)[1]
      BY <2>2
    <3>4. Len(a) + 1 \in 1 .. Len(a \o Piece(x))
      BY <2>2, <3>3
    <3>5. QED
      BY <2>2, <2>3, <3>1, <3>2, <3>3, <3>4 DEF Begins
  <2>5. Len(a) + 1 <= Len(other) /\ other[Len(a) + 1] = Piece(x)[1]
    <3>1. Len(other) \in Nat
      BY <1>2, <1>3, <1>4
    <3> HIDE DEF a, all, other
    <3>2. Begins(all, other)
      BY DEF all, other
    <3>3. QED
      BY <2>2, <2>4, <3>1, <3>2 DEF Begins
  <2>6. k + 1 \in 1 .. M /\ k + 1 \in 0 .. M
    <3>1. k # M
      <4>1. k = M => other = a
        BY <1>2, <2>1
      <4> HIDE DEF a, other
      <4>2. QED
        BY <2>2, <2>5, <4>1
    <3>2. QED
      BY <1>3, <2>1, <3>1
  <2> DEFINE y == m[k + 1]
  <2>7. y \in S /\ y # "\\" /\ Piece(y) \in Seq(S) /\ Len(Piece(y)) \in Nat \ {0}
    BY <1>3, <2>6, PieceTyped
  <2>8. g[k + 1] = a \o Piece(y)
    BY <1>2, <2>1, <2>6 DEF Quotes
  <2>9. other[Len(a) + 1] = Piece(y)[1]
    <3>1. Begins(g[k + 1], other)
      BY <1>2, <2>6, QuotesBegin
    <3> HIDE DEF a, y, other
    <3>2. Len(a \o Piece(y)) = Len(a) + Len(Piece(y)) /\ (a \o Piece(y))[Len(a) + 1] = Piece(y)[1]
      BY <2>2, <2>7
    <3>3. Len(a) + 1 \in 1 .. Len(a \o Piece(y))
      BY <2>2, <2>7, <3>2
    <3>4. QED
      BY <2>8, <3>1, <3>2, <3>3 DEF Begins
  <2>10. x = y
    <3> HIDE DEF a, x, y, other
    <3>1. Piece(x)[1] = Piece(y)[1]
      BY <2>5, <2>9
    <3>2. /\ Piece(x)[1] = IF x = Cr!Colon THEN "\\" ELSE x
          /\ Piece(y)[1] = IF y = Cr!Colon THEN "\\" ELSE y
      BY <2>2, <2>7, PieceTyped
    <3>3. QED
      BY <2>2, <2>7, <3>1, <3>2
  <2>11. f[k + 1] = g[k + 1]
    BY <2>3, <2>8, <2>10
  <2>12. \A q \in 1 .. k + 1 : n[q] = m[q]
    <3>1. \A q \in 1 .. k + 1 : q \in 1 .. k \/ q = k + 1
      OBVIOUS
    <3>2. QED
      BY <2>1, <2>10, <3>1
  <2>13. QED
    BY <1>3, <2>6, <2>11, <2>12
<1>7. N \in T
  <2> HIDE DEF T
  <2>1. QED
    BY <1>3, <1>5, <1>6, SetInduction
<1>8. QED
  BY <1>3, <1>7 DEF Begins

(* Without a colon nothing is quoted.                                      *)
LEMMA QuotedPlain ==
    ASSUME NEW S, "\\" \in S, Cr!Colon \in S, NEW s \in Seq(S),
           \A q \in 1 .. Len(s) : s[q] # Cr!Colon
    PROVE  Cr!Quoted(s) = s
<1>1. PICK f \in [0 .. Len(s) -> Seq(S)] : Quotes(f, s) /\ Cr!Quoted(s) = f[Len(s)]
  BY QuotedSteps
<1> DEFINE N == Len(s)
           Copied(k) == Len(f[k]) = k /\ \A q \in 1 .. k : f[k][q] = s[q]
           T == {k \in Nat : k <= N => Copied(k)}
<1>2. N \in Nat /\ (\A q \in 1 .. N : s[q] \in S) /\ \A k \in 0 .. N : f[k] \in Seq(S)
  BY LenProperties, ElementOfSeq
<1>3. 0 \in T
  BY <1>1 DEF Quotes
<1>4. ASSUME NEW k \in Nat, k \in T PROVE k + 1 \in T
  <2> SUFFICES ASSUME k + 1 <= N PROVE Copied(k + 1)
    OBVIOUS
  <2>1. Copied(k) /\ k \in 0 .. N /\ k + 1 \in 1 .. N /\ (k + 1) - 1 = k
    BY <1>2, <1>4
  <2>2. f[k + 1] = f[k] \o Piece(s[k + 1])
    BY <1>1, <2>1 DEF Quotes
  <2>3. Piece(s[k + 1]) = <<s[k + 1]>>
    BY <2>1 DEF Piece
  <2> DEFINE a == f[k]
             x == s[k + 1]
  <2>4. a \in Seq(S) /\ x \in S /\ Len(a) = k /\ \A q \in 1 .. k : a[q] = s[q]
    BY <1>2, <2>1
  <2> HIDE DEF a
  <2>5. Len(a \o <<x>>) = k + 1 /\ (a \o <<x>>)[k + 1] = x
        /\ \A q \in 1 .. k : (a \o <<x>>)[q] = s[q]
    <3> DEFINE b == <<x>>
    <3>1. b \in Seq(S) /\ Len(b) = 1 /\ b[1] = x
      BY <2>4
    <3> HIDE DEF x, b
    <3>2. /\ Len(a \o b) = Len(a) + Len(b)
          /\ \A q \in 1 .. Len(a) + Len(b) : (a \o b)[q] = IF q <= Len(a) THEN a[q] ELSE b[q - Len(a)]
      <4>1. a \in Seq(S) /\ b \in Seq(S)
        BY <2>4, <3>1
      <4>2. QED
        BY <4>1, ConcatProperties
    <3>3. (k + 1) - k = 1 /\ k + 1 \in 1 .. k + 1 /\ ~(k + 1 <= k)
          /\ \A q \in 1 .. k : q \in 1 .. k + 1 /\ q <= k
      OBVIOUS
    <3>4. QED
      BY <2>4, <3>1, <3>2, <3>3 DEF b
  <2>6. \A q \in 1 .. k + 1 : q \in 1 .. k \/ q = k + 1
    OBVIOUS
  <2>7. f[k + 1] = a \o <<x>>
    BY <2>2, <2>3 DEF a
  <2>8. QED
    BY <2>5, <2>6, <2>7
<1>5. N \in T
  <2> HIDE DEF T
  <2>1. QED
    BY <1>2, <1>3, <1>4, SetInduction
<1>6. f[N] \in Seq(S) /\ Len(f[N]) = N /\ \A q \in 1 .. N : f[N][q] = s[q]
  BY <1>2, <1>5
<1>7. f[N] = s
  <2> DEFINE t == f[N]
  <2> HIDE DEF t
  <2>1. t \in Seq(S) /\ Len(t) = Len(s) /\ \A q \in 1 .. Len(s) : t[q] = s[q]
    BY <1>6 DEF t
  <2>2. t = s
    BY <2>1
  <2>3. QED
    BY <2>2 DEF t
<1>8. QED
  BY <1>1, <1>7

-----------------------------------------------------------------------------
(* IsPrefix of the community modules, a character at a time.               *)
LEMMA PrefixBegins ==
    ASSUME NEW S, NEW a \in Seq(S), NEW b \in Seq(S)
    PROVE  Cr!IsPrefix(a, b) <=> Begins(a, b)
<1> DEFINE n == Len(a)
           x == SubSeq(a, 1, n)
           y == SubSeq(b, 1, n)
<1>1. n \in Nat /\ Len(b) \in Nat
  BY LenProperties
<1>2. Cr!IsPrefix(a, b) <=> n <= Len(b) /\ x = y
  BY DEF Cr!IsPrefix
<1>3. ASSUME n <= Len(b) PROVE x = y <=> \A q \in 1 .. n : a[q] = b[q]
  <2>1. x \in Seq(S) /\ Len(x) = n /\ \A q \in 1 .. n : x[q] = a[q]
    BY <1>1, <1>3
  <2>2. y \in Seq(S) /\ Len(y) = n /\ \A q \in 1 .. n : y[q] = b[q]
    BY <1>1, <1>3
  <2> HIDE DEF x, y, n
  <2>3. x = y <=> \A q \in 1 .. n : x[q] = y[q]
    BY <2>1, <2>2
  <2>4. QED
    BY <2>1, <2>2, <2>3
<1>4. QED
  <2> HIDE DEF x, y
  <2>1. QED
    BY <1>2, <1>3 DEF Begins

(* What begins with a sequence is quoted as what begins with it quoted.    *)
LEMMA BeginsQuoted ==
    ASSUME NEW S, "\\" \in S, Cr!Colon \in S, NEW n \in Seq(S), NEW m \in Seq(S), Begins(n, m)
    PROVE  Begins(Cr!Quoted(n), Cr!Quoted(m))
<1>1. PICK f \in [0 .. Len(n) -> Seq(S)] : Quotes(f, n) /\ Cr!Quoted(n) = f[Len(n)]
  BY QuotedSteps
<1>2. PICK g \in [0 .. Len(m) -> Seq(S)] : Quotes(g, m) /\ Cr!Quoted(m) = g[Len(m)]
  BY QuotedSteps
<1> DEFINE N == Len(n)
           T == {k \in Nat : k <= N => f[k] = g[k]}
<1>3. N \in Nat /\ Len(m) \in Nat /\ N <= Len(m) /\ \A q \in 1 .. N : n[q] = m[q]
  BY LenProperties DEF Begins
<1>4. 0 \in T
  BY <1>1, <1>2 DEF Quotes
<1>5. ASSUME NEW k \in Nat, k \in T PROVE k + 1 \in T
  <2> SUFFICES ASSUME k + 1 <= N PROVE f[k + 1] = g[k + 1]
    OBVIOUS
  <2>1. k + 1 \in 1 .. N /\ k + 1 \in 1 .. Len(m) /\ (k + 1) - 1 = k /\ f[k] = g[k]
    BY <1>3, <1>5
  <2>2. f[k + 1] = f[k] \o Piece(n[k + 1]) /\ g[k + 1] = g[k] \o Piece(m[k + 1])
    BY <1>1, <1>2, <2>1 DEF Quotes
  <2>3. QED
    BY <1>3, <2>1, <2>2
<1>6. N \in T
  <2> HIDE DEF T
  <2>1. QED
    BY <1>3, <1>4, <1>5, SetInduction
<1>7. f[N] = g[N] /\ N \in 0 .. Len(m)
  BY <1>3, <1>6
<1>8. Begins(g[N], g[Len(m)])
  BY <1>2, <1>7, QuotesBegin
<1>9. QED
  BY <1>1, <1>2, <1>7, <1>8

(* What names are made of.                                                 *)
CharsOf(s) == Cr!Range(s) \cup {"\\", Cr!Colon}
(* A name is a sequence of its characters.                                 *)
LEMMA CharsTyped ==
    ASSUME NEW s \in Realms \cup Passwords
    PROVE  s \in Seq(CharsOf(s))
<1>1. s \in Seq(Cr!Range(s))
  BY ProgramsAssumption DEF Cr!CredsAssumption
<1>2. Cr!Range(s) \subseteq CharsOf(s)
  BY DEF CharsOf
<1>3. QED
  BY <1>1, <1>2

(* A field matches if it begins with what is looked for.                   *)
LEMMA FieldBegins ==
    ASSUME NEW n \in Realms, NEW m \in Realms
    PROVE  Cr!SecureStoreFieldMatch(m, n) <=> Cr!IsPrefix(n, m)
<1> DEFINE S == CharsOf(n) \cup CharsOf(m)
<1>1. n \in Seq(S) /\ m \in Seq(S) /\ "\\" \in S /\ Cr!Colon \in S
  <2>1. n \in Seq(CharsOf(n)) /\ m \in Seq(CharsOf(m))
    BY CharsTyped
  <2>2. CharsOf(n) \subseteq S /\ CharsOf(m) \subseteq S
    OBVIOUS
  <2>3. "\\" \in S /\ Cr!Colon \in S
    BY DEF CharsOf
  <2> HIDE DEF S
  <2>4. QED
    BY <2>1, <2>2, <2>3
<1> HIDE DEF S
<1>2. /\ n # << >>
      /\ \A q \in 1 .. Len(n) : n[q] # "\\"
      /\ \A q \in 1 .. Len(m) : m[q] # "\\"
  <2>1. n # << >> /\ "\\" \notin Cr!Range(n) /\ "\\" \notin Cr!Range(m)
    BY ProgramsAssumption DEF Cr!CredsAssumption
  <2>2. DOMAIN n = 1 .. Len(n) /\ DOMAIN m = 1 .. Len(m)
    BY <1>1, LenProperties
  <2>3. QED
    BY <2>1, <2>2 DEF Cr!Range
<1>3. \A s \in Seq(S) : Cr!Quoted(s) \in Seq(S)
  <2>1. ASSUME NEW s \in Seq(S) PROVE Cr!Quoted(s) \in Seq(S)
    <3>1. PICK f \in [0 .. Len(s) -> Seq(S)] : Cr!Quoted(s) = f[Len(s)]
      BY <1>1, QuotedSteps
    <3>2. Len(s) \in 0 .. Len(s)
      BY LenProperties
    <3>3. QED
      BY <3>1, <3>2
  <2>2. QED
    BY <2>1
<1>4. Cr!IsPrefix(Cr!Quoted(n), Cr!Quoted(m)) <=> Begins(Cr!Quoted(n), Cr!Quoted(m))
  BY <1>1, <1>3, PrefixBegins
<1>5. Cr!IsPrefix(n, m) <=> Begins(n, m)
  BY <1>1, PrefixBegins
<1>6. Begins(Cr!Quoted(n), Cr!Quoted(m)) <=> Begins(n, m)
  BY <1>1, <1>2, QuotedBegins, BeginsQuoted
<1>7. QED
  BY <1>2, <1>4, <1>5, <1>6 DEF Cr!SecureStoreFieldMatch

(* The memory that is asked for has room, and as much as before.           *)
LEMMA MemSizeHolds ==
    ASSUME NEW n \in Nat
    PROVE  Cr!MemSize(n) \in Nat /\ Cr!MemSize(n) > n
<1> DEFINE q == n \div PageSize
<1>1. PageSize \in Nat /\ PageSize > 0
  BY ProgramsAssumption DEF Cr!CredsAssumption
<1>2. q \in Nat /\ n < (q + 1) * PageSize
  BY <1>1
<1> HIDE DEF q
<1>3. (q + 1) * PageSize \in Nat
  BY <1>1, <1>2
<1>4. QED
  BY <1>2, <1>3 DEF Cr!MemSize, q

(* More is asked for as the store grows.                                   *)
LEMMA MemSizeGrows ==
    ASSUME NEW n \in Nat, NEW m \in Nat, n <= m
    PROVE  Cr!MemSize(n) <= Cr!MemSize(m)
<1> DEFINE q == n \div PageSize
           r == m \div PageSize
<1>1. PageSize \in Nat /\ PageSize > 0
  BY ProgramsAssumption DEF Cr!CredsAssumption
<1>2. q \in Nat /\ r \in Nat /\ q * PageSize <= n /\ m < (r + 1) * PageSize
  BY <1>1
<1> HIDE DEF q, r
<1>3. q <= r
  <2> SUFFICES ASSUME r < q PROVE FALSE
    BY <1>2
  <2>1. r + 1 <= q
    BY <1>2
  <2>2. (r + 1) * PageSize <= q * PageSize
    BY <1>1, <1>2, <2>1
  <2>3. QED
    BY <1>1, <1>2, <2>2
<1>4. (q + 1) * PageSize <= (r + 1) * PageSize
  BY <1>1, <1>2, <1>3
<1>5. QED
  BY <1>4 DEF Cr!MemSize, q, r

-----------------------------------------------------------------------------
Record == Realms \X Realms \X Passwords

(* In the process that made the store: of its blocks all but the last were *)
(* freed, and the store has grown by the rule; an answer that is in the    *)
(* block that is used can be read.                                         *)
Clean(k) ==
    /\ freed = 1 .. k /\ block \in {0, k + 1}
    /\ block = 0 => size = 0 /\ records = << >> /\ ~answer.found
    /\ block # 0 => size = Cr!MemSize(used)
    /\ answer.found => answer.block \in 1 .. k + 1
    /\ answer.found /\ answer.block = block => access = "read"
    /\ faults = {}
CredsInv ==
    /\ records \in Seq(Record) /\ used \in Nat
    /\ parent => \E k \in Nat : Clean(k)

(* A record has a size.                                                    *)
LEMMA RecordSizeTyped ==
    ASSUME NEW realm \in Realms, NEW user \in Realms, NEW cred \in Passwords
    PROVE  Cr!RecordSize(<<realm, user, cred>>) \in Nat
<1>1. ASSUME NEW s \in Realms \cup Passwords PROVE Len(Cr!Quoted(s)) \in Nat
  <2>1. s \in Seq(CharsOf(s)) /\ "\\" \in CharsOf(s) /\ Cr!Colon \in CharsOf(s)
    BY CharsTyped DEF CharsOf
  <2>2. PICK f \in [0 .. Len(s) -> Seq(CharsOf(s))] : Cr!Quoted(s) = f[Len(s)]
    BY <2>1, QuotedSteps
  <2>3. Len(s) \in 0 .. Len(s)
    BY <2>1, LenProperties
  <2>4. Cr!Quoted(s) \in Seq(CharsOf(s))
    BY <2>2, <2>3
  <2>5. QED
    BY <2>4, LenProperties
<1>2. Len(Cr!Quoted(realm)) \in Nat /\ Len(Cr!Quoted(user)) \in Nat /\ Len(Cr!Quoted(cred)) \in Nat
  BY <1>1
<1>3. Cr!RecordSize(<<realm, user, cred>>)
      = Len(Cr!Quoted(realm)) + Len(Cr!Quoted(user)) + Len(Cr!Quoted(cred)) + 3
  BY DEF Cr!RecordSize
<1>4. QED
  BY <1>2, <1>3

(* So many blocks were freed.                                              *)
LEMMA CardinalityOfFirst ==
    ASSUME NEW k \in Nat
    PROVE  Cr!Cardinality(1 .. k) = k
<1>1. Cr!Cardinality(1 .. k) = Cardinality(1 .. k)
  BY DEF Cr!Cardinality, Cardinality
<1>2. Cardinality(1 .. k) = k
  <2>1. 1 \in Int /\ k \in Int /\ (1 > k => k = 0) /\ k - 1 + 1 = k
    OBVIOUS
  <2>2. Cardinality(1 .. k) = IF 1 > k THEN 0 ELSE k - 1 + 1
    BY <2>1, FS_Interval
  <2>3. QED
    BY <2>1, <2>2
<1>3. QED
  BY <1>1, <1>2

(* The store is empty at the start.                                        *)
LEMMA CredsStart == Cr!Init => CredsInv
<1> SUFFICES ASSUME Cr!Init PROVE CredsInv
  OBVIOUS
<1>1. /\ records = << >> /\ block = 0 /\ freed = {} /\ size = 0 /\ used = 0 /\ faults = {}
      /\ answer.found = FALSE
  BY DEF Cr!Init, Cr!None
<1>2. Clean(0)
  BY <1>1 DEF Clean
<1>3. << >> \in Seq(Record)
  OBVIOUS
<1>4. QED
  BY <1>1, <1>2, <1>3 DEF CredsInv

(* A credential is added, in a new block.                                  *)
LEMMA CredsAdd ==
    ASSUME CredsInv, NEW realm \in Realms, NEW user \in Realms, NEW cred \in Passwords,
           Cr!CredsStoreAdd(realm, user, cred)
    PROVE  CredsInv'
<1> DEFINE record == <<realm, user, cred>>
           newused == used + Cr!RecordSize(record) + Cr!HeaderSize
           newsize == Cr!MemSize(newused)
           moved == newsize >= size
<1>1. newused \in Nat /\ used <= newused
  <2>1. Cr!RecordSize(record) \in Nat
    BY RecordSizeTyped
  <2> HIDE DEF record
  <2>2. QED
    BY <2>1 DEF CredsInv, Cr!HeaderSize
<1>2. newsize \in Nat /\ newsize > newused
  <2> HIDE DEF newused
  <2>1. QED
    BY <1>1, MemSizeHolds
<1>3. /\ block' = IF moved THEN Cr!Cardinality(freed) + 2 - (IF block = 0 THEN 1 ELSE 0) ELSE block
      /\ freed' = IF moved /\ block # 0 THEN freed \cup {block} ELSE freed
      /\ size' = IF moved THEN newsize ELSE size
      /\ used' = newused /\ records' = Append(records, record) /\ access' = "none"
      /\ faults' = faults \cup {x \in {"freed"} : block \in freed}
                      \cup {x \in {"overrun"} : newused > size'}
      /\ parent' = parent /\ answer' = answer
  BY DEF Cr!CredsStoreAdd
<1>4. records' \in Seq(Record)
  <2>1. record \in Record
    BY DEF Record
  <2> HIDE DEF record, Record
  <2>2. QED
    BY <1>3, <2>1 DEF CredsInv
<1> HIDE DEF newused, newsize
<1>5. ASSUME NEW k \in Nat, Clean(k) PROVE \E n \in Nat : Clean(n)'
  <2>1. moved
    <3>1. CASE block = 0
      BY <1>2, <1>5, <3>1 DEF Clean
    <3>2. CASE block # 0
      <4>1. size = Cr!MemSize(used) /\ used \in Nat
        BY <1>5, <3>2 DEF Clean, CredsInv
      <4>2. Cr!MemSize(used) <= newsize
        BY <1>1, <4>1, MemSizeGrows DEF newsize
      <4>3. Cr!MemSize(used) \in Nat
        BY <4>1, MemSizeHolds
      <4>4. QED
        BY <1>2, <4>1, <4>2, <4>3
    <3>3. QED
      BY <3>1, <3>2
  <2> HIDE DEF moved
  <2>2. Cr!Cardinality(freed) = k
    BY <1>5, CardinalityOfFirst DEF Clean
  <2>3. faults' = {}
    <3>1. block \notin freed
      BY <1>5 DEF Clean
    <3>2. ~(newused > size')
      BY <1>1, <1>2, <1>3, <2>1
    <3>3. QED
      BY <1>3, <1>5, <3>1, <3>2 DEF Clean
  <2>4. size' = Cr!MemSize(used')
    BY <1>3, <2>1 DEF newsize
  <2>5. CASE block = 0
    <3>1. block' = k + 1 /\ freed' = 1 .. k /\ ~answer'.found
      BY <1>3, <1>5, <2>1, <2>2, <2>5 DEF Clean
    <3>2. Clean(k)'
      BY <2>3, <2>4, <3>1 DEF Clean
    <3>3. QED
      BY <3>2
  <2>6. CASE block = k + 1
    <3>1. block # 0 /\ block' = (k + 1) + 1 /\ freed' = 1 .. k + 1 /\ answer' = answer
      <4>1. block # 0 /\ freed = 1 .. k
        BY <1>5, <2>6 DEF Clean
      <4>2. block' = k + 2 - 0 /\ freed' = (1 .. k) \cup {k + 1} /\ answer' = answer
        BY <1>3, <2>1, <2>2, <2>6, <4>1
      <4>3. k + 2 - 0 = (k + 1) + 1 /\ (1 .. k) \cup {k + 1} = 1 .. k + 1
        OBVIOUS
      <4>4. QED
        BY <4>1, <4>2, <4>3
    <3>2. answer.found => answer.block \in 1 .. (k + 1) + 1 /\ answer.block # (k + 1) + 1
      BY <1>5 DEF Clean
    <3>3. Clean(k + 1)'
      BY <2>3, <2>4, <3>1, <3>2 DEF Clean
    <3>4. QED
      BY <3>3
  <2>7. QED
    BY <1>5, <2>5, <2>6 DEF Clean
<1>6. QED
  BY <1>1, <1>3, <1>4, <1>5 DEF CredsInv

(* Each operation on the store.                                            *)
LEMMA CredsStep == CredsInv /\ Cr!Next => CredsInv'
<1> SUFFICES ASSUME CredsInv, Cr!Next PROVE CredsInv'
  OBVIOUS
<1>1. CASE \E realm \in Realms, user \in Realms, cred \in Passwords :
              Cr!CredsStoreAdd(realm, user, cred)
  BY <1>1, CredsAdd
<1>2. ASSUME NEW realm \in Realms, NEW user \in Realms, Cr!CredsStoreLookup(realm, user)
      PROVE  CredsInv'
  <2>1. /\ access' = IF block = 0 THEN access ELSE "read"
        /\ Cr!Matches(realm, user) = {} => answer'.found = FALSE
        /\ Cr!Matches(realm, user) # {} => answer'.block = block
        /\ faults' = faults \cup {x \in {"freed"} : block \in freed}
        /\ UNCHANGED <<records, block, freed, size, used, parent>>
    BY <1>2 DEF Cr!CredsStoreLookup, Cr!None
  <2>2. ASSUME NEW k \in Nat, Clean(k) PROVE Clean(k)'
    <3>1. faults' = {}
      BY <2>1, <2>2 DEF Clean
    <3>2. block = 0 => ~answer'.found
      <4>1. records = << >> => Cr!Matches(realm, user) = {}
        BY DEF Cr!Matches
      <4>2. QED
        BY <2>1, <2>2, <4>1 DEF Clean
    <3>3. answer'.found => answer'.block = block /\ block # 0
      BY <2>1, <3>2
    <3>4. QED
      BY <2>1, <2>2, <3>1, <3>2, <3>3 DEF Clean
  <2>3. QED
    BY <2>1, <2>2 DEF CredsInv
<1>3. CASE Cr!UseAnswer
  <2>1. /\ answer.found /\ answer.block = block
        /\ faults' = faults \cup Cr!Touch(answer.block, {"read"})
        /\ answer'.found = FALSE
        /\ UNCHANGED <<records, block, freed, size, used, access, parent>>
    BY <1>3 DEF Cr!UseAnswer, Cr!None
  <2>2. ASSUME NEW k \in Nat, Clean(k) PROVE Clean(k)'
    <3>1. Cr!Touch(answer.block, {"read"}) = {}
      BY <2>1, <2>2 DEF Clean, Cr!Touch
    <3>2. QED
      BY <2>1, <2>2, <3>1 DEF Clean
  <2>3. QED
    BY <2>1, <2>2 DEF CredsInv
<1>4. CASE Cr!CredsStoreOnFork
  BY <1>4 DEF Cr!CredsStoreOnFork, CredsInv
<1>5. CASE Cr!CredsStoreDestroy
  <2>1. /\ block # 0 /\ freed' = freed \cup {block} /\ block' = 0 /\ records' = << >>
        /\ faults' = faults \cup {x \in {"freed"} : block \in freed}
        /\ size' = 0 /\ used' = 0 /\ answer'.found = FALSE /\ parent' = parent
    BY <1>5 DEF Cr!CredsStoreDestroy, Cr!None
  <2>2. ASSUME NEW k \in Nat, Clean(k) PROVE Clean(k + 1)'
    <3>1. block = k + 1 /\ freed' = 1 .. k + 1 /\ faults' = {}
      BY <2>1, <2>2 DEF Clean
    <3>2. QED
      BY <2>1, <3>1 DEF Clean
  <2>3. records' \in Seq(Record) /\ used' \in Nat
    BY <2>1
  <2>4. QED
    BY <2>1, <2>2, <2>3 DEF CredsInv
<1>6. QED
  BY <1>1, <1>2, <1>3, <1>4, <1>5 DEF Cr!Next

(* What is found is the first that begins with the names.                  *)
LEMMA LookupAnswersOwn ==
    ASSUME CredsInv, NEW realm \in Realms, NEW user \in Realms,
           Cr!CredsStoreLookup(realm, user)
    PROVE  Cr!AnswersOwn
<1> DEFINE same == Cr!BeginWith(realm, user)
           first == CHOOSE i \in same : \A j \in same : i <= j
<1>1. /\ DOMAIN records = 1 .. Len(records) /\ Len(records) \in Nat
      /\ \A i \in DOMAIN records : /\ records[i][1] \in Realms /\ records[i][2] \in Realms
                                   /\ records[i][3] \in Passwords
  <2>1. DOMAIN records = 1 .. Len(records) /\ Len(records) \in Nat
    BY LenProperties DEF CredsInv
  <2>2. ASSUME NEW i \in DOMAIN records PROVE records[i] \in Record
    BY <2>1, ElementOfSeq DEF CredsInv
  <2>3. QED
    BY <2>1, <2>2 DEF Record
<1>2. Cr!Matches(realm, user) = same
  <2>1. \A i \in DOMAIN records :
           Cr!SecureStoreFieldMatch(records[i][1], realm)
           /\ Cr!SecureStoreFieldMatch(records[i][2], user)
           <=> Cr!IsPrefix(realm, records[i][1]) /\ Cr!IsPrefix(user, records[i][2])
    BY <1>1, FieldBegins
  <2>2. QED
    BY <2>1 DEF Cr!Matches, Cr!BeginWith
<1>3. answer' = IF same = {} THEN [Cr!None EXCEPT !.realm = realm, !.user = user]
                ELSE [found |-> TRUE, realm |-> realm, user |-> user, block |-> block,
                      cred |-> Cr!Quoted(records[first][3])]
  BY <1>2 DEF Cr!CredsStoreLookup
<1> HIDE DEF same
<1>4. same # {} => first \in same /\ \A j \in same : first <= j
  <2>1. same \subseteq Nat
    BY <1>1 DEF same, Cr!BeginWith
  <2>2. same # {} => \E i \in same : \A j \in same : i <= j
    BY <2>1, LeastElement
  <2>3. QED
    BY <2>2
<1>5. answer'.realm = realm /\ answer'.user = user /\ answer'.found = (same # {})
      /\ (same # {} => answer'.cred = Cr!Quoted(records[first][3]))
  <2> HIDE DEF first
  <2>1. CASE same = {}
    BY <1>3, <2>1 DEF Cr!None
  <2>2. CASE same # {}
    BY <1>3, <2>2
  <2>3. QED
    BY <2>1, <2>2
<1>6. ASSUME same # {}, Cr!Colon \notin Cr!Range(records[first][3])
      PROVE  Cr!Quoted(records[first][3]) = records[first][3]
  <2> DEFINE s == records[first][3]
  <2>1. s \in Passwords
    BY <1>1, <1>4, <1>6 DEF same, Cr!BeginWith
  <2>2. s \in Seq(CharsOf(s)) /\ "\\" \in CharsOf(s) /\ Cr!Colon \in CharsOf(s)
    BY <2>1, CharsTyped DEF CharsOf
  <2>3. DOMAIN s = 1 .. Len(s)
    BY <2>2, LenProperties
  <2>4. \A q \in 1 .. Len(s) : s[q] # Cr!Colon
    BY <1>6, <2>3 DEF Cr!Range
  <2> HIDE DEF s
  <2>5. Cr!Quoted(s) = s
    BY <2>2, <2>4, QuotedPlain
  <2>6. QED
    BY <2>5 DEF s
<1>7. QED
  <2>1. Cr!BeginWith(answer'.realm, answer'.user) = same
    BY <1>5 DEF same
  <2>2. ASSUME NEW i \in same, \A j \in same : i <= j PROVE i = first
    <3>1. i \in Nat /\ first \in Nat
      BY <1>1, <1>4, <2>2 DEF same, Cr!BeginWith
    <3>2. i <= first /\ first <= i
      BY <1>4, <2>2
    <3> HIDE DEF first
    <3>3. QED
      BY <3>1, <3>2
  <2> HIDE DEF first
  <2>3. \A i \in same : (\A j \in same : i <= j) /\ Cr!Colon \notin Cr!Range(records[i][3])
                          => answer'.cred = records[i][3]
    BY <1>5, <1>6, <2>2
  <2>4. QED
    BY <1>5, <2>1, <2>3 DEF Cr!AnswersOwn

(* The answer changes by a lookup alone, or is forgotten.                  *)
LEMMA CredsAnswerOwn ==
    ASSUME CredsInv, Cr!Next
    PROVE  Cr!AnswersOwn
<1>1. CASE \E realm \in Realms, user \in Realms : Cr!CredsStoreLookup(realm, user)
  BY <1>1, LookupAnswersOwn
<1>2. CASE answer' = answer \/ answer' = Cr!None
  BY <1>2 DEF Cr!AnswersOwn, Cr!None
<1>3. QED
  BY <1>1, <1>2 DEF Cr!Next, Cr!CredsStoreAdd, Cr!UseAnswer, Cr!CredsStoreOnFork,
     Cr!CredsStoreDestroy

(* A lookup finds the first credential whose names begin with those that   *)
(* are asked for, however many are added before it and whatever becomes of *)
(* the memory: so its own, unless one of longer names was added before it. *)
(* And the memory that is used is the store's own.                         *)
THEOREM OwnIsFound == ProgramsSpec => LookupIsOwn
<1> DEFINE Inv == part = "Creds" => CredsInv
           Own == part = "Creds" => Cr!AnswersOwn
           Safe == part = "Creds" => Cr!NoBadAccess
<1>1. ProgramsInit => Inv
  BY CredsStart DEF ProgramsInit
<1>2. Inv /\ [ProgramsNext]_programsVars => Inv'
  <2> SUFFICES ASSUME Inv, [ProgramsNext]_programsVars, part' = "Creds" PROVE CredsInv'
    OBVIOUS
  <2>1. CASE UNCHANGED programsVars
    <3>1. UNCHANGED credsVars /\ CredsInv
      BY <2>1 DEF programsVars
    <3>2. QED
      BY <3>1 DEF credsVars, CredsInv, Clean
  <2>2. CASE CredsNext
    BY <2>2, CredsStep DEF CredsNext
  <2>3. CASE ProgramsNext /\ ~CredsNext
    <3>1. FALSE
      BY <2>3 DEF ProgramsNext, AutoRecoverNext, OAuthNext, SpawnNext, ProcessNext,
           SeccompNext, ExpectNext
    <3>2. QED
      BY <3>1
  <2>4. QED
    BY <2>1, <2>2, <2>3
<1>3. Inv /\ [ProgramsNext]_programsVars => [Own]_credsVars
  <2> SUFFICES ASSUME Inv, ProgramsNext, ~UNCHANGED credsVars, part = "Creds"
               PROVE  Cr!AnswersOwn
    BY DEF programsVars
  <2>1. CredsNext
    BY DEF ProgramsNext, AutoRecoverNext, OAuthNext, SpawnNext, ProcessNext, SeccompNext,
           ExpectNext
  <2>2. QED
    BY <2>1, CredsAnswerOwn DEF CredsNext
<1>4. Inv => Safe
  BY DEF CredsInv, Clean, Cr!NoBadAccess
<1>5. ProgramsSpec => []Safe /\ [][Own]_credsVars
  <2> HIDE DEF Inv, Own, Safe
  <2>1. QED
    BY <1>1, <1>2, <1>3, <1>4, PTL DEF ProgramsSpec
<1>6. QED
  BY <1>5 DEF LookupIsOwn
=============================================================================
