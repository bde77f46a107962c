------------------------- MODULE PasswordFileProofs -------------------------
(***************************************************************************)
(* Proofs about PasswordFile: types and locks for any number of processes  *)
(* that edit the file, and, when one process edits it, what becomes of the *)
(* credentials in it and of the checks of any number of other processes,   *)
(* whoever fails to lock the file and whoever dies at whatever step.       *)
(***************************************************************************)
EXTENDS PasswordFile, FiniteSetTheorems, SequenceTheorems, TLAPS

Line == Credential \union {Hole}
Steps == {"idle", "open", "lock", "prepare", "copy", "move", "closeNew", "abandon",
          "append", "read", "return"}
Locals == [pc : Steps, kind : Kinds, user : Users \union {Idle.user},
           password : Passwords \union {Idle.password}, fd : {"Old", "New", "S"},
           Old : Nat, New : Nat, S : Nat, off : Nat, pos : Nat, out : Seq(Line),
           RetVal : BOOLEAN, added : BOOLEAN, blind : BOOLEAN]

(* The descriptors a call can have at each step, and what it has not begun.*)
Opens(l) ==
    /\ l.pc \in {"copy", "move", "closeNew", "abandon"} => l.fd = "New"
    /\ l.pc \in {"idle", "append", "read"} => l.fd = "S"
    /\ l.pc = "prepare" => l.fd # "Old"
    /\ l.S # None <=> l.fd = "S" /\ l.pc \in {"lock", "prepare", "append", "read"}
    /\ l.Old # None => \/ l.fd = "Old" /\ l.pc = "lock"
                       \/ l.fd = "New" /\ l.pc \in {"open", "lock", "prepare", "copy", "abandon"}
    /\ (l.fd = "Old" /\ l.pc = "lock") \/ l.pc = "copy" => l.Old # None
    /\ l.New # None => l.fd = "New"
                       /\ l.pc \in {"lock", "prepare", "copy", "move", "closeNew", "abandon"}
    /\ l.fd = "New" /\ l.pc \in {"lock", "prepare", "copy", "move", "closeNew"} => l.New # None
Local(l) ==
    /\ l.pc # "idle" => l.user \in Users /\ l.password \in Passwords
    /\ l.pc = "idle" => l = Idle
    /\ l.kind \in {"check", "append"} => l.fd = "S"
    /\ l.kind = "delete" => l.fd # "S"
    /\ l.kind = "check" => l.pc \in {"idle", "open", "lock", "read", "return"}
    /\ l.pc = "read" => l.kind = "check"
    /\ Opens(l)
    /\ l.fd = "Old" => l.pc \in {"open", "lock"}
    /\ Len(l.out) <= BufLines
    /\ l.out # << >> \/ l.pos # 0 => l.pc \in {"copy", "move", "closeNew"}
    /\ l.off # 0 => l.pc \in {"copy", "read"}
    /\ l.added => l.pc = "return" /\ l.kind \in {"add", "append"}
    /\ l.RetVal => l.kind # "append"
    /\ l.RetVal /\ l.kind = "check" => l.pc = "return"
    /\ l.RetVal /\ l.fd # "S" => l.pc \in {"copy", "move", "closeNew", "return"}

(* The descriptors whose files a call can have locked.                     *)
CanHold(l, i) ==
    \/ i = l.Old /\ \/ l.fd = "New" /\ l.pc \in {"open", "lock", "prepare"}
                    \/ l.pc \in {"copy", "abandon"}
    \/ i = l.New /\ \/ l.fd = "New" /\ l.pc = "prepare"
                    \/ l.pc \in {"copy", "move", "closeNew", "abandon"}
    \/ i = l.S /\ l.fd = "S" /\ l.pc \in {"prepare", "append", "read"}

FilesTyped ==
    /\ inode \in Seq(Seq(Line))
    /\ dir \in [{"Path", "Path+"} -> 0 .. Len(inode)]
ProcTyped ==
    /\ proc \in [Procs -> Locals]
    /\ \A p \in Procs : /\ Local(proc[p])
                        /\ proc[p].Old <= Len(inode) /\ proc[p].New <= Len(inode)
                        /\ proc[p].S <= Len(inode)
LocksTyped ==
    \A l \in locks :
        /\ l \in Nat \X Procs \X {"LOCK_EX", "LOCK_SH"}
        /\ l[1] # None /\ CanHold(proc[l[2]], l[1])
Typed ==
    /\ config \in Configs
    /\ FilesTyped /\ ProcTyped /\ LocksTyped
    /\ calls \in [Procs -> Nat] /\ deaths \in Nat
    /\ settled \subseteq Line
    /\ possible \in [Procs -> SUBSET Line] /\ certain \in [Procs -> SUBSET Line]

-----------------------------------------------------------------------------
(* Who is editing: with one editor, at most one process.                   *)
Editing(p) == proc[p].pc # "idle" /\ proc[p].kind # "check"
Roles ==
    \A p \in Procs : proc[p].pc # "idle" =>
        /\ p \in config.editors \union config.readers
        /\ proc[p].kind = "check" <=> p \in config.readers

(* An editor works on the file that Path stands for and on Path+; nobody   *)
(* who reads has Path+, before it is renamed or after it is unlinked.      *)
Replaced(l) == l.pc = "closeNew" /\ l.RetVal
Unlinked(i) == \E q \in Procs : At(q, "closeNew") /\ ~proc[q].RetVal /\ proc[q].New = i
EditorFiles(p) ==
    LET l == proc[p] IN
    /\ l.S # None => l.S = dir["Path"]
    /\ l.Old # None => l.Old = dir["Path"]
    /\ l.New # None /\ l.pc # "closeNew" => l.New = dir["Path+"]
    /\ l.pc = "closeNew" => /\ dir["Path+"] = None
                            /\ l.New = dir["Path"] <=> l.RetVal
ReaderFiles(p) ==
    LET l == proc[p] IN l.S # None => l.S # dir["Path+"] /\ ~Unlinked(l.S)

(* What is in the file when the call of p has done what it has to settled  *)
(* so far, and what its copy has so far.                                   *)
Others(p, lines) == {c \in lines : c[1] # proc[p].user}
Edited(p) ==
    (IF proc[p].RetVal THEN Others(p, settled) ELSE settled)
    \union {c \in {Pair(p)} : proc[p].added}
Copy(p) == ToSet(inode[proc[p].New]) \union ToSet(proc[p].out)
Seen(p) == {inode[proc[p].Old][i] : i \in 1 .. proc[p].off}

EditOK(p) ==
    LET l == proc[p] IN
    /\ l.pc = "closeNew" => l.pos = Len(inode[l.New])
    /\ l.pc = "copy" => /\ l.off <= Len(inode[l.Old]) /\ l.pos = Len(inode[l.New])
                        /\ Copy(p) = Others(p, Seen(p))
    /\ l.pc = "move" => /\ l.pos = Len(inode[l.New])
                        /\ Copy(p) = Others(p, settled)
    /\ Replaced(l) => Copy(p) = Others(p, settled)
    /\ ToSet(Contents) =
         IF Replaced(l) THEN ToSet(inode[l.New])
         ELSE IF l.fd # "S" /\ l.pc \notin {"closeNew", "return"} THEN settled
         ELSE Edited(p)

(* What a check may accept is in possible; what it must not miss is still  *)
(* before it, or in a file that has yet to be written.                     *)
Ahead(l, c) == \E i \in 1 .. Len(inode[l.S]) : i > l.off /\ inode[l.S][i] = c
CheckOK(p) ==
    LET l == proc[p] IN
    /\ May \subseteq possible[p] /\ certain[p] \subseteq Must
    /\ l.S # None => ToSet(inode[l.S]) \subseteq possible[p]
    /\ l.RetVal => Pair(p) \in possible[p]
    /\ l.blind \/ Pair(p) \notin certain[p] \/
         /\ l.pc \in {"lock", "read"} => Ahead(l, Pair(p)) \/ (Unwritten(l.S) /\ l.off = 0)
         /\ l.pc = "return" => l.RetVal

(* At most one process edits, and all goes well.                           *)
InOrder ==
    /\ dir["Path"] = dir["Path+"] => dir["Path"] = None
    /\ \A p, q \in Procs : Editing(p) /\ Editing(q) => p = q
    /\ \A p \in Procs : Editing(p) => EditorFiles(p) /\ EditOK(p)
    /\ (\A p \in Procs : ~Editing(p)) => ToSet(Contents) = settled
    /\ \A p \in Running("check") : ReaderFiles(p) /\ CheckOK(p)

IInv == Typed /\ Roles /\ (OneEditor => InOrder)

-----------------------------------------------------------------------------
(* LEMMAS about types.  What is so of the locals, descriptors and locks of *)
(* one process, when it takes a step and when another does.                *)

LEMMA IdleLocal == Idle \in Locals /\ Local(Idle) /\ \A i : ~CanHold(Idle, i)
BY PasswordAssumption DEF Idle, Locals, Local, Opens, CanHold, Steps, Kinds, None

LEMMA OneSets ==
    ASSUME ProcTyped, NEW p \in Procs, NEW l, Set(p, l)
    PROVE  /\ proc' = [proc EXCEPT ![p] = l]
           /\ proc'[p] = l /\ \A q \in Procs \ {p} : proc'[q] = proc[q]
           /\ proc[p] \in Locals /\ Local(proc[p])
BY DEF ProcTyped, Set

LEMMA SetTyped ==
    ASSUME ProcTyped, FilesTyped, FilesTyped', Len(inode) <= Len(inode'),
           NEW p \in Procs, NEW l \in Locals, Set(p, l), Local(l),
           l.Old <= Len(inode'), l.New <= Len(inode'), l.S <= Len(inode')
    PROVE  ProcTyped'
<1>1. proc' \in [Procs -> Locals] /\ proc'[p] = l /\ \A q \in Procs \ {p} : proc'[q] = proc[q]
  BY DEF ProcTyped, Set
<1>2. Len(inode) \in Nat /\ Len(inode') \in Nat
  BY DEF FilesTyped
<1>3. \A q \in Procs : proc[q].Old \in Nat /\ proc[q].New \in Nat /\ proc[q].S \in Nat
  BY DEF ProcTyped, Locals
<1>4. QED
  BY <1>1, <1>2, <1>3 DEF ProcTyped

LEMMA LocksFewer ==
    ASSUME ProcTyped, LocksTyped, NEW p \in Procs, NEW l, Set(p, l), locks' \subseteq locks,
           \A x \in locks' : x[2] = p => CanHold(l, x[1])
    PROVE  LocksTyped'
BY OneSets DEF LocksTyped

(* The locks that are left are those on another file.                      *)
LEMMA WithoutOne ==
    ASSUME LocksTyped, NEW p \in Procs, NEW i
    PROVE  /\ Without(i, p) \subseteq locks
           /\ \A x \in Without(i, p) :
                x[2] = p => x[1] # None /\ x[1] # i /\ CanHold(proc[p], x[1])
BY DEF Without, LocksTyped

LEMMA QuietTyped ==
    ASSUME Typed, Quiet, FilesTyped', ProcTyped', LocksTyped'
    PROVE  Typed'
BY DEF Typed, Quiet

LEMMA FilesSame ==
    ASSUME FilesTyped, UNCHANGED <<dir, inode>>
    PROVE  FilesTyped' /\ Len(inode) \in Nat /\ Len(inode') = Len(inode)
BY DEF FilesTyped

-----------------------------------------------------------------------------
(* Types, step by step.                                                    *)

LEMMA CloseOldTyped ==
    ASSUME Typed, NEW p \in Procs, CloseOld(p)
    PROVE  Typed'
<1> DEFINE l == [proc[p] EXCEPT !.pc = "move", !.Old = None, !.off = 0]
<1>1. ProcTyped /\ FilesTyped /\ LocksTyped /\ Set(p, l) /\ proc[p].pc = "copy"
      /\ UNCHANGED <<dir, inode>> /\ Quiet /\ locks' = Without(proc[p].Old, p)
  BY DEF Typed, CloseOld, At
<1>2. proc[p] \in Locals /\ Local(proc[p]) /\ proc[p].New <= Len(inode) /\ proc[p].S <= Len(inode)
  BY <1>1 DEF ProcTyped
<1>3. l \in Locals /\ l.pc = "move" /\ l.Old = None /\ l.off = 0
      /\ l.New = proc[p].New /\ l.S = proc[p].S /\ l.fd = proc[p].fd
  BY <1>2 DEF Locals, None, Steps
<1>4. Local(l)
  BY <1>1, <1>2 DEF Local, Opens, Locals
<1>5. FilesTyped' /\ Len(inode) \in Nat /\ Len(inode') = Len(inode)
  BY <1>1, FilesSame
<1>6. \A x \in locks' : x[2] = p => CanHold(l, x[1])
  BY <1>1, <1>2, <1>3, WithoutOne DEF CanHold, Local, Opens
<1> HIDE DEF l
<1>7. ProcTyped'
  BY <1>1, <1>2, <1>3, <1>4, <1>5, SetTyped DEF None
<1>8. LocksTyped'
  BY <1>1, <1>6, WithoutOne, LocksFewer
<1>9. QED
  BY <1>1, <1>5, <1>7, <1>8, QuietTyped

(* A file that was not there is made, and one that was there is written.   *)
LEMMA MadeTyped ==
    ASSUME FilesTyped, inode' = Append(inode, << >>), NEW n \in {"Path", "Path+"},
           dir' = [dir EXCEPT ![n] = Len(inode')]
    PROVE  /\ FilesTyped' /\ Len(inode) \in Nat /\ Len(inode') = Len(inode) + 1
           /\ \A i \in 1 .. Len(inode) : inode'[i] = inode[i]
<1>1. << >> \in Seq(Line)
  OBVIOUS
<1>2. Len(inode) \in Nat /\ inode' \in Seq(Seq(Line)) /\ Len(inode') = Len(inode) + 1
      /\ \A i \in 1 .. Len(inode) : inode'[i] = inode[i]
  BY <1>1, AppendProperties DEF FilesTyped
<1>3. dir' \in [{"Path", "Path+"} -> 0 .. Len(inode')]
  BY <1>2 DEF FilesTyped
<1>4. QED
  BY <1>2, <1>3 DEF FilesTyped

LEMMA WrittenTyped ==
    ASSUME FilesTyped, NEW i \in 1 .. Len(inode), NEW s \in Seq(Line),
           inode' = [inode EXCEPT ![i] = s], UNCHANGED dir
    PROVE  /\ FilesTyped' /\ Len(inode) \in Nat /\ Len(inode') = Len(inode)
           /\ inode'[i] = s /\ \A j \in 1 .. Len(inode) : j # i => inode'[j] = inode[j]
<1>1. Len(inode) \in Nat /\ inode' \in Seq(Seq(Line)) /\ Len(inode') = Len(inode)
      /\ inode'[i] = s /\ \A j \in 1 .. Len(inode) : j # i => inode'[j] = inode[j]
  BY ExceptSeq DEF FilesTyped
<1>2. QED
  BY <1>1 DEF FilesTyped

LEMMA WriteAtTyped ==
    ASSUME NEW s \in Seq(Line), NEW t \in Seq(Line), NEW n \in Nat
    PROVE  /\ WriteAt(s, n, t) \in Seq(Line)
           /\ n = Len(s) => WriteAt(s, n, t) = s \o t
<1> DEFINE k == IF Len(s) > n + Len(t) THEN Len(s) ELSE n + Len(t)
           e == WriteAt(s, n, t)
<1>1. Len(s) \in Nat /\ Len(t) \in Nat /\ k \in Nat
  OBVIOUS
<1>2. e = [i \in 1 .. k |-> IF i > n /\ i <= n + Len(t) THEN t[i - n]
                            ELSE IF i <= Len(s) THEN s[i] ELSE Hole]
  BY DEF WriteAt
<1>3. \A i \in 1 .. k : e[i] \in Line
  <2> SUFFICES ASSUME NEW i \in 1 .. k PROVE e[i] \in Line
    OBVIOUS
  <2>1. Hole \in Line
    BY DEF Line
  <2>2. CASE i > n /\ i <= n + Len(t)
    <3>1. i - n \in 1 .. Len(t)
      BY <1>1, <2>2
    <3>2. e[i] = t[i - n]
      BY <1>2, <2>2
    <3>3. QED
      BY <3>1, <3>2, ElementOfSeq
  <2>3. CASE ~(i > n /\ i <= n + Len(t)) /\ i <= Len(s)
    <3>1. e[i] = s[i] /\ i \in 1 .. Len(s)
      BY <1>1, <1>2, <2>3
    <3>2. QED
      BY <3>1, ElementOfSeq
  <2>4. CASE ~(i > n /\ i <= n + Len(t)) /\ ~(i <= Len(s))
    BY <1>2, <2>1, <2>4
  <2>5. QED
    BY <2>2, <2>3, <2>4
<1>4. e \in [1 .. k -> Line]
  BY <1>2, <1>3
<1>5. e \in Seq(Line)
  BY <1>1, <1>4, SeqDef
<1>6. ASSUME n = Len(s) PROVE e = s \o t
  <2>1. k = Len(s) + Len(t)
    BY <1>1, <1>6
  <2>2. s \o t \in Seq(Line) /\ Len(s \o t) = k /\ Len(e) = k
    BY <1>1, <1>4, <1>5, <2>1, ConcatProperties
  <2>3. \A i \in 1 .. k : e[i] = (s \o t)[i]
    BY <1>1, <1>2, <1>6, <2>1, ConcatProperties
  <2>4. QED
    BY <1>5, <2>2, <2>3, SeqEqual
<1>7. QED
  BY <1>5, <1>6

-----------------------------------------------------------------------------
(* What opening leaves a call with.                                        *)

LEMMA OpenedLocal ==
    ASSUME NEW p \in Procs, proc[p] \in Locals, Local(proc[p]),
           proc[p].pc = "prepare" \/ (proc[p].pc = "lock" /\ ReadOnly(p))
    PROVE  LET l == Opened(p) IN
           /\ l \in Locals /\ Local(l)
           /\ l.Old = proc[p].Old /\ l.New = proc[p].New /\ l.S = proc[p].S
           /\ \A i : CanHold(proc[p], i) \/ i = Inode(p) => CanHold(l, i)
<1> DEFINE l == Opened(p)
<1>1. CASE proc[p].fd = "Old"
  <2>1. l = [proc[p] EXCEPT !.pc = "open", !.fd = "New"]
    BY <1>1 DEF Opened
  <2>2. l \in Locals /\ l.pc = "open" /\ l.fd = "New"
    BY <2>1 DEF Locals, Steps
  <2>3. Local(l)
    BY <1>1, <2>1 DEF Local, Opens, Locals
  <2>4. QED
    BY <1>1, <2>1, <2>2, <2>3 DEF CanHold, Inode, Local, Opens, Locals
<1>2. CASE proc[p].fd = "New"
  <2>1. l = [proc[p] EXCEPT !.pc = IF proc[p].Old = None THEN "abandon" ELSE "copy"]
    BY <1>2 DEF Opened
  <2>2. l \in Locals /\ l.pc = IF proc[p].Old = None THEN "abandon" ELSE "copy"
    BY <2>1 DEF Locals, Steps
  <2>3. proc[p].pc = "prepare"
    BY <1>2 DEF ReadOnly, Local
  <2>4. Local(l)
    BY <1>2, <2>1, <2>3 DEF Local, Opens, Locals
  <2>5. QED
    BY <1>2, <2>1, <2>2, <2>3, <2>4 DEF CanHold, Inode, Local, Opens, Locals
<1>3. CASE proc[p].fd = "S"
  <2>1. l = [proc[p] EXCEPT !.pc = IF proc[p].kind = "check" THEN "read" ELSE "append"]
    BY <1>3 DEF Opened
  <2>2. l \in Locals /\ l.pc = IF proc[p].kind = "check" THEN "read" ELSE "append"
    BY <2>1 DEF Locals, Steps
  <2>3. proc[p].kind = "check" <=> proc[p].pc = "lock"
    BY <1>3 DEF ReadOnly, Local
  <2>4. Local(l)
    BY <1>3, <2>1, <2>3 DEF Local, Opens, Locals
  <2>5. QED
    BY <1>3, <2>1, <2>2, <2>3, <2>4 DEF CanHold, Inode, Local, Opens, Locals
<1>4. QED
  BY <1>1, <1>2, <1>3 DEF Locals

LEMMA NotOpenedLocal ==
    ASSUME NEW p \in Procs, proc[p] \in Locals, Local(proc[p]),
           proc[p].pc = "open" \/ proc[p].pc = "lock" \/ proc[p].pc = "prepare"
    PROVE  LET l == NotOpened(p) IN
           /\ l \in Locals /\ Local(l)
           /\ l.Old \in {None, proc[p].Old} /\ l.New \in {None, proc[p].New}
           /\ l.S \in {None, proc[p].S}
           /\ \A i : CanHold(proc[p], i) /\ (proc[p].pc = "prepare" => i # Inode(p))
                        => CanHold(l, i)
<1> DEFINE l == NotOpened(p)
<1>0. None \in Nat
  BY DEF None
<1>1. CASE proc[p].fd = "Old"
  <2>1. l = [proc[p] EXCEPT !.pc = "open", !.fd = "New", !.Old = None]
    BY <1>1 DEF NotOpened
  <2>2. l \in Locals /\ l.pc = "open" /\ l.fd = "New"
    BY <2>1, <1>0 DEF Locals, Steps
  <2>3. Local(l)
    BY <1>1, <2>1 DEF Local, Opens, Locals
  <2>4. QED
    BY <1>1, <2>1, <2>2, <2>3 DEF CanHold, Inode, Local, Opens, Locals
<1>2. CASE proc[p].fd = "New"
  <2>1. l = [proc[p] EXCEPT !.pc = "abandon", !.New = None]
    BY <1>2 DEF NotOpened
  <2>2. l \in Locals /\ l.pc = "abandon"
    BY <2>1, <1>0 DEF Locals, Steps
  <2>4. Local(l)
    BY <1>2, <2>1 DEF Local, Opens, Locals
  <2>5. QED
    BY <1>2, <2>1, <2>2, <2>4 DEF CanHold, Inode, Local, Opens, Locals
<1>3. CASE proc[p].fd = "S"
  <2>1. l = [proc[p] EXCEPT !.pc = "return", !.S = None, !.blind = TRUE]
    BY <1>3 DEF NotOpened
  <2>2. l \in Locals /\ l.pc = "return"
    BY <2>1, <1>0 DEF Locals, Steps
  <2>4. Local(l)
    BY <1>3, <2>1 DEF Local, Opens, Locals
  <2>5. QED
    BY <1>3, <2>1, <2>2, <2>4 DEF CanHold, Inode, Local, Opens, Locals
<1>4. QED
  BY <1>1, <1>2, <1>3 DEF Locals

LEMMA DescriptorLocal ==
    ASSUME NEW p \in Procs, proc[p] \in Locals, Local(proc[p]), proc[p].pc = "open",
           NEW i \in Nat \ {0}
    PROVE  LET l == Descriptor(p, i) IN
           /\ l \in Locals /\ Local(l)
           /\ l.Old \in {i, proc[p].Old} /\ l.New \in {i, proc[p].New}
           /\ l.S \in {i, proc[p].S}
           /\ \A j : CanHold(proc[p], j) => CanHold(l, j)
<1> DEFINE l == Descriptor(p, i)
<1>1. CASE proc[p].fd = "Old"
  <2>1. l = [proc[p] EXCEPT !.pc = "lock", !.Old = i]
    BY <1>1 DEF Descriptor
  <2>2. l \in Locals /\ l.pc = "lock"
    BY <2>1 DEF Locals, Steps, None
  <2>3. Local(l)
    BY <1>1, <2>1 DEF Local, Opens, Locals, None
  <2>4. QED
    BY <1>1, <2>1, <2>2, <2>3 DEF CanHold, Inode, Local, Opens, Locals
<1>2. CASE proc[p].fd = "New"
  <2>1. l = [proc[p] EXCEPT !.pc = "lock", !.New = i]
    BY <1>2 DEF Descriptor
  <2>2. l \in Locals /\ l.pc = "lock"
    BY <2>1 DEF Locals, Steps, None
  <2>4. Local(l)
    BY <1>2, <2>1 DEF Local, Opens, Locals, None
  <2>5. QED
    BY <1>2, <2>1, <2>2, <2>4 DEF CanHold, Inode, Local, Opens, Locals
<1>3. CASE proc[p].fd = "S"
  <2>1. l = [proc[p] EXCEPT !.pc = "lock", !.S = i]
    BY <1>3 DEF Descriptor
  <2>2. l \in Locals /\ l.pc = "lock"
    BY <2>1 DEF Locals, Steps, None
  <2>4. Local(l)
    BY <1>3, <2>1 DEF Local, Opens, Locals, None
  <2>5. QED
    BY <1>3, <2>1, <2>2, <2>4 DEF CanHold, Inode, Local, Opens, Locals
<1>4. QED
  BY <1>1, <1>2, <1>3 DEF Locals

LEMMA OpenTyped ==
    ASSUME Typed, NEW p \in Procs, Open(p)
    PROVE  Typed'
<1>1. ProcTyped /\ FilesTyped /\ LocksTyped /\ proc[p].pc = "open" /\ Quiet /\ UNCHANGED locks
      /\ Name(p) \in {"Path", "Path+"}
  BY DEF Typed, Open, At, Name
<1>2. /\ proc[p] \in Locals /\ Local(proc[p]) /\ proc[p].New <= Len(inode)
      /\ proc[p].S <= Len(inode) /\ proc[p].Old <= Len(inode) /\ Len(inode) \in Nat
      /\ proc[p].New \in Nat /\ proc[p].Old \in Nat /\ proc[p].S \in Nat
  BY <1>1 DEF ProcTyped, FilesTyped, Locals
<1>3. \A x \in locks' : x[2] = p => CanHold(proc[p], x[1])
  BY <1>1 DEF LocksTyped
<1>4. CASE UNCHANGED <<dir, inode>> /\ Set(p, NotOpened(p))
  <2> DEFINE l == NotOpened(p)
  <2>1. l \in Locals /\ Local(l) /\ l.Old \in {None, proc[p].Old} /\ l.New \in {None, proc[p].New}
        /\ l.S \in {None, proc[p].S} /\ \A i : CanHold(proc[p], i) => CanHold(l, i)
    BY <1>1, <1>2, NotOpenedLocal
  <2>2. FilesTyped' /\ Len(inode') = Len(inode)
    BY <1>1, <1>4, FilesSame
  <2>3. Set(p, l)
    BY <1>4
  <2> HIDE DEF l
  <2>4. ProcTyped'
    BY <1>1, <1>2, <2>1, <2>2, <2>3, SetTyped DEF None
  <2>5. LocksTyped'
    BY <1>1, <1>3, <2>1, <2>3, LocksFewer
  <2>6. QED
    BY <1>1, <2>2, <2>4, <2>5, QuietTyped
<1>5. ASSUME NEW i \in Nat \ {0}, Set(p, Descriptor(p, i)), i <= Len(inode'),
             FilesTyped', Len(inode) <= Len(inode')
      PROVE  Typed'
  <2> DEFINE l == Descriptor(p, i)
  <2>1. l \in Locals /\ Local(l) /\ l.Old \in {i, proc[p].Old} /\ l.New \in {i, proc[p].New}
        /\ l.S \in {i, proc[p].S} /\ \A j : CanHold(proc[p], j) => CanHold(l, j)
    BY <1>1, <1>2, DescriptorLocal
  <2>2. Set(p, l)
    BY <1>5
  <2>3. Len(inode') \in Nat
    BY <1>5 DEF FilesTyped
  <2> HIDE DEF l
  <2>4. ProcTyped'
    BY <1>1, <1>2, <1>5, <2>1, <2>2, <2>3, SetTyped
  <2>5. LocksTyped'
    BY <1>1, <1>3, <2>1, <2>2, LocksFewer
  <2>6. QED
    BY <1>1, <1>5, <2>4, <2>5, QuietTyped
<1>6. CASE dir[Name(p)] # None /\ UNCHANGED <<dir, inode>> /\ Set(p, Descriptor(p, dir[Name(p)]))
  <2>1. dir[Name(p)] \in 0 .. Len(inode)
    BY <1>1 DEF FilesTyped
  <2>2. dir[Name(p)] \in Nat \ {0} /\ dir[Name(p)] <= Len(inode)
    BY <1>2, <1>6, <2>1 DEF None
  <2>3. FilesTyped' /\ Len(inode') = Len(inode)
    BY <1>1, <1>6, FilesSame
  <2>4. QED
    BY <1>2, <1>5, <1>6, <2>2, <2>3
<1>7. CASE /\ inode' = Append(inode, << >>) /\ dir' = [dir EXCEPT ![Name(p)] = Len(inode')]
           /\ Set(p, Descriptor(p, Len(inode')))
  <2>1. FilesTyped' /\ Len(inode') = Len(inode) + 1
    BY <1>1, <1>7, MadeTyped
  <2>2. Len(inode') \in Nat \ {0} /\ Len(inode) <= Len(inode')
    BY <1>2, <2>1
  <2>3. QED
    BY <1>2, <1>5, <1>7, <2>1, <2>2
<1>8. QED
  BY <1>4, <1>6, <1>7 DEF Open

LEMMA FlockTyped ==
    ASSUME Typed, NEW p \in Procs, Flock(p)
    PROVE  Typed'
<1>1. ProcTyped /\ FilesTyped /\ LocksTyped /\ proc[p].pc = "lock" /\ Quiet
      /\ UNCHANGED <<dir, inode>>
  BY DEF Typed, Flock, At
<1>2. /\ proc[p] \in Locals /\ Local(proc[p]) /\ proc[p].New <= Len(inode)
      /\ proc[p].S <= Len(inode) /\ proc[p].Old <= Len(inode) /\ Len(inode) \in Nat
      /\ proc[p].New \in Nat /\ proc[p].Old \in Nat /\ proc[p].S \in Nat
  BY <1>1 DEF ProcTyped, FilesTyped, Locals
<1>3. \A x \in locks : x[2] = p => CanHold(proc[p], x[1])
  BY <1>1 DEF LocksTyped
<1>4. FilesTyped' /\ Len(inode') = Len(inode)
  BY <1>1, FilesSame
<1>5. CASE Set(p, NotOpened(p)) /\ UNCHANGED locks
  <2> DEFINE l == NotOpened(p)
  <2>1. l \in Locals /\ Local(l) /\ l.Old \in {None, proc[p].Old} /\ l.New \in {None, proc[p].New}
        /\ l.S \in {None, proc[p].S} /\ \A i : CanHold(proc[p], i) => CanHold(l, i)
    BY <1>1, <1>2, NotOpenedLocal
  <2>2. Set(p, l)
    BY <1>5
  <2> HIDE DEF l
  <2>3. ProcTyped'
    BY <1>1, <1>2, <1>4, <2>1, <2>2, SetTyped DEF None
  <2>4. LocksTyped'
    BY <1>1, <1>3, <1>5, <2>1, <2>2, LocksFewer
  <2>5. QED
    BY <1>1, <1>4, <2>3, <2>4, QuietTyped
<1>6. CASE /\ locks' = locks \union {<<Inode(p), p, Lock(p)>>}
           /\ Set(p, IF ReadOnly(p) THEN Opened(p) ELSE [proc[p] EXCEPT !.pc = "prepare"])
  <2> DEFINE l == IF ReadOnly(p) THEN Opened(p) ELSE [proc[p] EXCEPT !.pc = "prepare"]
  <2>1. l \in Locals /\ Local(l) /\ l.Old = proc[p].Old /\ l.New = proc[p].New
        /\ l.S = proc[p].S /\ \A i : CanHold(proc[p], i) \/ i = Inode(p) => CanHold(l, i)
    <3>1. CASE ReadOnly(p)
      BY <1>1, <1>2, <3>1, OpenedLocal
    <3>2. CASE ~ReadOnly(p)
      <4>1. l = [proc[p] EXCEPT !.pc = "prepare"]
        BY <3>2
      <4>2. l \in Locals /\ l.pc = "prepare"
        BY <1>2, <4>1 DEF Locals, Steps
      <4>3. Local(l)
        BY <1>1, <1>2, <3>2, <4>1 DEF Local, Opens, Locals, ReadOnly
      <4>4. QED
        BY <1>1, <1>2, <3>2, <4>1, <4>2, <4>3 DEF CanHold, Inode, Local, Opens, Locals, ReadOnly
    <3>3. QED
      BY <3>1, <3>2
  <2>2. Set(p, l)
    BY <1>6
  <2>3. Inode(p) # None /\ Inode(p) \in Nat
    BY <1>1, <1>2 DEF Inode, Local, Opens, Locals
  <2>4. Lock(p) \in {"LOCK_EX", "LOCK_SH"}
    BY DEF Lock
  <2> HIDE DEF l
  <2>5. ProcTyped'
    BY <1>1, <1>2, <1>4, <2>1, <2>2, SetTyped
  <2>6. proc'[p] = l /\ \A q \in Procs \ {p} : proc'[q] = proc[q]
    BY <1>1, <2>2, OneSets
  <2>7. LocksTyped'
    <3> SUFFICES ASSUME NEW x \in locks'
                 PROVE  /\ x \in Nat \X Procs \X {"LOCK_EX", "LOCK_SH"}
                        /\ x[1] # None /\ CanHold(proc'[x[2]], x[1])
      BY DEF LocksTyped
    <3>1. CASE x \in locks
      BY <1>1, <1>3, <2>1, <2>6, <3>1 DEF LocksTyped
    <3>2. CASE x = <<Inode(p), p, Lock(p)>>
      BY <2>1, <2>3, <2>4, <2>6, <3>2
    <3>3. QED
      BY <1>6, <3>1, <3>2
  <2>8. QED
    BY <1>1, <1>4, <2>5, <2>7, QuietTyped
<1>7. QED
  BY <1>5, <1>6 DEF Flock

LEMMA PrepareTyped ==
    ASSUME Typed, NEW p \in Procs, Prepare(p)
    PROVE  Typed'
<1>1. ProcTyped /\ FilesTyped /\ LocksTyped /\ proc[p].pc = "prepare" /\ Quiet
      /\ UNCHANGED dir
  BY DEF Typed, Prepare, At
<1>2. /\ proc[p] \in Locals /\ Local(proc[p]) /\ proc[p].New <= Len(inode)
      /\ proc[p].S <= Len(inode) /\ proc[p].Old <= Len(inode) /\ Len(inode) \in Nat
      /\ proc[p].New \in Nat /\ proc[p].Old \in Nat /\ proc[p].S \in Nat
  BY <1>1 DEF ProcTyped, FilesTyped, Locals
<1>3. \A x \in locks : x[2] = p => CanHold(proc[p], x[1])
  BY <1>1 DEF LocksTyped
<1>4. CASE UNCHANGED inode /\ locks' = Without(Inode(p), p) /\ Set(p, NotOpened(p))
  <2> DEFINE l == NotOpened(p)
  <2>1. l \in Locals /\ Local(l) /\ l.Old \in {None, proc[p].Old} /\ l.New \in {None, proc[p].New}
        /\ l.S \in {None, proc[p].S}
        /\ \A i : CanHold(proc[p], i) /\ i # Inode(p) => CanHold(l, i)
    BY <1>1, <1>2, NotOpenedLocal
  <2>2. Set(p, l)
    BY <1>4
  <2> HIDE DEF l
  <2>3. FilesTyped' /\ Len(inode') = Len(inode)
    BY <1>1, <1>4, FilesSame
  <2>4. ProcTyped'
    BY <1>1, <1>2, <2>1, <2>2, <2>3, SetTyped DEF None
  <2>5. LocksTyped'
    BY <1>1, <1>4, <2>1, <2>2, WithoutOne, LocksFewer
  <2>6. QED
    BY <1>1, <2>3, <2>4, <2>5, QuietTyped
<1>5. CASE /\ inode' = IF proc[p].fd = "New" THEN [inode EXCEPT ![Inode(p)] = << >>] ELSE inode
           /\ Set(p, Opened(p)) /\ UNCHANGED locks
  <2> DEFINE l == Opened(p)
  <2>1. l \in Locals /\ Local(l) /\ l.Old = proc[p].Old /\ l.New = proc[p].New
        /\ l.S = proc[p].S /\ \A i : CanHold(proc[p], i) => CanHold(l, i)
    BY <1>1, <1>2, OpenedLocal
  <2>2. Set(p, l)
    BY <1>5
  <2> HIDE DEF l
  <2>3. Inode(p) \in 1 .. Len(inode)
    BY <1>1, <1>2 DEF Inode, Local, Opens, Locals, None
  <2>4. FilesTyped' /\ Len(inode') = Len(inode)
    <3>1. CASE proc[p].fd = "New"
      <4>1. inode' = [inode EXCEPT ![Inode(p)] = << >>] /\ << >> \in Seq(Line)
        BY <1>5, <3>1
      <4>2. QED
        BY <1>1, <2>3, <4>1, WrittenTyped
    <3>2. CASE proc[p].fd # "New"
      BY <1>1, <1>5, <3>2, FilesSame
    <3>3. QED
      BY <3>1, <3>2
  <2>5. ProcTyped'
    BY <1>1, <1>2, <2>1, <2>2, <2>4, SetTyped
  <2>6. LocksTyped'
    BY <1>1, <1>3, <1>5, <2>1, <2>2, LocksFewer
  <2>7. QED
    BY <1>1, <2>4, <2>5, <2>6, QuietTyped
<1>6. QED
  BY <1>4, <1>5 DEF Prepare

LEMMA CopyLineTyped ==
    ASSUME Typed, NEW p \in Procs, CopyLine(p)
    PROVE  Typed'
<1> DEFINE line == inode[proc[p].Old][proc[p].off + 1]
           l == IF line[1] = proc[p].user
                THEN [proc[p] EXCEPT !.off = @ + 1, !.RetVal = TRUE]
                ELSE [proc[p] EXCEPT !.off = @ + 1, !.out = Append(@, line)]
<1>1. ProcTyped /\ FilesTyped /\ LocksTyped /\ proc[p].pc = "copy" /\ Quiet
      /\ UNCHANGED files /\ Set(p, l) /\ Len(proc[p].out) < BufLines
      /\ proc[p].off < Len(inode[proc[p].Old])
  BY DEF Typed, CopyLine, At
<1>2. /\ proc[p] \in Locals /\ Local(proc[p]) /\ proc[p].New <= Len(inode)
      /\ proc[p].S <= Len(inode) /\ proc[p].Old <= Len(inode) /\ Len(inode) \in Nat
      /\ proc[p].New \in Nat /\ proc[p].Old \in Nat /\ proc[p].S \in Nat
      /\ proc[p].off \in Nat /\ proc[p].out \in Seq(Line)
  BY <1>1 DEF ProcTyped, FilesTyped, Locals
<1>3. \A x \in locks : x[2] = p => CanHold(proc[p], x[1])
  BY <1>1 DEF LocksTyped
<1>4. FilesTyped' /\ Len(inode') = Len(inode)
  BY <1>1, FilesSame DEF files
<1>5. line \in Line
  <2>1. proc[p].Old \in 1 .. Len(inode)
    BY <1>1, <1>2 DEF Local, Opens, None
  <2>2. inode[proc[p].Old] \in Seq(Line)
    BY <1>1, <2>1, ElementOfSeq DEF FilesTyped
  <2>3. proc[p].off + 1 \in 1 .. Len(inode[proc[p].Old])
    BY <1>1, <1>2, <2>2
  <2>4. QED
    BY <2>2, <2>3, ElementOfSeq
<1> HIDE DEF line
<1>6. /\ l \in Locals /\ l.Old = proc[p].Old /\ l.New = proc[p].New /\ l.S = proc[p].S
      /\ l.pc = "copy" /\ l.fd = proc[p].fd /\ Local(l)
  <2>1. Append(proc[p].out, line) \in Seq(Line)
        /\ Len(Append(proc[p].out, line)) = Len(proc[p].out) + 1
    BY <1>2, <1>5, AppendProperties
  <2>2. proc[p].off + 1 \in Nat /\ BufLines \in Nat /\ Len(proc[p].out) \in Nat
    BY <1>2, PasswordAssumption
  <2>3. CASE line[1] = proc[p].user
    <3>1. l = [proc[p] EXCEPT !.off = @ + 1, !.RetVal = TRUE]
      BY <2>3
    <3>2. l \in Locals
      BY <1>2, <2>2, <3>1 DEF Locals
    <3>3. Local(l)
      BY <1>1, <1>2, <3>1 DEF Local, Opens, Locals
    <3>4. QED
      BY <1>1, <1>2, <3>1, <3>2, <3>3 DEF Locals
  <2>4. CASE line[1] # proc[p].user
    <3>1. l = [proc[p] EXCEPT !.off = @ + 1, !.out = Append(@, line)]
      BY <2>4
    <3>2. l \in Locals
      BY <1>2, <2>1, <2>2, <3>1 DEF Locals
    <3>3. l.out = Append(proc[p].out, line)
      BY <1>2, <3>1 DEF Locals
    <3>4. Len(l.out) <= BufLines
      BY <1>1, <2>1, <2>2, <3>3
    <3>5. Local(l)
      BY <1>1, <1>2, <3>1, <3>4 DEF Local, Opens, Locals
    <3>6. QED
      BY <1>1, <1>2, <3>1, <3>2, <3>5 DEF Locals
  <2>5. QED
    BY <2>3, <2>4
<1> HIDE DEF l
<1>7. \A i : CanHold(proc[p], i) => CanHold(l, i)
  BY <1>1, <1>6 DEF CanHold
<1>8. ProcTyped'
  BY <1>1, <1>2, <1>4, <1>6, SetTyped
<1>9. LocksTyped'
  BY <1>1, <1>3, <1>7, LocksFewer DEF files
<1>10. QED
  BY <1>1, <1>4, <1>8, <1>9, QuietTyped

(* What is written to New goes to the position of its descriptor.          *)
LEMMA PushTyped ==
    ASSUME Typed, NEW p \in Procs, PushNew(p), UNCHANGED dir, proc[p].New # None
    PROVE  /\ FilesTyped' /\ Len(inode') = Len(inode)
           /\ proc[p].New \in 1 .. Len(inode)
           /\ \A j \in 1 .. Len(inode) : j # proc[p].New => inode'[j] = inode[j]
           /\ inode'[proc[p].New] = WriteAt(inode[proc[p].New], proc[p].pos, proc[p].out)
<1>1. FilesTyped /\ proc[p] \in Locals /\ proc[p].New <= Len(inode)
  BY DEF Typed, ProcTyped
<1>2. proc[p].New \in 1 .. Len(inode) /\ proc[p].pos \in Nat /\ proc[p].out \in Seq(Line)
  BY <1>1 DEF Locals, FilesTyped, None
<1>3. inode[proc[p].New] \in Seq(Line)
  BY <1>1, <1>2, ElementOfSeq DEF FilesTyped
<1> DEFINE s == WriteAt(inode[proc[p].New], proc[p].pos, proc[p].out)
<1>4. s \in Seq(Line)
  BY <1>2, <1>3, WriteAtTyped
<1>5. inode' = [inode EXCEPT ![proc[p].New] = s]
  BY DEF PushNew
<1> HIDE DEF s
<1>6. QED
  BY <1>1, <1>2, <1>4, <1>5, WrittenTyped DEF s

LEMMA CopyPushTyped ==
    ASSUME Typed, NEW p \in Procs, CopyPush(p)
    PROVE  Typed'
<1> DEFINE l == [proc[p] EXCEPT !.pos = @ + BufLines, !.out = << >>]
<1>1. ProcTyped /\ FilesTyped /\ LocksTyped /\ Set(p, l) /\ proc[p].pc = "copy"
      /\ UNCHANGED dir /\ Quiet /\ PushNew(p) /\ locks' = Without(proc[p].New, p)
  BY DEF Typed, CopyPush, At, PushNew
<1>2. /\ proc[p] \in Locals /\ Local(proc[p]) /\ proc[p].New <= Len(inode)
      /\ proc[p].S <= Len(inode) /\ proc[p].Old <= Len(inode) /\ Len(inode) \in Nat
      /\ proc[p].New \in Nat /\ proc[p].Old \in Nat /\ proc[p].S \in Nat
  BY <1>1 DEF ProcTyped, FilesTyped, Locals
<1>3. l \in Locals
  <2>1. proc[p].pos + BufLines \in Nat /\ << >> \in Seq(Line)
    BY <1>2, PasswordAssumption DEF Locals
  <2>2. QED
    BY <1>2, <2>1 DEF Locals
<1>4. Local(l) /\ l.pc = "copy" /\ l.Old = proc[p].Old /\ l.New = proc[p].New
      /\ l.S = proc[p].S /\ l.fd = proc[p].fd
  <2>1. Len(<< >>) <= BufLines
    BY PasswordAssumption
  <2>2. QED
    BY <1>1, <1>2, <2>1 DEF Local, Opens, Locals
<1>5. FilesTyped' /\ Len(inode') = Len(inode)
  BY <1>1, <1>2, PushTyped DEF Local, Opens
<1>6. \A x \in locks' : x[2] = p => CanHold(l, x[1])
  BY <1>1, <1>2, <1>4, WithoutOne DEF CanHold
<1> HIDE DEF l
<1>7. ProcTyped'
  BY <1>1, <1>2, <1>3, <1>4, <1>5, SetTyped
<1>8. LocksTyped'
  BY <1>1, <1>6, WithoutOne, LocksFewer
<1>9. QED
  BY <1>1, <1>5, <1>7, <1>8, QuietTyped

LEMMA MoveTyped ==
    ASSUME Typed, NEW p \in Procs, Move(p)
    PROVE  Typed'
<1>1. ProcTyped /\ FilesTyped /\ LocksTyped /\ proc[p].pc = "move"
      /\ UNCHANGED <<inode, locks>> /\ Quiet
  BY DEF Typed, Move, At
<1>2. /\ proc[p] \in Locals /\ Local(proc[p]) /\ proc[p].New <= Len(inode)
      /\ proc[p].S <= Len(inode) /\ proc[p].Old <= Len(inode) /\ Len(inode) \in Nat
      /\ proc[p].New \in Nat /\ proc[p].Old \in Nat /\ proc[p].S \in Nat
  BY <1>1 DEF ProcTyped, FilesTyped, Locals
<1>3. \A x \in locks : x[2] = p => CanHold(proc[p], x[1])
  BY <1>1 DEF LocksTyped
<1>4. FilesTyped' /\ Len(inode') = Len(inode)
  <2>1. dir' \in [{"Path", "Path+"} -> 0 .. Len(inode)]
    BY <1>1, <1>2 DEF Move, FilesTyped, None
  <2>2. QED
    BY <1>1, <2>1 DEF FilesTyped
<1>5. PICK r \in {proc[p].RetVal, FALSE} :
        Set(p, [proc[p] EXCEPT !.pc = "closeNew", !.RetVal = r])
  <2>1. CASE Set(p, [proc[p] EXCEPT !.pc = "closeNew"])
    <3>1. [proc[p] EXCEPT !.pc = "closeNew"]
          = [proc[p] EXCEPT !.pc = "closeNew", !.RetVal = proc[p].RetVal]
      BY <1>2 DEF Locals
    <3>2. QED
      BY <2>1, <3>1
  <2>2. CASE Set(p, [proc[p] EXCEPT !.pc = "closeNew", !.RetVal = FALSE])
    BY <2>2
  <2>3. QED
    BY <2>1, <2>2 DEF Move
<1> DEFINE l == [proc[p] EXCEPT !.pc = "closeNew", !.RetVal = r]
<1>6. l \in Locals /\ l.pc = "closeNew" /\ l.Old = proc[p].Old /\ l.New = proc[p].New
      /\ l.S = proc[p].S /\ l.fd = proc[p].fd
  BY <1>2 DEF Locals, Steps
<1>7. Local(l)
  BY <1>1, <1>2 DEF Local, Opens, Locals
<1>8. \A x \in locks' : x[2] = p => CanHold(l, x[1])
  BY <1>1, <1>3, <1>6 DEF CanHold
<1>9. Set(p, l)
  BY <1>5
<1> HIDE DEF l
<1>10. ProcTyped'
  BY <1>1, <1>2, <1>4, <1>6, <1>7, <1>9, SetTyped
<1>11. LocksTyped'
  BY <1>1, <1>8, <1>9, LocksFewer
<1>12. QED
  BY <1>1, <1>4, <1>10, <1>11, QuietTyped

LEMMA AfterDeleteLocal ==
    ASSUME NEW p \in Procs, proc[p] \in Locals, Local(proc[p]),
           proc[p].pc \in {"closeNew", "abandon"}
    PROVE  LET l == [AfterDelete(p) EXCEPT !.Old = None, !.New = None, !.pos = 0,
                                           !.out = << >>] IN
           /\ l \in Locals /\ Local(l)
           /\ l.Old = None /\ l.New = None /\ l.S = proc[p].S
<1> DEFINE a == AfterDelete(p)
           l == [a EXCEPT !.Old = None, !.New = None, !.pos = 0, !.out = << >>]
<1>1. None \in Nat /\ 0 \in Nat /\ << >> \in Seq(Line) /\ Len(<< >>) <= BufLines
  BY PasswordAssumption DEF None
<1>2. CASE proc[p].kind = "add"
  <2>1. a = [proc[p] EXCEPT !.pc = "open", !.fd = "S"]
    BY <1>2 DEF AfterDelete
  <2>2. a \in Locals
    BY <2>1 DEF Locals, Steps
  <2>3. l \in Locals
    BY <1>1, <2>2 DEF Locals
  <2>4. Local(l)
    BY <1>1, <1>2, <2>1, <2>2 DEF Local, Opens, Locals
  <2>5. QED
    BY <2>1, <2>2, <2>3, <2>4 DEF Locals
<1>3. CASE proc[p].kind # "add"
  <2>1. a = [proc[p] EXCEPT !.pc = "return", !.fd = @]
    BY <1>3 DEF AfterDelete
  <2>2. a \in Locals
    BY <2>1 DEF Locals, Steps
  <2>3. l \in Locals
    BY <1>1, <2>2 DEF Locals
  <2>4. Local(l)
    BY <1>1, <1>3, <2>1, <2>2 DEF Local, Opens, Locals
  <2>5. QED
    BY <2>1, <2>2, <2>3, <2>4 DEF Locals
<1>4. QED
  BY <1>2, <1>3

(* The fields that were already so may be written.                         *)
LEMMA CloseNewSets ==
    ASSUME NEW p \in Procs, proc[p] \in Locals, Local(proc[p]), CloseNew(p)
    PROVE  Set(p, [AfterDelete(p) EXCEPT !.Old = None, !.New = None, !.pos = 0,
                                         !.out = << >>])
<1> DEFINE a == AfterDelete(p)
<1>1. proc[p].pc = "closeNew" /\ Set(p, [a EXCEPT !.New = None, !.pos = 0, !.out = << >>])
  BY DEF CloseNew, At
<1>2. a \in Locals /\ a.Old = None
  BY <1>1 DEF AfterDelete, Locals, Local, Opens, Steps
<1>3. [a EXCEPT !.Old = None, !.New = None, !.pos = 0, !.out = << >>]
      = [a EXCEPT !.New = None, !.pos = 0, !.out = << >>]
  BY <1>2 DEF Locals
<1>4. QED
  BY <1>1, <1>3

LEMMA AbandonSets ==
    ASSUME NEW p \in Procs, proc[p] \in Locals, Local(proc[p]), Abandon(p)
    PROVE  Set(p, [AfterDelete(p) EXCEPT !.Old = None, !.New = None, !.pos = 0,
                                         !.out = << >>])
<1> DEFINE a == AfterDelete(p)
<1>1. proc[p].pc = "abandon" /\ Set(p, [a EXCEPT !.Old = None, !.New = None])
  BY DEF Abandon, At
<1>2. a \in Locals /\ a.pos = 0 /\ a.out = << >>
  BY <1>1 DEF AfterDelete, Locals, Local, Opens, Steps
<1>3. [a EXCEPT !.Old = None, !.New = None, !.pos = 0, !.out = << >>]
      = [a EXCEPT !.Old = None, !.New = None]
  BY <1>2 DEF Locals
<1>4. QED
  BY <1>1, <1>3

LEMMA CloseNewTyped ==
    ASSUME Typed, NEW p \in Procs, CloseNew(p)
    PROVE  Typed'
<1> DEFINE l == [AfterDelete(p) EXCEPT !.Old = None, !.New = None, !.pos = 0, !.out = << >>]
<1>1. ProcTyped /\ FilesTyped /\ LocksTyped /\ proc[p].pc = "closeNew"
      /\ UNCHANGED dir /\ Quiet /\ locks' = Without(proc[p].New, p)
  BY DEF Typed, CloseNew, At, PushNew
<1>2. /\ proc[p] \in Locals /\ Local(proc[p]) /\ proc[p].S <= Len(inode) /\ Len(inode) \in Nat
  BY <1>1 DEF ProcTyped, FilesTyped, Locals
<1>3. l \in Locals /\ Local(l) /\ l.Old = None /\ l.New = None /\ l.S = proc[p].S
  BY <1>1, <1>2, AfterDeleteLocal
<1>4. Set(p, l)
  BY <1>2, CloseNewSets
<1>5. FilesTyped' /\ Len(inode') = Len(inode)
  <2>1. CASE PushNew(p)
    BY <1>1, <1>2, <2>1, PushTyped DEF Local, Opens
  <2>2. CASE UNCHANGED inode
    BY <1>1, <2>2, FilesSame
  <2>3. QED
    BY <2>1, <2>2 DEF CloseNew
<1>6. \A x \in locks' : x[2] # p
  BY <1>1, WithoutOne DEF CanHold
<1> HIDE DEF l
<1>7. ProcTyped'
  BY <1>1, <1>2, <1>3, <1>4, <1>5, SetTyped DEF None
<1>8. LocksTyped'
  BY <1>1, <1>4, <1>6, WithoutOne, LocksFewer
<1>9. QED
  BY <1>1, <1>5, <1>7, <1>8, QuietTyped

LEMMA AbandonTyped ==
    ASSUME Typed, NEW p \in Procs, Abandon(p)
    PROVE  Typed'
<1> DEFINE l == [AfterDelete(p) EXCEPT !.Old = None, !.New = None, !.pos = 0, !.out = << >>]
<1>1. ProcTyped /\ FilesTyped /\ LocksTyped /\ proc[p].pc = "abandon"
      /\ UNCHANGED <<dir, inode>> /\ Quiet
      /\ locks' = Without(proc[p].Old, p) \intersect Without(proc[p].New, p)
  BY DEF Typed, Abandon, At
<1>2. /\ proc[p] \in Locals /\ Local(proc[p]) /\ proc[p].S <= Len(inode) /\ Len(inode) \in Nat
  BY <1>1 DEF ProcTyped, FilesTyped, Locals
<1>3. l \in Locals /\ Local(l) /\ l.Old = None /\ l.New = None /\ l.S = proc[p].S
  BY <1>1, <1>2, AfterDeleteLocal
<1>4. Set(p, l)
  BY <1>2, AbandonSets
<1>5. FilesTyped' /\ Len(inode') = Len(inode)
  BY <1>1, FilesSame
<1>6. \A x \in locks' : x[2] # p
  BY <1>1, WithoutOne DEF CanHold
<1> HIDE DEF l
<1>7. ProcTyped'
  BY <1>1, <1>2, <1>3, <1>4, <1>5, SetTyped DEF None
<1>8. LocksTyped'
  BY <1>1, <1>4, <1>6, WithoutOne, LocksFewer
<1>9. QED
  BY <1>1, <1>5, <1>7, <1>8, QuietTyped

LEMMA AppendLineTyped ==
    ASSUME Typed, NEW p \in Procs, AppendLine(p)
    PROVE  Typed'
<1> DEFINE l == [proc[p] EXCEPT !.pc = "return", !.S = None, !.added = TRUE]
<1>1. ProcTyped /\ FilesTyped /\ LocksTyped /\ proc[p].pc = "append" /\ Set(p, l)
      /\ UNCHANGED dir /\ Quiet /\ locks' = Without(proc[p].S, p)
      /\ inode' = [inode EXCEPT ![proc[p].S] = Append(@, Pair(p))]
  BY DEF Typed, AppendLine, At
<1>2. /\ proc[p] \in Locals /\ Local(proc[p]) /\ Len(inode) \in Nat
      /\ proc[p].New <= Len(inode) /\ proc[p].Old <= Len(inode) /\ proc[p].S <= Len(inode)
      /\ proc[p].S \in Nat /\ None \in Nat
  BY <1>1 DEF ProcTyped, FilesTyped, Locals, None
<1>3. l \in Locals /\ l.S = None /\ l.Old = proc[p].Old /\ l.New = proc[p].New
  BY <1>2 DEF Locals, Steps
<1>4. Local(l)
  BY <1>1, <1>2 DEF Local, Opens, Locals, Kinds
<1>5. FilesTyped' /\ Len(inode') = Len(inode)
  <2>1. proc[p].S \in 1 .. Len(inode)
    BY <1>1, <1>2 DEF Local, Opens, None
  <2>2. Pair(p) \in Line
    BY <1>1, <1>2 DEF Pair, Line, Credential, Local
  <2>3. inode[proc[p].S] \in Seq(Line)
    BY <1>1, <2>1, ElementOfSeq DEF FilesTyped
  <2>4. Append(inode[proc[p].S], Pair(p)) \in Seq(Line)
    BY <2>2, <2>3, AppendProperties
  <2>5. QED
    BY <1>1, <2>1, <2>4, WrittenTyped
<1>6. \A x \in locks' : x[2] # p
  BY <1>1, <1>2, WithoutOne DEF CanHold, Local
<1> HIDE DEF l
<1>7. ProcTyped'
  BY <1>1, <1>2, <1>3, <1>4, <1>5, SetTyped DEF None
<1>8. LocksTyped'
  BY <1>1, <1>6, WithoutOne, LocksFewer
<1>9. QED
  BY <1>1, <1>5, <1>7, <1>8, QuietTyped

LEMMA ReadTyped ==
    ASSUME Typed, NEW p \in Procs, Read(p)
    PROVE  Typed'
<1> DEFINE S == proc[p].S
           file == inode[S]
           lines == SubSeq(file, proc[p].off + 1,
                           IF Len(file) > proc[p].off + BufLines
                           THEN proc[p].off + BufLines ELSE Len(file))
           match == \E i \in DOMAIN lines : PasswordFileMatchItem(p, lines[i])
           r == [proc[p] EXCEPT !.pc = "return", !.RetVal = match, !.S = None,
                                !.off = 0, !.blind = @ \/ Unwritten(S)]
           m == [proc[p] EXCEPT !.off = More(p, lines), !.blind = @ \/ Unwritten(S)]
           l == IF match \/ lines = << >> THEN r ELSE m
<1>1. ProcTyped /\ FilesTyped /\ LocksTyped /\ proc[p].pc = "read" /\ Set(p, l)
      /\ UNCHANGED <<dir, inode>> /\ Quiet /\ locks' = Without(S, p)
  BY DEF Typed, Read, At
<1>2. /\ proc[p] \in Locals /\ Local(proc[p]) /\ Len(inode) \in Nat
      /\ proc[p].New <= Len(inode) /\ proc[p].Old <= Len(inode) /\ proc[p].S <= Len(inode)
      /\ proc[p].S \in Nat /\ None \in Nat /\ proc[p].off \in Nat
      /\ proc[p].kind = "check"
  <2>1. /\ proc[p] \in Locals /\ Local(proc[p]) /\ Len(inode) \in Nat /\ None \in Nat
        /\ proc[p].New <= Len(inode) /\ proc[p].Old <= Len(inode) /\ proc[p].S <= Len(inode)
    BY <1>1 DEF ProcTyped, FilesTyped, None
  <2>2. proc[p].S \in Nat /\ proc[p].off \in Nat
    BY <2>1 DEF Locals
  <2>3. proc[p].kind = "check"
    BY <1>1, <2>1 DEF Local
  <2>4. QED
    BY <2>1, <2>2, <2>3
<1>3. More(p, lines) \in Nat
  <2>1. S \in 1 .. Len(inode)
    BY <1>1, <1>2 DEF Local, Opens, None
  <2>2. file \in Seq(Line)
    BY <1>1, <2>1, ElementOfSeq DEF FilesTyped
  <2>3. lines \in Seq(Line)
    <3> DEFINE n == IF Len(file) > proc[p].off + BufLines
                    THEN proc[p].off + BufLines ELSE Len(file)
    <3>1. proc[p].off + 1 \in Int /\ n \in Int /\ n <= Len(file) /\ Len(file) \in Nat
      BY <1>2, <2>2, PasswordAssumption
    <3>2. \A i \in proc[p].off + 1 .. n : file[i] \in Line
      BY <1>2, <2>2, <3>1, ElementOfSeq
    <3> HIDE DEF n
    <3>3. SubSeq(file, proc[p].off + 1, n) \in Seq(Line)
      BY <3>1, <3>2, SubSeqProperties
    <3>4. QED
      BY <3>3 DEF n
  <2> HIDE DEF lines
  <2>4. Len(lines) \in Nat
    BY <2>3
  <2>5. QED
    BY <1>2, <2>4 DEF More
<1> HIDE DEF lines
<1>4. match \in BOOLEAN /\ (proc[p].blind \/ Unwritten(S)) \in BOOLEAN
  OBVIOUS
<1> HIDE DEF match
<1>5. l \in Locals /\ Local(l) /\ l.Old = proc[p].Old /\ l.New = proc[p].New
      /\ l.S \in {None, S}
      /\ \A i : i # S => ~CanHold(proc[p], i)
  <2>1. CASE match \/ lines = << >>
    <3>1. l = r
      BY <2>1
    <3>2. r \in Locals
      BY <1>2, <1>4 DEF Locals, Steps
    <3>3. Local(r)
      BY <1>1, <1>2 DEF Local, Opens, Locals
    <3>4. r.pc = "return" /\ r.Old = proc[p].Old /\ r.New = proc[p].New /\ r.S = None
      BY <1>2 DEF Locals
    <3>5. \A i : i # S => ~CanHold(proc[p], i)
      BY <1>1, <1>2 DEF CanHold, Local
    <3>6. QED
      BY <3>1, <3>2, <3>3, <3>4, <3>5
  <2>2. CASE ~(match \/ lines = << >>)
    <3>1. l = m
      BY <2>2
    <3>2. m \in Locals
      BY <1>2, <1>3, <1>4 DEF Locals
    <3>3. Local(m)
      BY <1>1, <1>2 DEF Local, Opens, Locals
    <3>4. QED
      BY <1>1, <1>2, <3>1, <3>2, <3>3 DEF Locals, CanHold, Local
  <2>3. QED
    BY <2>1, <2>2
<1> HIDE DEF l
<1>6. FilesTyped' /\ Len(inode') = Len(inode)
  BY <1>1, FilesSame
<1>7. \A x \in locks' : x[2] # p
  BY <1>1, <1>5, WithoutOne
<1>8. ProcTyped'
  BY <1>1, <1>2, <1>5, <1>6, SetTyped DEF None
<1>9. LocksTyped'
  BY <1>1, <1>7, WithoutOne, LocksFewer
<1>10. QED
  BY <1>1, <1>6, <1>8, <1>9, QuietTyped

-----------------------------------------------------------------------------
(* Calls, returns and deaths.                                              *)

LEMMA SettledTyped ==
    ASSUME Typed
    PROVE  /\ ToSet(Contents) \subseteq Line
           /\ May \subseteq Line /\ Must \subseteq Line
<1>1. ToSet(Contents) \subseteq Line
  <2>1. CASE dir["Path"] = None
    <3>1. Contents = << >>
      BY <2>1 DEF Contents
    <3>2. ToSet(<< >>) = {}
      BY EmptySeq DEF ToSet
    <3>3. QED
      BY <3>1, <3>2
  <2>2. CASE dir["Path"] # None
    <3>1. dir["Path"] \in 1 .. Len(inode)
      BY <2>2 DEF Typed, FilesTyped, None
    <3>2. Contents \in Seq(Line)
      BY <2>2, <3>1, ElementOfSeq DEF Contents, Typed, FilesTyped
    <3>3. QED
      BY <3>2, ElementOfSeq, LenProperties DEF ToSet
  <2>3. QED
    BY <2>1, <2>2
<1>2. \A p \in Running("add") \union Running("append") : Pair(p) \in Line
  BY DEF Running, Typed, ProcTyped, Local, Pair, Line, Credential
<1>3. QED
  BY <1>1, <1>2 DEF May, Must, Typed

LEMMA WatchTyped ==
    ASSUME Typed, ProcTyped', settled' \subseteq Line, Watch
    PROVE  possible' \in [Procs -> SUBSET Line] /\ certain' \in [Procs -> SUBSET Line]
<1>1. \A p \in (Running("add") \union Running("append"))' : Pair(p)' \in Line
  BY DEF Running, ProcTyped, Local, Pair, Line, Credential
<1>2. May' \subseteq Line
  BY <1>1 DEF May, Line
<1>3. Must' \subseteq Line
  BY DEF Must
<1>4. possible \in [Procs -> SUBSET Line] /\ certain \in [Procs -> SUBSET Line]
  BY DEF Typed
<1> DEFINE checks == Running("check")'
           y == May'
           t == Must'
<1>5. possible' = [p \in Procs |-> IF p \in checks THEN possible[p] \union y ELSE {}]
      /\ certain' = [p \in Procs |->
            IF p \notin checks THEN {}
            ELSE IF At(p, "idle") THEN t ELSE certain[p] \intersect t]
  BY DEF Watch
<1>6. y \subseteq Line /\ t \subseteq Line
  BY <1>2, <1>3
<1> HIDE DEF y, t, checks
<1>7. QED
  BY <1>4, <1>5, <1>6

LEMMA ReturnTyped ==
    ASSUME Typed, NEW p \in Procs, Return(p)
    PROVE  Typed'
<1>1. ProcTyped /\ FilesTyped /\ LocksTyped /\ proc[p].pc = "return" /\ Set(p, Idle)
      /\ UNCHANGED <<config, dir, inode, locks, calls, deaths>> /\ Watch
  BY DEF Typed, Return, At
<1>2. FilesTyped' /\ Len(inode') = Len(inode) /\ Len(inode) \in Nat
  BY <1>1, FilesSame
<1>3. ProcTyped'
  BY <1>1, <1>2, IdleLocal, SetTyped DEF Idle, None
<1>4. \A x \in locks : x[2] # p
  BY <1>1 DEF LocksTyped, CanHold
<1>5. LocksTyped'
  BY <1>1, <1>4, LocksFewer
<1>6. settled' \subseteq Line
  <2>1. Pair(p) \in Line
    BY <1>1 DEF ProcTyped, Local, Pair, Line, Credential
  <2>2. settled \subseteq Line
    BY DEF Typed
  <2>3. CASE proc[p].kind = "check"
    BY <2>2, <2>3 DEF Return
  <2>4. CASE proc[p].kind # "check"
    <3>1. settled' = {c \in settled : proc[p].RetVal => c[1] # proc[p].user}
                     \union {c \in {Pair(p)} : proc[p].added}
      BY <2>4 DEF Return
    <3>2. QED
      BY <2>1, <2>2, <3>1
  <2>5. QED
    BY <2>3, <2>4
<1>7. QED
  BY <1>1, <1>2, <1>3, <1>5, <1>6, WatchTyped DEF Typed

LEMMA DieTyped ==
    ASSUME Typed, NEW p \in Procs, Die(p)
    PROVE  Typed'
<1>1. ProcTyped /\ FilesTyped /\ LocksTyped /\ Set(p, Idle)
      /\ UNCHANGED <<config, dir, inode, calls>> /\ Watch
      /\ locks' = {l \in locks : l[2] # p}
  BY DEF Typed, Die
<1>2. FilesTyped' /\ Len(inode') = Len(inode) /\ Len(inode) \in Nat
  BY <1>1, FilesSame
<1>3. ProcTyped'
  BY <1>1, <1>2, IdleLocal, SetTyped DEF Idle, None
<1>4. LocksTyped'
  BY <1>1, LocksFewer
<1>5. settled' \subseteq Line
  BY SettledTyped DEF Die, Typed
<1>6. deaths' \in Nat
  BY DEF Die, Typed
<1>7. QED
  BY <1>1, <1>2, <1>3, <1>4, <1>5, <1>6, WatchTyped DEF Typed

(* What a call begins with.                                                *)
Begun(p, kind, u, w) ==
    [Idle EXCEPT !.pc = "open", !.kind = kind, !.user = u, !.password = w,
                 !.fd = IF kind \in {"add", "delete"} THEN "Old" ELSE "S"]

LEMMA BegunLocal ==
    ASSUME NEW p \in Procs, NEW kind \in Kinds, NEW u \in Users, NEW w \in Passwords
    PROVE  LET l == Begun(p, kind, u, w) IN
           /\ l \in Locals /\ Local(l) /\ l.pc = "open" /\ l.kind = kind
           /\ l.user = u /\ l.password = w
           /\ l.Old = None /\ l.New = None /\ l.S = None /\ l.off = 0
           /\ l.fd = IF kind \in {"add", "delete"} THEN "Old" ELSE "S"
           /\ ~l.RetVal /\ ~l.added /\ ~l.blind
<1> DEFINE l == Begun(p, kind, u, w)
<1>1. Idle \in Locals /\ Local(Idle) /\ Idle.pc = "idle"
  BY IdleLocal DEF Idle
<1>2. Idle.Old = None /\ Idle.New = None /\ Idle.S = None /\ Idle.off = 0 /\ Idle.pos = 0
      /\ Idle.out = << >> /\ ~Idle.RetVal /\ ~Idle.added /\ ~Idle.blind
  BY DEF Idle
<1>3. l \in Locals
  BY <1>1 DEF Begun, Locals, Steps
<1>4. /\ l.pc = "open" /\ l.kind = kind /\ l.user = u /\ l.password = w
      /\ l.Old = None /\ l.New = None /\ l.S = None /\ l.off = 0 /\ l.pos = 0 /\ l.out = << >>
      /\ l.fd = IF kind \in {"add", "delete"} THEN "Old" ELSE "S"
  BY <1>1, <1>2 DEF Begun, Locals
<1>5. ~l.RetVal /\ ~l.added /\ ~l.blind
  BY <1>1, <1>2 DEF Begun, Locals
<1> HIDE DEF l
<1>6. Len(l.out) <= BufLines
  BY <1>4, PasswordAssumption
<1>7. Local(l)
  BY <1>4, <1>5, <1>6 DEF Local, Opens
<1>8. QED
  BY <1>3, <1>4, <1>5, <1>7 DEF l

LEMMA CallTyped ==
    ASSUME Typed, NEW p \in Procs, Call(p)
    PROVE  Typed'
<1>1. ProcTyped /\ FilesTyped /\ LocksTyped /\ proc[p].pc = "idle"
      /\ UNCHANGED <<config, dir, inode, locks, deaths, settled>> /\ Watch
      /\ calls' = [calls EXCEPT ![p] = @ + 1]
  BY DEF Typed, Call, At
<1>2. FilesTyped' /\ Len(inode') = Len(inode) /\ Len(inode) \in Nat
  BY <1>1, FilesSame
<1>3. PICK kind \in Kinds, u \in Users, w \in Passwords : Set(p, Begun(p, kind, u, w))
  BY DEF Call, Begun
<1> DEFINE l == Begun(p, kind, u, w)
<1>4. l \in Locals /\ Local(l) /\ l.Old = None /\ l.New = None /\ l.S = None
  BY BegunLocal
<1>5. Set(p, l)
  BY <1>3
<1> HIDE DEF l
<1>6. ProcTyped'
  BY <1>1, <1>2, <1>4, <1>5, SetTyped DEF None
<1>7. \A x \in locks : x[2] # p
  BY <1>1 DEF LocksTyped, CanHold
<1>8. LocksTyped'
  BY <1>1, <1>5, <1>7, LocksFewer
<1>9. calls' \in [Procs -> Nat] /\ settled' \subseteq Line
  BY <1>1 DEF Typed
<1>10. QED
  BY <1>1, <1>2, <1>6, <1>8, <1>9, WatchTyped DEF Typed

LEMMA TypedNext ==
    ASSUME Typed, [Next]_vars
    PROVE  Typed'
<1>1. CASE UNCHANGED vars
  BY <1>1 DEF vars, Typed, FilesTyped, ProcTyped, LocksTyped
<1>2. ASSUME NEW p \in Procs, Call(p) \/ Step(p) \/ Die(p) PROVE Typed'
  BY <1>2, OpenTyped, FlockTyped, PrepareTyped, CopyLineTyped, CopyPushTyped, CloseOldTyped,
     MoveTyped, CloseNewTyped, AbandonTyped, AppendLineTyped, ReadTyped, ReturnTyped,
     CallTyped, DieTyped DEF Step
<1>3. QED
  BY <1>1, <1>2 DEF Next

-----------------------------------------------------------------------------
(* LEMMAS about the invariant: what a step within a call leaves as it is.  *)

(* p goes on with its call, and nobody else does anything.                 *)
GoesOn(p) ==
    /\ Quiet
    /\ \A q \in Procs \ {p} : proc'[q] = proc[q]
    /\ proc[p].pc # "idle" /\ proc'[p].pc # "idle"
    /\ proc'[p].kind = proc[p].kind
    /\ proc'[p].user = proc[p].user /\ proc'[p].password = proc[p].password

LEMMA OpensGoOn ==
    ASSUME Typed, NEW p \in Procs, Open(p) \/ Flock(p) \/ Prepare(p)
    PROVE  GoesOn(p)
<1>1. ProcTyped /\ proc[p] \in Locals /\ Local(proc[p]) /\ Quiet
      /\ proc[p].pc \in {"open", "lock", "prepare"}
  BY DEF Typed, ProcTyped, Open, Flock, Prepare, At
<1>2. PICK l : Set(p, l) /\ l \in {NotOpened(p), Opened(p), [proc[p] EXCEPT !.pc = "prepare"]}
                                  \union {Descriptor(p, i) : i \in Nat}
  <2>1. \A i \in Nat : Descriptor(p, i) \in {Descriptor(p, j) : j \in Nat}
    OBVIOUS
  <2>2. Len(Append(inode, << >>)) \in Nat /\ dir[Name(p)] \in Nat
    <3>1. inode \in Seq(Seq(Line)) /\ << >> \in Seq(Line) /\ dir \in [{"Path", "Path+"} -> 0 .. Len(inode)]
      BY DEF Typed, FilesTyped
    <3>2. Append(inode, << >>) \in Seq(Seq(Line))
      BY <3>1, AppendProperties
    <3>3. QED
      BY <3>1, <3>2 DEF Name
  <2>3. CASE Open(p)
    BY <2>1, <2>2, <2>3 DEF Open
  <2>4. CASE Flock(p)
    BY <2>4 DEF Flock
  <2>5. CASE Prepare(p)
    BY <2>5 DEF Prepare
  <2>6. QED
    BY <2>3, <2>4, <2>5
<1>3. /\ l.pc # "idle" /\ l.kind = proc[p].kind
      /\ l.user = proc[p].user /\ l.password = proc[p].password
  <2>1. CASE l = NotOpened(p)
    BY <1>1, <2>1 DEF NotOpened, Locals
  <2>2. CASE l = Opened(p)
    BY <1>1, <2>2 DEF Opened, Locals
  <2>3. CASE l = [proc[p] EXCEPT !.pc = "prepare"]
    BY <1>1, <2>3 DEF Locals
  <2>4. ASSUME NEW i \in Nat, l = Descriptor(p, i)
        PROVE  /\ l.pc # "idle" /\ l.kind = proc[p].kind
               /\ l.user = proc[p].user /\ l.password = proc[p].password
    BY <1>1, <2>4 DEF Descriptor, Locals
  <2>5. QED
    BY <1>2, <2>1, <2>2, <2>3, <2>4
<1>4. QED
  BY <1>1, <1>2, <1>3, OneSets DEF GoesOn

LEMMA EditsGoOn ==
    ASSUME Typed, NEW p \in Procs,
           CopyLine(p) \/ CopyPush(p) \/ CloseOld(p) \/ Move(p) \/ CloseNew(p) \/ Abandon(p)
           \/ AppendLine(p) \/ Read(p)
    PROVE  GoesOn(p)
<1>1. ProcTyped /\ proc[p] \in Locals /\ Local(proc[p]) /\ Quiet /\ proc[p].pc # "idle"
  BY DEF Typed, ProcTyped, CopyLine, CopyPush, CloseOld, Move, CloseNew, Abandon, AppendLine,
     Read, At
<1>2. ASSUME NEW l, Set(p, l), l.pc # "idle", l.kind = proc[p].kind,
             l.user = proc[p].user, l.password = proc[p].password
      PROVE  GoesOn(p)
  BY <1>1, <1>2, OneSets DEF GoesOn
<1>3. CASE CopyLine(p)
  <2> DEFINE line == inode[proc[p].Old][proc[p].off + 1]
             l == IF line[1] = proc[p].user
                  THEN [proc[p] EXCEPT !.off = @ + 1, !.RetVal = TRUE]
                  ELSE [proc[p] EXCEPT !.off = @ + 1, !.out = Append(@, line)]
  <2>1. Set(p, l)
    BY <1>3 DEF CopyLine
  <2>2. l.pc # "idle" /\ l.kind = proc[p].kind
        /\ l.user = proc[p].user /\ l.password = proc[p].password
    BY <1>1 DEF Locals
  <2> HIDE DEF l
  <2>3. QED
    BY <1>2, <2>1, <2>2
<1>4. CASE CopyPush(p)
  <2> DEFINE l == [proc[p] EXCEPT !.pos = @ + BufLines, !.out = << >>]
  <2>1. Set(p, l) /\ l.pc # "idle" /\ l.kind = proc[p].kind
        /\ l.user = proc[p].user /\ l.password = proc[p].password
    BY <1>1, <1>4 DEF CopyPush, Locals
  <2> HIDE DEF l
  <2>2. QED
    BY <1>2, <2>1
<1>5. CASE CloseOld(p)
  <2> DEFINE l == [proc[p] EXCEPT !.pc = "move", !.Old = None, !.off = 0]
  <2>1. Set(p, l) /\ l.pc # "idle" /\ l.kind = proc[p].kind
        /\ l.user = proc[p].user /\ l.password = proc[p].password
    BY <1>1, <1>5 DEF CloseOld, Locals
  <2> HIDE DEF l
  <2>2. QED
    BY <1>2, <2>1
<1>6. CASE Move(p)
  <2>1. CASE Set(p, [proc[p] EXCEPT !.pc = "closeNew"])
    <3> DEFINE l == [proc[p] EXCEPT !.pc = "closeNew"]
    <3>1. Set(p, l) /\ l.pc # "idle" /\ l.kind = proc[p].kind
          /\ l.user = proc[p].user /\ l.password = proc[p].password
      BY <1>1, <2>1 DEF Locals
    <3> HIDE DEF l
    <3>2. QED
      BY <1>2, <3>1
  <2>2. CASE Set(p, [proc[p] EXCEPT !.pc = "closeNew", !.RetVal = FALSE])
    <3> DEFINE l == [proc[p] EXCEPT !.pc = "closeNew", !.RetVal = FALSE]
    <3>1. Set(p, l) /\ l.pc # "idle" /\ l.kind = proc[p].kind
          /\ l.user = proc[p].user /\ l.password = proc[p].password
      BY <1>1, <2>2 DEF Locals
    <3> HIDE DEF l
    <3>2. QED
      BY <1>2, <3>1
  <2>3. QED
    BY <1>6, <2>1, <2>2 DEF Move
<1>7. CASE CloseNew(p) \/ Abandon(p)
  <2> DEFINE a == AfterDelete(p)
             l == [a EXCEPT !.Old = None, !.New = None, !.pos = 0, !.out = << >>]
  <2>1. Set(p, l)
    BY <1>1, <1>7, CloseNewSets, AbandonSets
  <2>2. a.pc # "idle" /\ a.kind = proc[p].kind /\ a.user = proc[p].user
        /\ a.password = proc[p].password /\ a \in Locals
    BY <1>1 DEF AfterDelete, Locals, Steps
  <2>3. l.pc # "idle" /\ l.kind = proc[p].kind
        /\ l.user = proc[p].user /\ l.password = proc[p].password
    BY <2>2 DEF Locals
  <2> HIDE DEF l
  <2>4. QED
    BY <1>2, <2>1, <2>3
<1>8. CASE AppendLine(p)
  <2> DEFINE l == [proc[p] EXCEPT !.pc = "return", !.S = None, !.added = TRUE]
  <2>1. Set(p, l) /\ l.pc # "idle" /\ l.kind = proc[p].kind
        /\ l.user = proc[p].user /\ l.password = proc[p].password
    BY <1>1, <1>8 DEF AppendLine, Locals
  <2> HIDE DEF l
  <2>2. QED
    BY <1>2, <2>1
<1>9. CASE Read(p)
  <2>1. PICK m, b, n :
          \/ Set(p, [proc[p] EXCEPT !.pc = "return", !.RetVal = m, !.S = None,
                                    !.off = 0, !.blind = b])
          \/ Set(p, [proc[p] EXCEPT !.off = n, !.blind = b])
    BY <1>9 DEF Read
  <2>2. CASE Set(p, [proc[p] EXCEPT !.pc = "return", !.RetVal = m, !.S = None,
                                    !.off = 0, !.blind = b])
    <3> DEFINE l == [proc[p] EXCEPT !.pc = "return", !.RetVal = m, !.S = None,
                                    !.off = 0, !.blind = b]
    <3>1. Set(p, l) /\ l.pc # "idle" /\ l.kind = proc[p].kind
          /\ l.user = proc[p].user /\ l.password = proc[p].password
      BY <1>1, <2>2 DEF Locals
    <3> HIDE DEF l
    <3>2. QED
      BY <1>2, <3>1
  <2>3. CASE Set(p, [proc[p] EXCEPT !.off = n, !.blind = b])
    <3> DEFINE l == [proc[p] EXCEPT !.off = n, !.blind = b]
    <3>1. Set(p, l) /\ l.pc # "idle" /\ l.kind = proc[p].kind
          /\ l.user = proc[p].user /\ l.password = proc[p].password
      BY <1>1, <2>3 DEF Locals
    <3> HIDE DEF l
    <3>2. QED
      BY <1>2, <3>1
  <2>4. QED
    BY <2>1, <2>2, <2>3
<1>10. QED
  BY <1>3, <1>4, <1>5, <1>6, <1>7, <1>8, <1>9

(* Who does what stays as it is, and what checks may accept and must.      *)
LEMMA GoesOnKeeps ==
    ASSUME Typed, NEW p \in Procs, GoesOn(p), Roles
    PROVE  /\ Roles' /\ May' = May /\ Must' = Must
           /\ \A k : Running(k)' = Running(k)
           /\ \A q \in Procs : /\ Editing(q)' <=> Editing(q)
                               /\ Pair(q)' = Pair(q) /\ proc'[q].user = proc[q].user
           /\ OneEditor' <=> OneEditor
<1>1. \A q \in Procs : /\ proc'[q].pc = "idle" <=> proc[q].pc = "idle"
                       /\ proc'[q].kind = proc[q].kind
                       /\ proc'[q].user = proc[q].user /\ proc'[q].password = proc[q].password
  BY DEF GoesOn
<1>2. \A k : Running(k)' = Running(k)
  BY <1>1 DEF Running
<1>3. \A q \in Procs : Pair(q)' = Pair(q)
  BY <1>1 DEF Pair
<1>4. Running("add") \union Running("append") \subseteq Procs
      /\ Running("add") \union Running("delete") \subseteq Procs
  BY DEF Running
<1>5. May' = May
  BY <1>2, <1>3, <1>4 DEF May, GoesOn, Quiet
<1>6. Must' = Must
  BY <1>1, <1>2, <1>4 DEF Must, GoesOn, Quiet
<1>7. Roles'
  BY <1>1 DEF Roles, GoesOn, Quiet
<1>8. \A q \in Procs : Editing(q)' <=> Editing(q)
  BY <1>1 DEF Editing
<1>9. QED
  BY <1>1, <1>2, <1>3, <1>5, <1>6, <1>7, <1>8 DEF OneEditor, GoesOn, Quiet

-----------------------------------------------------------------------------
(* LEMMAS about lines: the set of those in a file that grows.              *)

LEMMA SetOfNone == ToSet(<< >>) = {}
BY EmptySeq DEF ToSet

LEMMA SetOfLines ==
    ASSUME NEW s \in Seq(Line)
    PROVE  ToSet(s) = {s[i] : i \in 1 .. Len(s)} /\ ToSet(s) \subseteq Line
BY LenProperties, ElementOfSeq DEF ToSet

LEMMA SetOfConcat ==
    ASSUME NEW s \in Seq(Line), NEW t \in Seq(Line)
    PROVE  ToSet(s \o t) = ToSet(s) \union ToSet(t)
<1>1. Len(s) \in Nat /\ Len(t) \in Nat /\ s \o t \in Seq(Line) /\ Len(s \o t) = Len(s) + Len(t)
      /\ \A i \in 1 .. Len(s) + Len(t) :
            (s \o t)[i] = IF i <= Len(s) THEN s[i] ELSE t[i - Len(s)]
  BY ConcatProperties
<1>2. /\ ToSet(s) = {s[i] : i \in 1 .. Len(s)} /\ ToSet(t) = {t[i] : i \in 1 .. Len(t)}
      /\ ToSet(s \o t) = {(s \o t)[i] : i \in 1 .. Len(s \o t)}
  BY <1>1, SetOfLines
<1>3. ASSUME NEW i \in 1 .. Len(s) + Len(t)
      PROVE  (s \o t)[i] \in ToSet(s) \union ToSet(t)
  <2>1. CASE i <= Len(s)
    <3>1. i \in 1 .. Len(s) /\ (s \o t)[i] = s[i]
      BY <1>1, <2>1
    <3>2. QED
      BY <1>2, <3>1
  <2>2. CASE ~(i <= Len(s))
    <3>1. i - Len(s) \in 1 .. Len(t) /\ (s \o t)[i] = t[i - Len(s)]
      BY <1>1, <2>2
    <3>2. QED
      BY <1>2, <3>1
  <2>3. QED
    BY <2>1, <2>2
<1>4. \A i \in 1 .. Len(s) : (s \o t)[i] = s[i] /\ i \in 1 .. Len(s) + Len(t)
  BY <1>1
<1>5. ASSUME NEW i \in 1 .. Len(t) PROVE t[i] \in ToSet(s \o t)
  <2>1. Len(s) + i \in 1 .. Len(s) + Len(t) /\ (Len(s) + i) - Len(s) = i /\ ~(Len(s) + i <= Len(s))
    BY <1>1
  <2>2. (s \o t)[Len(s) + i] = t[i]
    BY <1>1, <2>1
  <2>3. QED
    BY <1>1, <1>2, <2>1, <2>2
<1>6. QED
  BY <1>1, <1>2, <1>3, <1>4, <1>5

LEMMA SetOfAppend ==
    ASSUME NEW s \in Seq(Line), NEW e \in Line
    PROVE  Append(s, e) = s \o <<e>> /\ <<e>> \in Seq(Line) /\ ToSet(<<e>>) = {e}
           /\ ToSet(Append(s, e)) = ToSet(s) \union {e}
<1>1. Append(s, e) = s \o <<e>> /\ <<e>> \in Seq(Line)
  BY AppendProperties, AppendIsConcat
<1>2. ToSet(<<e>>) = {e}
  <2>1. Len(<<e>>) = 1 /\ <<e>>[1] = e
    OBVIOUS
  <2>2. ToSet(<<e>>) = {<<e>>[i] : i \in 1 .. 1}
    BY <1>1, <2>1, SetOfLines
  <2>3. QED
    BY <2>1, <2>2
<1>3. QED
  BY <1>1, <1>2, SetOfConcat

LEMMA FilesAreLines ==
    ASSUME FilesTyped
    PROVE  /\ \A i \in 1 .. Len(inode) : inode[i] \in Seq(Line)
           /\ Contents \in Seq(Line)
           /\ dir["Path"] # None => dir["Path"] \in 1 .. Len(inode) /\ Contents = inode[dir["Path"]]
<1>1. \A i \in 1 .. Len(inode) : inode[i] \in Seq(Line)
  BY ElementOfSeq DEF FilesTyped
<1>2. dir["Path"] # None => dir["Path"] \in 1 .. Len(inode)
  BY DEF FilesTyped, None
<1>3. QED
  BY <1>1, <1>2 DEF Contents

-----------------------------------------------------------------------------
(* What is so of the file between the steps of the calls.                  *)

LEMMA FileIsKept ==
    ASSUME Typed, InOrder
    PROVE  /\ ~Unwritten(dir["Path"]) => Must \subseteq ToSet(Contents)
           /\ ToSet(Contents) \subseteq May
<1>1. Must \subseteq settled /\ settled \subseteq May
  BY DEF Must, May
<1>2. CASE \A p \in Procs : ~Editing(p)
  BY <1>1, <1>2 DEF InOrder
<1>3. ASSUME NEW p \in Procs, Editing(p)
      PROVE  /\ ~Unwritten(dir["Path"]) => Must \subseteq ToSet(Contents)
             /\ ToSet(Contents) \subseteq May
  <2>1. EditorFiles(p) /\ EditOK(p) /\ proc[p] \in Locals /\ Local(proc[p])
    BY <1>3 DEF InOrder, Typed, ProcTyped
  <2>2. CASE Replaced(proc[p])
    <3>1. Unwritten(dir["Path"])
      BY <2>1, <2>2 DEF Replaced, EditorFiles, Unwritten, At
    <3>2. ToSet(Contents) \subseteq settled
      BY <2>1, <2>2 DEF EditOK, Copy, Others
    <3>3. QED
      BY <1>1, <3>1, <3>2
  <2>3. CASE ~Replaced(proc[p]) /\ proc[p].fd # "S" /\ proc[p].pc \notin {"closeNew", "return"}
    BY <1>1, <2>1, <2>3 DEF EditOK
  <2>4. CASE ~Replaced(proc[p]) /\ ~(proc[p].fd # "S" /\ proc[p].pc \notin {"closeNew", "return"})
    <3>1. ToSet(Contents) = Edited(p)
      BY <2>1, <2>4 DEF EditOK
    <3>2. proc[p].kind \in {"add", "delete", "append"}
      BY <1>3, <2>1 DEF Editing, Locals, Kinds
    <3>3. Must \subseteq Edited(p)
      <4>1. CASE proc[p].RetVal
        <5>1. p \in Running("add") \union Running("delete")
          BY <1>3, <2>1, <3>2, <4>1 DEF Running, Editing, Local
        <5>2. Must \subseteq Others(p, settled)
          BY <5>1 DEF Must, Others
        <5>3. QED
          BY <4>1, <5>2 DEF Edited
      <4>2. CASE ~proc[p].RetVal
        BY <1>1, <4>2 DEF Edited
      <4>3. QED
        BY <4>1, <4>2
    <3>4. Edited(p) \subseteq May
      <4>1. proc[p].added => p \in Running("add") \union Running("append")
        BY <1>3, <2>1 DEF Running, Editing, Local
      <4>2. QED
        BY <4>1 DEF Edited, Others, May
    <3>5. QED
      BY <3>1, <3>3, <3>4
  <2>5. QED
    BY <2>2, <2>3, <2>4
<1>4. QED
  BY <1>2, <1>3

(* A file that is being read: it may grow, by what is valid, and when it   *)
(* is all there it has what is certain.                                    *)
FileGrows(s) ==
    /\ \E t \in Seq(Line) : inode'[s] = inode[s] \o t /\ ToSet(t) \subseteq May'
    /\ Unwritten(s) => Unwritten(s)' \/ Must' \subseteq ToSet(inode'[s])
StaysReadable(s) == FileGrows(s) /\ s # dir'["Path+"] /\ ~Unlinked(s)'
BeingRead == {proc[q].S : q \in Running("check")} \ {None}

LEMMA ReaderStays ==
    ASSUME Typed, NEW q \in Procs, proc[q].kind = "check", ReaderFiles(q), CheckOK(q),
           proc'[q] = proc[q], May' \subseteq possible'[q], possible[q] \subseteq possible'[q],
           certain'[q] \subseteq certain[q], certain'[q] \subseteq Must',
           \A s : s = proc[q].S /\ s # None => StaysReadable(s)
    PROVE  ReaderFiles(q)' /\ CheckOK(q)'
<1> DEFINE l == proc[q]
<1> PICK s : s = l.S
  OBVIOUS
<1>1. l \in Locals /\ Local(l) /\ FilesTyped /\ l.S <= Len(inode)
      /\ Len(inode) \in Nat /\ s \in Nat
  BY DEF Typed, ProcTyped, FilesTyped, Locals
<1>2. Pair(q)' = Pair(q)
  BY DEF Pair
<1>3. ReaderFiles(q)'
  <2>1. ReaderFiles(q)' <=> (s # None => s # dir'["Path+"] /\ ~Unlinked(s)')
    BY DEF ReaderFiles
  <2>2. QED
    BY <2>1 DEF StaysReadable
<1>4. CASE s = None
  <2>1. l.pc \notin {"lock", "read"}
    BY <1>1, <1>4 DEF Local, Opens
  <2>2. l.blind \/ Pair(q) \notin certain'[q] \/ (l.pc = "return" => l.RetVal)
    BY DEF CheckOK
  <2>3. l.RetVal => Pair(q) \in possible'[q]
    BY DEF CheckOK
  <2>4. QED
    BY <1>2, <1>3, <1>4, <2>1, <2>2, <2>3 DEF CheckOK
<1>5. CASE s # None
  <2>1. PICK t \in Seq(Line) : inode'[s] = inode[s] \o t /\ ToSet(t) \subseteq May'
    BY <1>5 DEF StaysReadable, FileGrows
  <2>2. inode[s] \in Seq(Line)
    BY <1>1, <1>5, FilesAreLines DEF None
  <2>3. ToSet(inode'[s]) = ToSet(inode[s]) \union ToSet(t)
    BY <2>1, <2>2, SetOfConcat
  <2>4. ToSet(inode'[s]) \subseteq possible'[q]
    BY <1>5, <2>1, <2>3 DEF CheckOK
  <2>5. l.RetVal => Pair(q) \in possible'[q]
    BY DEF CheckOK
  <2>6. l.pc \in {"lock", "read"}
    BY <1>1, <1>5 DEF Local, Opens
  <2>7. inode'[s] \in Seq(Line) /\ Len(inode'[s]) \in Nat
    BY <2>1, <2>2, ConcatProperties
  <2>8. ASSUME ~l.blind, Pair(q) \in certain'[q]
        PROVE  Ahead(l, Pair(q))' \/ (Unwritten(s)' /\ l.off = 0)
    <3>1. CASE Ahead(l, Pair(q))
      <4>1. PICK i \in 1 .. Len(inode[s]) : i > l.off /\ inode[s][i] = Pair(q)
        BY <3>1 DEF Ahead
      <4>2. i \in 1 .. Len(inode'[s]) /\ inode'[s][i] = Pair(q)
        BY <2>1, <2>2, <4>1, ConcatProperties
      <4>3. Ahead(l, Pair(q))'
        BY <1>2, <4>1, <4>2 DEF Ahead
      <4>4. QED
        BY <4>3
    <3>2. CASE Unwritten(s) /\ l.off = 0
      <4>1. CASE Unwritten(s)'
        BY <3>2, <4>1
      <4>2. CASE ~Unwritten(s)'
        <5>1. Pair(q) \in ToSet(inode'[s])
          BY <1>5, <2>8, <3>2, <4>2 DEF StaysReadable, FileGrows
        <5>2. PICK i \in 1 .. Len(inode'[s]) : inode'[s][i] = Pair(q)
          BY <2>7, <5>1, SetOfLines
        <5>3. i > l.off
          BY <2>7, <3>2, <5>2
        <5>4. Ahead(l, Pair(q))'
          BY <1>2, <5>2, <5>3 DEF Ahead
        <5>5. QED
          BY <5>4
      <4>3. QED
        BY <4>1, <4>2
    <3>3. QED
      BY <2>6, <2>8, <3>1, <3>2 DEF CheckOK
  <2>9. QED
    BY <1>2, <1>3, <2>4, <2>5, <2>6, <2>8 DEF CheckOK
<1>6. QED
  BY <1>4, <1>5

-----------------------------------------------------------------------------
(* A step of the editor within its call, and one of a reader.              *)

EditorMoves(p) ==
    /\ dir'["Path"] = dir'["Path+"] => dir'["Path"] = None
    /\ EditorFiles(p)' /\ EditOK(p)'
    /\ \A s \in BeingRead : StaysReadable(s)

LEMMA EditorStep ==
    ASSUME Typed, Roles, InOrder, NEW p \in Procs, Editing(p), GoesOn(p), EditorMoves(p)
    PROVE  InOrder'
<1>1. /\ May' = May /\ Must' = Must /\ Running("check")' = Running("check")
      /\ \A q \in Procs : Editing(q)' <=> Editing(q)
  BY GoesOnKeeps
<1>2. \A q \in Procs : Editing(q) => q = p
  BY DEF InOrder
<1>3. ASSUME NEW q \in Running("check") PROVE ReaderFiles(q)' /\ CheckOK(q)'
  <2>1. q \in Procs /\ proc[q].kind = "check" /\ q # p /\ ReaderFiles(q) /\ CheckOK(q)
    BY DEF Running, Editing, InOrder
  <2>2. proc'[q] = proc[q] /\ possible' = possible /\ certain' = certain
    BY <2>1 DEF GoesOn, Quiet
  <2>3. May' \subseteq possible'[q] /\ certain'[q] \subseteq Must'
    BY <1>1, <2>1, <2>2 DEF CheckOK
  <2>4. \A s : s = proc[q].S /\ s # None => StaysReadable(s)
    BY DEF EditorMoves, BeingRead
  <2>5. QED
    BY <2>1, <2>2, <2>3, <2>4, ReaderStays
<1>4. QED
  BY <1>1, <1>2, <1>3 DEF InOrder, EditorMoves

(* A file that the step leaves as it is.                                   *)
LEMMA UntouchedStays ==
    ASSUME Typed, NEW p \in Procs, GoesOn(p), NEW s \in 1 .. Len(inode), inode'[s] = inode[s],
           s # dir'["Path+"], ~Unlinked(s),
           proc[p].pc = "closeNew" => proc[p].New # s,
           proc'[p].pc = "closeNew" /\ ~proc'[p].RetVal => proc'[p].New # s
    PROVE  StaysReadable(s)
<1>1. \A q \in Procs \ {p} : proc'[q] = proc[q]
  BY DEF GoesOn
<1>2. Unwritten(s) => Unwritten(s)'
  BY <1>1 DEF Unwritten, At
<1>3. ~Unlinked(s)'
  BY <1>1 DEF Unlinked, At
<1>4. inode[s] \in Seq(Line)
  BY FilesAreLines DEF Typed
<1>5. inode'[s] = inode[s] \o << >> /\ << >> \in Seq(Line) /\ ToSet(<< >>) \subseteq May'
  BY <1>4, ConcatEmptySeq, SetOfNone
<1>6. QED
  BY <1>2, <1>3, <1>5 DEF StaysReadable, FileGrows

LEMMA ReadersFile ==
    ASSUME Typed, InOrder, NEW s \in BeingRead
    PROVE  s \in 1 .. Len(inode) /\ s # dir["Path+"] /\ ~Unlinked(s)
<1>1. PICK q \in Procs : proc[q].S = s /\ s # None /\ ReaderFiles(q)
  BY DEF BeingRead, Running, InOrder
<1>2. proc[q] \in Locals /\ proc[q].S <= Len(inode) /\ Len(inode) \in Nat
  BY <1>1 DEF Typed, ProcTyped, FilesTyped
<1>3. proc[q].S \in Nat
  BY <1>2 DEF Locals
<1>4. QED
  BY <1>1, <1>2, <1>3 DEF ReaderFiles, None

(* No file changes, and the editor does not begin or end closing New.      *)
LEMMA UntouchedAll ==
    ASSUME Typed, InOrder, NEW p \in Procs, GoesOn(p), UNCHANGED <<dir, inode>>,
           proc[p].pc # "closeNew", proc'[p].pc # "closeNew"
    PROVE  /\ \A s \in BeingRead : StaysReadable(s)
           /\ dir'["Path"] = dir'["Path+"] => dir'["Path"] = None
<1>1. ASSUME NEW s \in BeingRead PROVE StaysReadable(s)
  <2>1. s \in 1 .. Len(inode) /\ s # dir["Path+"] /\ ~Unlinked(s)
    BY ReadersFile
  <2>2. QED
    BY <2>1, UntouchedStays
<1>2. QED
  BY <1>1 DEF InOrder

(* What an editor has done so far stays done.                              *)
LEMMA EditorStays ==
    ASSUME InOrder, NEW e \in Procs, Editing(e), proc'[e] = proc[e],
           UNCHANGED <<dir, inode, settled>>
    PROVE  EditorFiles(e)' /\ EditOK(e)'
<1>1. EditorFiles(e) /\ EditOK(e)
  BY DEF InOrder
<1>2. EditorFiles(e)'
  BY <1>1 DEF EditorFiles
<1>3. Copy(e)' = Copy(e) /\ Seen(e)' = Seen(e) /\ Edited(e)' = Edited(e)
      /\ Others(e, Seen(e))' = Others(e, Seen(e)) /\ Others(e, settled)' = Others(e, settled)
  BY DEF Copy, Seen, Edited, Others, Pair
<1>4. Contents' = Contents
  BY DEF Contents
<1>5. EditOK(e)'
  BY <1>1, <1>3, <1>4 DEF EditOK, Replaced
<1>6. QED
  BY <1>2, <1>5

LEMMA ReaderStep ==
    ASSUME Typed, Roles, InOrder, NEW p \in Procs, ~Editing(p), GoesOn(p),
           UNCHANGED <<dir, inode>>, proc[p].pc # "closeNew", proc'[p].pc # "closeNew",
           ReaderFiles(p)', CheckOK(p)'
    PROVE  InOrder'
<1>1. /\ May' = May /\ Must' = Must /\ Running("check")' = Running("check")
      /\ \A q \in Procs : Editing(q)' <=> Editing(q)
  BY GoesOnKeeps
<1>2. ASSUME NEW q \in Running("check"), q # p PROVE ReaderFiles(q)' /\ CheckOK(q)'
  <2>1. q \in Procs /\ proc[q].kind = "check" /\ ReaderFiles(q) /\ CheckOK(q)
    BY DEF Running, Editing, InOrder
  <2>2. proc'[q] = proc[q] /\ possible' = possible /\ certain' = certain
    BY <1>2, <2>1 DEF GoesOn, Quiet
  <2>3. May' \subseteq possible'[q] /\ certain'[q] \subseteq Must'
    BY <1>1, <2>1, <2>2 DEF CheckOK
  <2>4. \A s : s = proc[q].S /\ s # None => StaysReadable(s)
    BY UntouchedAll DEF BeingRead
  <2>5. QED
    BY <2>1, <2>2, <2>3, <2>4, ReaderStays
<1>3. ASSUME NEW e \in Procs, Editing(e) PROVE EditorFiles(e)' /\ EditOK(e)'
  <2>1. proc'[e] = proc[e] /\ settled' = settled
    BY <1>3 DEF GoesOn, Quiet
  <2>2. QED
    BY <1>3, <2>1, EditorStays
<1>4. Contents' = Contents /\ settled' = settled
  BY DEF Contents, GoesOn, Quiet
<1>5. QED
  BY <1>1, <1>2, <1>3, <1>4 DEF InOrder

-----------------------------------------------------------------------------
(* The steps of an editor: opening its files.                              *)

LEMMA EditedSame ==
    ASSUME NEW p \in Procs, GoesOn(p), proc'[p].RetVal = proc[p].RetVal,
           proc'[p].added = proc[p].added
    PROVE  Edited(p)' = Edited(p)
<1>1. Pair(p)' = Pair(p) /\ settled' = settled /\ Others(p, settled)' = Others(p, settled)
  BY DEF GoesOn, Quiet, Pair, Others
<1>2. {c \in {Pair(p)} : proc[p].added}' = {c \in {Pair(p)} : proc[p].added}
  BY <1>1
<1>3. QED
  BY <1>1, <1>2 DEF Edited

LEMMA QuietEdit ==
    ASSUME Typed, InOrder, NEW p \in Procs, Editing(p), GoesOn(p),
           ToSet(Contents)' = ToSet(Contents),
           proc[p].pc # "closeNew", proc'[p].pc \notin {"closeNew", "copy", "move"},
           proc'[p].RetVal = proc[p].RetVal, proc'[p].added = proc[p].added,
           (proc'[p].fd # "S" /\ proc'[p].pc # "return")
             <=> (proc[p].fd # "S" /\ proc[p].pc # "return")
    PROVE  EditOK(p)'
<1>1. EditOK(p) /\ ~Replaced(proc[p]) /\ ~Replaced(proc'[p])
  BY DEF InOrder, Replaced
<1>2. Edited(p)' = Edited(p) /\ settled' = settled
  BY EditedSame DEF GoesOn, Quiet
<1>3. ToSet(Contents) = IF proc[p].fd # "S" /\ proc[p].pc # "return" THEN settled ELSE Edited(p)
  BY <1>1 DEF EditOK
<1>4. ToSet(Contents)' = IF proc'[p].fd # "S" /\ proc'[p].pc # "return"
                         THEN settled' ELSE Edited(p)'
  BY <1>2, <1>3
<1>5. QED
  BY <1>1, <1>4 DEF EditOK, Replaced

(* Opening changes neither what a call has found nor what it has to edit.  *)
LEMMA OpeningKeeps ==
    ASSUME NEW p \in Procs, proc[p] \in Locals, NEW i,
           NEW l \in {Descriptor(p, i), NotOpened(p), Opened(p)}, Local(proc[p]),
           proc[p].pc \in {"open", "lock", "prepare"}
    PROVE  /\ l.RetVal = proc[p].RetVal /\ l.added = proc[p].added
           /\ l.fd # "S" <=> proc[p].fd # "S"
           /\ l.pc = "return" => l.fd = "S"
<1>1. CASE l = Descriptor(p, i)
  <2>1. CASE proc[p].fd = "Old"
    BY <1>1, <2>1 DEF Descriptor, Locals
  <2>2. CASE proc[p].fd = "New"
    BY <1>1, <2>2 DEF Descriptor, Locals
  <2>3. CASE proc[p].fd = "S"
    BY <1>1, <2>3 DEF Descriptor, Locals
  <2>4. QED
    BY <2>1, <2>2, <2>3 DEF Locals
<1>2. CASE l = NotOpened(p)
  <2>1. CASE proc[p].fd = "Old"
    BY <1>2, <2>1 DEF NotOpened, Locals
  <2>2. CASE proc[p].fd = "New"
    BY <1>2, <2>2 DEF NotOpened, Locals
  <2>3. CASE proc[p].fd = "S"
    BY <1>2, <2>3 DEF NotOpened, Locals
  <2>4. QED
    BY <2>1, <2>2, <2>3 DEF Locals
<1>3. CASE l = Opened(p)
  <2>1. CASE proc[p].fd = "Old"
    BY <1>3, <2>1 DEF Opened, Locals
  <2>2. CASE proc[p].fd = "New"
    BY <1>3, <2>2 DEF Opened, Locals
  <2>3. CASE proc[p].fd = "S"
    BY <1>3, <2>3 DEF Opened, Locals
  <2>4. QED
    BY <2>1, <2>2, <2>3 DEF Locals
<1>4. QED
  BY <1>1, <1>2, <1>3

LEMMA FoundMoves ==
    ASSUME Typed, InOrder, NEW p \in Procs, Editing(p), GoesOn(p), proc[p].pc = "open",
           dir[Name(p)] # None, UNCHANGED <<dir, inode>>, Set(p, Descriptor(p, dir[Name(p)]))
    PROVE  EditorMoves(p)
<1> DEFINE l == Descriptor(p, dir[Name(p)])
<1>1. ProcTyped /\ proc[p] \in Locals /\ Local(proc[p]) /\ EditorFiles(p) /\ proc'[p] = l
  BY OneSets DEF Typed, ProcTyped, InOrder
<1>2. l.pc = "lock" /\ l.fd = proc[p].fd
  BY <1>1 DEF Descriptor, Locals
<1>3. l.S # None => l.S = dir["Path"]
  BY <1>1 DEF Descriptor, Locals, EditorFiles, Name
<1>4. l.Old # None => l.Old = dir["Path"]
  BY <1>1 DEF Descriptor, Locals, EditorFiles, Name
<1>5. l.New # None => l.New = dir["Path+"]
  BY <1>1 DEF Descriptor, Locals, EditorFiles, Name
<1> HIDE DEF l
<1>6. EditorFiles(p)'
  BY <1>1, <1>2, <1>3, <1>4, <1>5 DEF EditorFiles
<1>7. ToSet(Contents)' = ToSet(Contents)
  BY DEF Contents
<1>8. EditOK(p)'
  <2>1. /\ proc'[p].RetVal = proc[p].RetVal /\ proc'[p].added = proc[p].added
        /\ proc'[p].fd # "S" <=> proc[p].fd # "S"
        /\ proc'[p].pc = "return" => proc'[p].fd = "S"
    BY <1>1, OpeningKeeps DEF l
  <2>2. QED
    BY <1>1, <1>2, <1>7, <2>1, QuietEdit
<1>9. QED
  BY <1>1, <1>2, <1>6, <1>8, UntouchedAll DEF EditorMoves

LEMMA NotOpenedMoves ==
    ASSUME Typed, InOrder, NEW p \in Procs, Editing(p), GoesOn(p),
           proc[p].pc \in {"open", "lock", "prepare"}, UNCHANGED <<dir, inode>>,
           Set(p, NotOpened(p))
    PROVE  EditorMoves(p)
<1> DEFINE l == NotOpened(p)
<1>1. ProcTyped /\ proc[p] \in Locals /\ Local(proc[p]) /\ EditorFiles(p) /\ proc'[p] = l
  BY OneSets DEF Typed, ProcTyped, InOrder
<1>2. l.pc \in {"open", "abandon", "return"}
  BY <1>1 DEF NotOpened, Locals
<1>3. l.S \in {None, proc[p].S} /\ l.Old \in {None, proc[p].Old} /\ l.New \in {None, proc[p].New}
  BY <1>1 DEF NotOpened, Locals
<1> HIDE DEF l
<1>4. EditorFiles(p)'
  BY <1>1, <1>2, <1>3 DEF EditorFiles
<1>5. ToSet(Contents)' = ToSet(Contents)
  BY DEF Contents
<1>6. EditOK(p)'
  <2>1. /\ proc'[p].RetVal = proc[p].RetVal /\ proc'[p].added = proc[p].added
        /\ proc'[p].fd # "S" <=> proc[p].fd # "S"
        /\ proc'[p].pc = "return" => proc'[p].fd = "S"
    BY <1>1, OpeningKeeps DEF l
  <2>2. QED
    BY <1>1, <1>2, <1>5, <2>1, QuietEdit
<1>7. QED
  BY <1>1, <1>2, <1>4, <1>6, UntouchedAll DEF EditorMoves

LEMMA MadeMoves ==
    ASSUME Typed, InOrder, NEW p \in Procs, Editing(p), GoesOn(p), proc[p].pc = "open",
           dir[Name(p)] = None, ~ReadOnly(p), inode' = Append(inode, << >>),
           dir' = [dir EXCEPT ![Name(p)] = Len(inode')], Set(p, Descriptor(p, Len(inode')))
    PROVE  EditorMoves(p)
<1> DEFINE l == Descriptor(p, Len(inode'))
<1>1. /\ ProcTyped /\ proc[p] \in Locals /\ Local(proc[p]) /\ EditorFiles(p) /\ proc'[p] = l
      /\ FilesTyped /\ Name(p) \in {"Path", "Path+"}
      /\ \A q \in Procs \ {p} : proc'[q] = proc[q]
  BY OneSets DEF Typed, ProcTyped, InOrder, Name
<1>2. /\ FilesTyped' /\ Len(inode) \in Nat /\ Len(inode') = Len(inode) + 1
      /\ \A i \in 1 .. Len(inode) : inode'[i] = inode[i]
  BY <1>1, MadeTyped
<1>3. /\ dir'[Name(p)] = Len(inode) + 1
      /\ \A n \in {"Path", "Path+"} : n # Name(p) => dir'[n] = dir[n]
      /\ \A n \in {"Path", "Path+"} : dir[n] \in 0 .. Len(inode)
  BY <1>1, <1>2 DEF FilesTyped
<1>4. dir'["Path"] = dir'["Path+"] => dir'["Path"] = None
  BY <1>1, <1>2, <1>3 DEF Name
<1>5. l.pc = "lock" /\ l.fd = proc[p].fd
  BY <1>1 DEF Descriptor, Locals
<1>6. l.S # None => l.S = dir'["Path"]
  BY <1>1, <1>2, <1>3 DEF Descriptor, Locals, EditorFiles, Name, Local, Opens
<1>7. l.Old # None => l.Old = dir'["Path"]
  BY <1>1, <1>2, <1>3 DEF Descriptor, Locals, EditorFiles, Name, Local, Opens, ReadOnly
<1>8. l.New # None => l.New = dir'["Path+"]
  BY <1>1, <1>2, <1>3 DEF Descriptor, Locals, EditorFiles, Name, Local, Opens
<1> HIDE DEF l
<1>9. EditorFiles(p)'
  BY <1>1, <1>5, <1>6, <1>7, <1>8 DEF EditorFiles
<1>10. ToSet(Contents)' = ToSet(Contents)
  <2>1. CASE Name(p) = "Path"
    <3>1. Contents = << >> /\ dir'["Path"] = Len(inode')
      BY <1>2, <1>3, <2>1 DEF Contents
    <3>2. inode'[Len(inode')] = << >> /\ Len(inode') # 0
      <4>1. << >> \in Seq(Line)
        OBVIOUS
      <4>2. QED
        BY <1>1, <1>2, <4>1, AppendProperties DEF FilesTyped
    <3>3. Contents' = << >>
      BY <3>1, <3>2 DEF Contents, None
    <3>4. QED
      BY <3>1, <3>3
  <2>2. CASE Name(p) # "Path"
    <3>1. dir'["Path"] = dir["Path"] /\ (dir["Path"] # None => inode'[dir["Path"]] = inode[dir["Path"]])
      BY <1>1, <1>2, <1>3, <2>2 DEF None
    <3>2. Contents' = Contents
      BY <3>1 DEF Contents
    <3>3. QED
      BY <3>2
  <2>3. QED
    BY <2>1, <2>2
<1>11. EditOK(p)'
  <2>1. /\ proc'[p].RetVal = proc[p].RetVal /\ proc'[p].added = proc[p].added
        /\ proc'[p].fd # "S" <=> proc[p].fd # "S"
        /\ proc'[p].pc = "return" => proc'[p].fd = "S"
    BY <1>1, OpeningKeeps DEF l
  <2>2. QED
    BY <1>1, <1>5, <1>10, <2>1, QuietEdit
<1>12. ASSUME NEW s \in BeingRead PROVE StaysReadable(s)
  <2>1. s \in 1 .. Len(inode) /\ s # dir["Path+"] /\ ~Unlinked(s)
    BY ReadersFile
  <2>2. inode'[s] = inode[s] /\ s # dir'["Path+"]
    BY <1>1, <1>2, <1>3, <2>1
  <2>3. QED
    BY <1>1, <1>5, <2>1, <2>2, UntouchedStays
<1>13. QED
  BY <1>4, <1>9, <1>11, <1>12 DEF EditorMoves

LEMMA OpenMoves ==
    ASSUME Typed, InOrder, NEW p \in Procs, Editing(p), Open(p)
    PROVE  EditorMoves(p)
<1>1. GoesOn(p) /\ proc[p].pc = "open"
  BY OpensGoOn DEF Open, At
<1>2. QED
  BY <1>1, FoundMoves, NotOpenedMoves, MadeMoves DEF Open

(* The steps that only change how far the opening of a file has come.      *)
LEMMA GoesToMoves ==
    ASSUME Typed, InOrder, NEW p \in Procs, Editing(p), GoesOn(p),
           proc[p].pc \in {"lock", "prepare"}, UNCHANGED <<dir, inode>>,
           NEW pc \in {"prepare", "append"}, Set(p, [proc[p] EXCEPT !.pc = pc])
    PROVE  EditorMoves(p)
<1> DEFINE l == [proc[p] EXCEPT !.pc = pc]
<1>1. ProcTyped /\ proc[p] \in Locals /\ Local(proc[p]) /\ EditorFiles(p) /\ proc'[p] = l
  BY OneSets DEF Typed, ProcTyped, InOrder
<1>2. /\ l.pc = pc /\ l.fd = proc[p].fd /\ l.Old = proc[p].Old /\ l.New = proc[p].New
      /\ l.S = proc[p].S /\ l.RetVal = proc[p].RetVal /\ l.added = proc[p].added
  BY <1>1 DEF Locals
<1> HIDE DEF l
<1>3. EditorFiles(p)'
  BY <1>1, <1>2 DEF EditorFiles
<1>4. ToSet(Contents)' = ToSet(Contents)
  BY DEF Contents
<1>5. EditOK(p)'
  BY <1>1, <1>2, <1>4, QuietEdit
<1>6. QED
  BY <1>1, <1>2, <1>3, <1>5, UntouchedAll DEF EditorMoves

LEMMA OpenedOldMoves ==
    ASSUME Typed, InOrder, NEW p \in Procs, Editing(p), GoesOn(p),
           proc[p].pc = "lock", proc[p].fd = "Old", UNCHANGED <<dir, inode>>, Set(p, Opened(p))
    PROVE  EditorMoves(p)
<1> DEFINE l == Opened(p)
<1>1. ProcTyped /\ proc[p] \in Locals /\ Local(proc[p]) /\ EditorFiles(p) /\ proc'[p] = l
  BY OneSets DEF Typed, ProcTyped, InOrder
<1>2. /\ l.pc = "open" /\ l.fd = "New" /\ l.Old = proc[p].Old /\ l.New = proc[p].New
      /\ l.S = proc[p].S
  BY <1>1 DEF Opened, Locals
<1>3. l.RetVal = proc[p].RetVal /\ l.added = proc[p].added
  BY <1>1, OpeningKeeps
<1> HIDE DEF l
<1>4. EditorFiles(p)'
  BY <1>1, <1>2 DEF EditorFiles
<1>5. ToSet(Contents)' = ToSet(Contents)
  BY DEF Contents
<1>6. EditOK(p)'
  BY <1>1, <1>2, <1>3, <1>5, QuietEdit
<1>7. QED
  BY <1>1, <1>2, <1>4, <1>6, UntouchedAll DEF EditorMoves

LEMMA FlockMoves ==
    ASSUME Typed, InOrder, NEW p \in Procs, Editing(p), Flock(p)
    PROVE  EditorMoves(p)
<1>1. GoesOn(p) /\ proc[p].pc = "lock" /\ UNCHANGED <<dir, inode>> /\ proc[p].kind # "check"
  BY OpensGoOn DEF Flock, At, Editing
<1>2. CASE Set(p, NotOpened(p))
  BY <1>1, <1>2, NotOpenedMoves
<1>3. CASE ReadOnly(p) /\ Set(p, Opened(p))
  BY <1>1, <1>3, OpenedOldMoves DEF ReadOnly
<1>4. CASE Set(p, [proc[p] EXCEPT !.pc = "prepare"])
  BY <1>1, <1>4, GoesToMoves
<1>5. QED
  BY <1>2, <1>3, <1>4 DEF Flock

(* New is emptied, and the copy begins with nothing read.                  *)
LEMMA EmptiedMoves ==
    ASSUME Typed, InOrder, NEW p \in Procs, Editing(p), GoesOn(p), proc[p].pc = "prepare",
           proc[p].fd = "New", dir["Path+"] # None, UNCHANGED dir,
           inode' = [inode EXCEPT ![proc[p].New] = << >>], Set(p, Opened(p))
    PROVE  EditorMoves(p)
<1> DEFINE l == Opened(p)
           new == proc[p].New
<1>1. /\ ProcTyped /\ proc[p] \in Locals /\ Local(proc[p]) /\ EditorFiles(p) /\ proc'[p] = l
      /\ FilesTyped /\ proc[p].New <= Len(inode) /\ proc[p].New \in Nat
      /\ \A q \in Procs \ {p} : proc'[q] = proc[q]
  BY OneSets DEF Typed, ProcTyped, InOrder, Locals
<1>2. /\ l.pc = IF proc[p].Old = None THEN "abandon" ELSE "copy"
      /\ l.fd = "New" /\ l.Old = proc[p].Old /\ l.New = new /\ l.S = proc[p].S
      /\ l.off = proc[p].off /\ l.pos = proc[p].pos /\ l.out = proc[p].out
  BY <1>1 DEF Opened, Locals
<1>3. l.RetVal = proc[p].RetVal /\ l.added = proc[p].added
  BY <1>1, OpeningKeeps
<1>4. new = dir["Path+"] /\ new \in 1 .. Len(inode) /\ dir["Path"] # new
  <2>1. new # None
    BY <1>1 DEF Local, Opens
  <2>2. QED
    BY <1>1, <2>1 DEF EditorFiles, InOrder, FilesTyped, None
<1>5. l.off = 0 /\ l.pos = 0 /\ l.out = << >>
  BY <1>1, <1>2 DEF Local
<1>6. /\ Len(inode) \in Nat /\ Len(inode') = Len(inode) /\ inode'[new] = << >>
      /\ \A j \in 1 .. Len(inode) : j # new => inode'[j] = inode[j]
  <2>1. << >> \in Seq(Line)
    OBVIOUS
  <2>2. QED
    BY <1>1, <1>4, <2>1, WrittenTyped
<1> HIDE DEF l
<1>7. EditorFiles(p)'
  BY <1>1, <1>2, <1>4 DEF EditorFiles
<1>8. ToSet(Contents)' = ToSet(Contents)
  <2>1. dir["Path"] # None => dir["Path"] \in 1 .. Len(inode)
    BY <1>1, FilesAreLines
  <2>2. dir["Path"] # None => inode'[dir["Path"]] = inode[dir["Path"]]
    BY <1>4, <1>6, <2>1
  <2>3. Contents' = Contents
    BY <2>2 DEF Contents
  <2>4. QED
    BY <2>3
<1>9. EditOK(p)'
  <2>1. CASE proc[p].Old = None
    BY <1>1, <1>2, <1>3, <1>8, <2>1, QuietEdit
  <2>2. CASE proc[p].Old # None
    <3>1. proc'[p].pc = "copy" /\ ~Replaced(proc'[p]) /\ ~Replaced(proc[p])
      BY <1>1, <1>2, <2>2 DEF Replaced
    <3>2. Copy(p)' = {}
      BY <1>1, <1>2, <1>5, <1>6, SetOfNone DEF Copy
    <3>3. Seen(p)' = {}
      BY <1>1, <1>5 DEF Seen
    <3>4. Others(p, Seen(p))' = {}
      BY <3>3 DEF Others
    <3>5. ToSet(Contents) = settled /\ settled' = settled
      BY <1>1, <3>1 DEF InOrder, EditOK, GoesOn, Quiet
    <3>6. Len(inode'[new]) = 0
      BY <1>6
    <3>7. Len(inode'[proc[p].Old]) >= 0
      <4>1. proc[p].Old \in 1 .. Len(inode) /\ proc[p].Old # new
        BY <1>1, <1>4, <2>2 DEF EditorFiles, FilesTyped, None
      <4>2. inode[proc[p].Old] \in Seq(Line) /\ inode'[proc[p].Old] = inode[proc[p].Old]
        BY <1>1, <1>6, <4>1, FilesAreLines
      <4>3. QED
        BY <4>2, LenProperties
    <3>8. proc'[p].off <= Len(inode'[proc'[p].Old]) /\ proc'[p].pos = Len(inode'[proc'[p].New])
      BY <1>1, <1>2, <1>5, <3>6, <3>7
    <3>9. QED
      BY <1>1, <1>2, <1>8, <3>1, <3>2, <3>4, <3>5, <3>8 DEF EditOK
  <2>3. QED
    BY <2>1, <2>2
<1>10. ASSUME NEW s \in BeingRead PROVE StaysReadable(s)
  <2>1. s \in 1 .. Len(inode) /\ s # dir["Path+"] /\ ~Unlinked(s)
    BY ReadersFile
  <2>2. inode'[s] = inode[s]
    BY <1>4, <1>6, <2>1
  <2>3. QED
    BY <1>1, <1>2, <2>1, <2>2, UntouchedStays
<1>11. QED
  BY <1>7, <1>9, <1>10 DEF EditorMoves, InOrder

LEMMA PrepareMoves ==
    ASSUME Typed, InOrder, NEW p \in Procs, Editing(p), Prepare(p)
    PROVE  EditorMoves(p)
<1>1. /\ GoesOn(p) /\ proc[p].pc = "prepare" /\ UNCHANGED dir /\ proc[p].kind # "check"
      /\ proc[p] \in Locals /\ Local(proc[p])
  BY OpensGoOn DEF Prepare, At, Editing, Typed, ProcTyped
<1>2. CASE UNCHANGED inode /\ Set(p, NotOpened(p))
  BY <1>1, <1>2, NotOpenedMoves
<1>3. CASE /\ proc[p].fd = "New" /\ dir["Path+"] # None /\ Set(p, Opened(p))
           /\ inode' = [inode EXCEPT ![proc[p].New] = << >>]
  BY <1>1, <1>3, EmptiedMoves
<1>4. CASE proc[p].fd # "New" /\ UNCHANGED inode /\ Set(p, Opened(p))
  <2>1. proc[p].fd = "S"
    BY <1>1, <1>4 DEF Local, Opens, Locals
  <2>2. Opened(p) = [proc[p] EXCEPT !.pc = "append"]
    BY <1>1, <2>1 DEF Opened
  <2>3. QED
    BY <1>1, <1>4, <2>2, GoesToMoves
<1>5. QED
  BY <1>2, <1>3, <1>4 DEF Prepare, Name, Inode

-----------------------------------------------------------------------------
(* The steps of an editor: copying Old to New.                             *)

LEMMA CopyFiles ==
    ASSUME Typed, InOrder, NEW p \in Procs, Editing(p), proc[p].pc \in {"copy", "move"}
    PROVE  /\ proc[p] \in Locals /\ Local(proc[p]) /\ ProcTyped /\ FilesTyped
           /\ EditorFiles(p) /\ EditOK(p) /\ Len(inode) \in Nat
           /\ proc[p].fd = "New" /\ proc[p].S = None
           /\ proc[p].New \in 1 .. Len(inode) /\ proc[p].New = dir["Path+"]
           /\ inode[proc[p].New] \in Seq(Line) /\ dir["Path"] # dir["Path+"]
           /\ proc[p].out \in Seq(Line) /\ proc[p].off \in Nat /\ proc[p].pos \in Nat
           /\ ToSet(Contents) = settled
           /\ proc[p].pc = "copy" => /\ proc[p].Old \in 1 .. Len(inode)
                                     /\ proc[p].Old = dir["Path"]
                                     /\ inode[proc[p].Old] \in Seq(Line)
                                     /\ Contents = inode[proc[p].Old]
<1>1. /\ proc[p] \in Locals /\ Local(proc[p]) /\ ProcTyped /\ FilesTyped
      /\ EditorFiles(p) /\ EditOK(p) /\ proc[p].New <= Len(inode) /\ Len(inode) \in Nat
      /\ proc[p].Old <= Len(inode)
  BY DEF Typed, ProcTyped, InOrder, FilesTyped
<1>2. proc[p].fd = "New" /\ proc[p].S = None /\ proc[p].New # None
      /\ (proc[p].pc = "copy" => proc[p].Old # None)
  BY <1>1 DEF Local, Opens
<1>3. /\ proc[p].out \in Seq(Line) /\ proc[p].off \in Nat /\ proc[p].pos \in Nat
      /\ proc[p].Old \in Nat /\ proc[p].New \in Nat
  BY <1>1 DEF Locals
<1>4. proc[p].New \in 1 .. Len(inode) /\ proc[p].New = dir["Path+"]
      /\ (proc[p].pc = "copy" => proc[p].Old \in 1 .. Len(inode) /\ proc[p].Old = dir["Path"])
  BY <1>1, <1>2, <1>3 DEF EditorFiles, None
<1>5. dir["Path"] # dir["Path+"]
  BY <1>2, <1>4 DEF InOrder
<1>6. ToSet(Contents) = settled
  BY <1>1, <1>2 DEF EditOK, Replaced
<1>7. proc[p].pc = "copy" => Contents = inode[proc[p].Old]
  BY <1>2, <1>4 DEF Contents
<1>8. QED
  BY <1>1, <1>2, <1>3, <1>4, <1>5, <1>6, <1>7, FilesAreLines

(* What is written to Path+ nobody reads yet.                              *)
LEMMA CopyUnread ==
    ASSUME Typed, InOrder, NEW p \in Procs, Editing(p), proc[p].pc \in {"copy", "move"},
           GoesOn(p), UNCHANGED dir, Len(inode') = Len(inode), proc'[p].pc # "closeNew",
           \A j \in 1 .. Len(inode) : j # proc[p].New => inode'[j] = inode[j]
    PROVE  /\ Contents' = Contents
           /\ \A s \in BeingRead : StaysReadable(s)
           /\ dir'["Path"] # dir'["Path+"]
<1>1. /\ proc[p].New = dir["Path+"] /\ dir["Path"] # dir["Path+"] /\ FilesTyped
  BY CopyFiles
<1>2. Contents' = Contents
  <2>1. dir["Path"] # None => dir["Path"] \in 1 .. Len(inode)
    BY <1>1, FilesAreLines
  <2>2. dir["Path"] # None => inode'[dir["Path"]] = inode[dir["Path"]]
    BY <1>1, <2>1
  <2>3. QED
    BY <2>2 DEF Contents
<1>3. ASSUME NEW s \in BeingRead PROVE StaysReadable(s)
  <2>1. s \in 1 .. Len(inode) /\ s # dir["Path+"] /\ ~Unlinked(s)
    BY ReadersFile
  <2>2. inode'[s] = inode[s]
    BY <1>1, <2>1
  <2>3. QED
    BY <2>1, <2>2, UntouchedStays
<1>4. QED
  BY <1>1, <1>2, <1>3

LEMMA CopyLineMoves ==
    ASSUME Typed, InOrder, NEW p \in Procs, Editing(p), CopyLine(p)
    PROVE  EditorMoves(p)
<1> DEFINE old  == proc[p].Old
           line == inode[old][proc[p].off + 1]
           o    == IF line[1] = proc[p].user THEN proc[p].out ELSE Append(proc[p].out, line)
           r    == IF line[1] = proc[p].user THEN TRUE ELSE proc[p].RetVal
           l    == [proc[p] EXCEPT !.off = @ + 1, !.RetVal = r, !.out = o]
<1>1. /\ GoesOn(p) /\ proc[p].pc = "copy" /\ UNCHANGED <<dir, inode>>
      /\ proc[p].off < Len(inode[old])
  BY EditsGoOn DEF CopyLine, At, files
<1>2. /\ proc[p] \in Locals /\ ProcTyped /\ FilesTyped
      /\ EditorFiles(p) /\ EditOK(p) /\ Len(inode) \in Nat
      /\ proc[p].fd = "New" /\ proc[p].S = None /\ proc[p].New \in 1 .. Len(inode)
      /\ inode[proc[p].New] \in Seq(Line) /\ dir["Path"] # dir["Path+"]
      /\ proc[p].out \in Seq(Line) /\ proc[p].off \in Nat
      /\ ToSet(Contents) = settled
      /\ old \in 1 .. Len(inode) /\ inode[old] \in Seq(Line)
  BY <1>1, CopyFiles
<1>3. proc'[p] = l
  <2>1. CASE line[1] = proc[p].user
    <3>1. Set(p, [proc[p] EXCEPT !.off = @ + 1, !.RetVal = TRUE])
      BY <2>1 DEF CopyLine
    <3>2. l = [proc[p] EXCEPT !.off = @ + 1, !.RetVal = TRUE]
      BY <1>2, <2>1 DEF Locals
    <3>3. QED
      BY <1>2, <3>1, <3>2, OneSets
  <2>2. CASE line[1] # proc[p].user
    <3>1. Set(p, [proc[p] EXCEPT !.off = @ + 1, !.out = Append(@, line)])
      BY <2>2 DEF CopyLine
    <3>2. l = [proc[p] EXCEPT !.off = @ + 1, !.out = Append(@, line)]
      BY <1>2, <2>2 DEF Locals
    <3>3. QED
      BY <1>2, <3>1, <3>2, OneSets
  <2>3. QED
    BY <2>1, <2>2
<1>4. /\ l.pc = "copy" /\ l.fd = "New" /\ l.S = None /\ l.Old = old /\ l.New = proc[p].New
      /\ l.off = proc[p].off + 1 /\ l.pos = proc[p].pos /\ l.out = o /\ l.user = proc[p].user
  BY <1>1, <1>2 DEF Locals
<1> HIDE DEF l
<1>5. /\ Contents' = Contents
      /\ \A s \in BeingRead : StaysReadable(s)
  BY <1>1, <1>3, <1>4, CopyUnread
<1>6. EditorFiles(p)'
  BY <1>1, <1>2, <1>3, <1>4 DEF EditorFiles
<1>7. Len(inode[old]) \in Nat /\ proc[p].off + 1 \in 1 .. Len(inode[old]) /\ line \in Line
  BY <1>1, <1>2, LenProperties, ElementOfSeq
<1>8. Seen(p)' = Seen(p) \union {line}
  <2>1. 1 .. (proc[p].off + 1) = 1 .. proc[p].off \union {proc[p].off + 1}
    BY <1>2
  <2>2. Seen(p)' = {inode[old][i] : i \in 1 .. (proc[p].off + 1)}
    BY <1>1, <1>3, <1>4 DEF Seen
  <2>3. QED
    BY <2>1, <2>2 DEF Seen
<1>9. Copy(p)' = Others(p, Seen(p))'
  <2>1. Copy(p) = Others(p, Seen(p))
    BY <1>1, <1>2 DEF EditOK
  <2>2. Others(p, Seen(p))' = {c \in Seen(p)' : c[1] # proc[p].user}
    BY <1>3, <1>4 DEF Others
  <2>3. Copy(p)' = ToSet(inode[proc[p].New]) \union ToSet(o)
    BY <1>1, <1>3, <1>4 DEF Copy
  <2> HIDE DEF line
  <2>4. CASE line[1] = proc[p].user
    BY <1>8, <2>1, <2>2, <2>3, <2>4 DEF Others, Copy
  <2>5. CASE line[1] # proc[p].user
    <3>1. ToSet(o) = ToSet(proc[p].out) \union {line}
      BY <1>2, <1>7, <2>5, SetOfAppend
    <3>2. QED
      BY <1>8, <2>1, <2>2, <2>3, <2>5, <3>1 DEF Others, Copy
  <2>6. QED
    BY <2>4, <2>5
<1>10. proc'[p].off <= Len(inode'[old]) /\ proc'[p].pos = Len(inode'[proc[p].New])
  BY <1>1, <1>2, <1>3, <1>4, <1>7 DEF EditOK
<1>11. EditOK(p)'
  <2>1. settled' = settled
    BY <1>1 DEF GoesOn, Quiet
  <2>2. QED
    BY <1>2, <1>5, <1>3, <1>4, <1>9, <1>10, <2>1 DEF EditOK, Replaced
<1>12. QED
  BY <1>1, <1>2, <1>5, <1>6, <1>11 DEF EditorMoves

LEMMA CopyPushMoves ==
    ASSUME Typed, InOrder, NEW p \in Procs, Editing(p), CopyPush(p)
    PROVE  EditorMoves(p)
<1> DEFINE l == [proc[p] EXCEPT !.pos = @ + BufLines, !.out = << >>]
           new == proc[p].New
           old == proc[p].Old
<1>1. /\ GoesOn(p) /\ proc[p].pc = "copy" /\ UNCHANGED dir /\ PushNew(p)
      /\ Set(p, l) /\ Len(proc[p].out) = BufLines
  BY EditsGoOn DEF CopyPush, At
<1>2. /\ proc[p] \in Locals /\ ProcTyped /\ FilesTyped
      /\ EditorFiles(p) /\ EditOK(p) /\ Len(inode) \in Nat
      /\ proc[p].fd = "New" /\ proc[p].S = None /\ new \in 1 .. Len(inode)
      /\ new = dir["Path+"] /\ dir["Path"] # dir["Path+"]
      /\ inode[new] \in Seq(Line) /\ proc[p].out \in Seq(Line) /\ proc[p].pos \in Nat
      /\ ToSet(Contents) = settled
      /\ old \in 1 .. Len(inode) /\ old = dir["Path"] /\ inode[old] \in Seq(Line)
  BY <1>1, CopyFiles
<1>3. /\ proc[p].off <= Len(inode[old]) /\ proc[p].pos = Len(inode[new])
      /\ Copy(p) = Others(p, Seen(p))
  BY <1>1, <1>2 DEF EditOK
<1>4. /\ Len(inode') = Len(inode) /\ inode'[old] = inode[old]
      /\ \A j \in 1 .. Len(inode) : j # new => inode'[j] = inode[j]
      /\ inode'[new] = inode[new] \o proc[p].out
  <2>1. /\ Len(inode') = Len(inode)
        /\ \A j \in 1 .. Len(inode) : j # new => inode'[j] = inode[j]
        /\ inode'[new] = WriteAt(inode[new], proc[p].pos, proc[p].out)
    BY <1>1, <1>2, PushTyped DEF None
  <2>2. WriteAt(inode[new], proc[p].pos, proc[p].out) = inode[new] \o proc[p].out
    BY <1>2, <1>3, WriteAtTyped
  <2>3. QED
    BY <1>2, <2>1, <2>2
<1>5. /\ proc'[p] = l /\ l.pc = "copy" /\ l.fd = "New" /\ l.S = None /\ l.Old = old
      /\ l.New = new /\ l.off = proc[p].off /\ l.pos = proc[p].pos + BufLines
      /\ l.out = << >> /\ l.user = proc[p].user
  BY <1>1, <1>2, OneSets DEF Locals
<1> HIDE DEF l
<1>6. /\ Contents' = Contents
      /\ \A s \in BeingRead : StaysReadable(s)
  BY <1>1, <1>4, <1>5, CopyUnread
<1>7. EditorFiles(p)'
  BY <1>1, <1>2, <1>5 DEF EditorFiles
<1>8. Copy(p)' = Copy(p)
  <2>1. ToSet(inode'[new]) = ToSet(inode[new]) \union ToSet(proc[p].out)
    BY <1>2, <1>4, SetOfConcat
  <2>2. Copy(p)' = ToSet(inode'[new]) \union ToSet(<< >>)
    BY <1>5 DEF Copy
  <2>3. QED
    BY <2>1, <2>2, SetOfNone DEF Copy
<1>9. Others(p, Seen(p))' = Others(p, Seen(p))
  BY <1>4, <1>5 DEF Others, Seen
<1>10. proc'[p].pos = Len(inode'[new])
  <2>1. Len(inode'[new]) = Len(inode[new]) + Len(proc[p].out)
    BY <1>2, <1>4, ConcatProperties
  <2>2. QED
    BY <1>1, <1>3, <1>5, <2>1
<1>11. EditOK(p)'
  <2>1. settled' = settled
    BY <1>1 DEF GoesOn, Quiet
  <2>2. QED
    BY <1>2, <1>3, <1>4, <1>5, <1>6, <1>8, <1>9, <1>10, <2>1 DEF EditOK, Replaced
<1>12. QED
  BY <1>1, <1>2, <1>6, <1>7, <1>11 DEF EditorMoves

LEMMA CloseOldMoves ==
    ASSUME Typed, InOrder, NEW p \in Procs, Editing(p), CloseOld(p)
    PROVE  EditorMoves(p)
<1> DEFINE l == [proc[p] EXCEPT !.pc = "move", !.Old = None, !.off = 0]
           new == proc[p].New
           old == proc[p].Old
<1>1. /\ GoesOn(p) /\ proc[p].pc = "copy" /\ UNCHANGED <<dir, inode>> /\ Set(p, l)
      /\ proc[p].off >= Len(inode[old])
  BY EditsGoOn DEF CloseOld, At
<1>2. /\ proc[p] \in Locals /\ ProcTyped /\ FilesTyped /\ Contents = inode[old]
      /\ EditorFiles(p) /\ EditOK(p) /\ proc[p].fd = "New" /\ proc[p].S = None
      /\ new = dir["Path+"] /\ proc[p].off \in Nat
      /\ ToSet(Contents) = settled /\ inode[old] \in Seq(Line)
  BY <1>1, CopyFiles
<1>3. /\ proc[p].off <= Len(inode[old]) /\ proc[p].pos = Len(inode[new])
      /\ Copy(p) = Others(p, Seen(p))
  BY <1>1, <1>2 DEF EditOK
<1>4. Seen(p) = settled
  <2>1. proc[p].off = Len(inode[old])
    BY <1>1, <1>2, <1>3, LenProperties
  <2>2. QED
    BY <1>2, <2>1, SetOfLines DEF Seen
<1>5. /\ proc'[p] = l /\ l.pc = "move" /\ l.fd = "New" /\ l.S = None /\ l.Old = None
      /\ l.New = new /\ l.pos = proc[p].pos /\ l.out = proc[p].out /\ l.user = proc[p].user
  BY <1>1, <1>2, OneSets DEF Locals
<1> HIDE DEF l
<1>6. EditorFiles(p)'
  BY <1>1, <1>2, <1>5 DEF EditorFiles
<1>7. settled' = settled /\ Contents' = Contents
  BY <1>1 DEF GoesOn, Quiet, Contents
<1>8. Copy(p)' = Copy(p) /\ Others(p, settled)' = Others(p, settled)
  BY <1>1, <1>5, <1>7 DEF Copy, Others
<1>9. EditOK(p)'
  BY <1>1, <1>2, <1>3, <1>4, <1>5, <1>7, <1>8 DEF EditOK, Replaced
<1>10. QED
  BY <1>1, <1>5, <1>6, <1>9, UntouchedAll DEF EditorMoves

-----------------------------------------------------------------------------
(* The steps of an editor: Path+ takes the place of Path, or goes.         *)

LEMMA RenameMoves ==
    ASSUME Typed, InOrder, NEW p \in Procs, Editing(p), GoesOn(p), proc[p].pc = "move",
           UNCHANGED inode, proc[p].RetVal,
           dir' = [dir EXCEPT !["Path"] = dir["Path+"], !["Path+"] = None],
           Set(p, [proc[p] EXCEPT !.pc = "closeNew"])
    PROVE  EditorMoves(p)
<1> DEFINE l == [proc[p] EXCEPT !.pc = "closeNew"]
           new == proc[p].New
<1>1. /\ proc[p] \in Locals /\ Local(proc[p]) /\ ProcTyped /\ FilesTyped /\ EditOK(p)
      /\ new = dir["Path+"] /\ new \in 1 .. Len(inode)
      /\ proc[p].fd = "New" /\ proc[p].S = None
  BY CopyFiles
<1>2. dir'["Path"] = new /\ dir'["Path+"] = None /\ new # None
  BY <1>1 DEF FilesTyped, None
<1>3. /\ proc'[p] = l /\ l.pc = "closeNew" /\ l.fd = "New" /\ l.S = None /\ l.Old = None
      /\ l.New = new /\ l.pos = proc[p].pos /\ l.out = proc[p].out /\ l.user = proc[p].user
      /\ l.RetVal
  BY <1>1, OneSets DEF Locals, Local, Opens
<1> HIDE DEF l
<1>4. EditorFiles(p)'
  BY <1>2, <1>3 DEF EditorFiles
<1>5. settled' = settled /\ Contents' = inode[new]
  BY <1>2 DEF GoesOn, Quiet, Contents
<1>6. Copy(p)' = Copy(p) /\ Others(p, settled)' = Others(p, settled)
  BY <1>3, <1>5 DEF Copy, Others
<1>7. EditOK(p)'
  <2>1. proc[p].pos = Len(inode[new]) /\ Copy(p) = Others(p, settled)
    BY <1>1 DEF EditOK
  <2>2. Replaced(proc'[p])
    BY <1>3 DEF Replaced
  <2>3. ToSet(Contents)' = ToSet(inode[new])
    BY <1>5
  <2>4. QED
    BY <1>3, <1>6, <2>1, <2>2, <2>3 DEF EditOK
<1>8. ASSUME NEW s \in BeingRead PROVE StaysReadable(s)
  <2>1. s \in 1 .. Len(inode) /\ s # dir["Path+"] /\ ~Unlinked(s)
    BY ReadersFile
  <2>2. s # dir'["Path+"] /\ inode'[s] = inode[s]
    BY <1>2, <2>1 DEF None
  <2>3. QED
    BY <1>1, <1>3, <2>1, <2>2, UntouchedStays
<1>9. QED
  BY <1>2, <1>4, <1>7, <1>8 DEF EditorMoves

LEMMA UnlinkMoves ==
    ASSUME Typed, InOrder, NEW p \in Procs, Editing(p), GoesOn(p), proc[p].pc = "move",
           UNCHANGED inode, ~proc[p].RetVal, dir' = [dir EXCEPT !["Path+"] = None],
           Set(p, [proc[p] EXCEPT !.pc = "closeNew", !.RetVal = FALSE])
    PROVE  EditorMoves(p)
<1> DEFINE l == [proc[p] EXCEPT !.pc = "closeNew", !.RetVal = FALSE]
           new == proc[p].New
<1>1. /\ proc[p] \in Locals /\ Local(proc[p]) /\ ProcTyped /\ FilesTyped /\ EditOK(p)
      /\ new = dir["Path+"] /\ new \in 1 .. Len(inode) /\ dir["Path"] # dir["Path+"]
      /\ proc[p].fd = "New" /\ proc[p].S = None /\ ToSet(Contents) = settled
  BY CopyFiles
<1>2. dir'["Path"] = dir["Path"] /\ dir'["Path+"] = None
  BY <1>1 DEF FilesTyped
<1>3. /\ proc'[p] = l /\ l.pc = "closeNew" /\ l.fd = "New" /\ l.S = None /\ l.Old = None
      /\ l.New = new /\ l.pos = proc[p].pos /\ l.out = proc[p].out /\ l.user = proc[p].user
      /\ l.RetVal = FALSE /\ ~l.added
  BY <1>1, OneSets DEF Locals, Local, Opens
<1> HIDE DEF l
<1>4. EditorFiles(p)'
  BY <1>1, <1>2, <1>3 DEF EditorFiles
<1>5. settled' = settled /\ Contents' = Contents
  BY <1>2 DEF GoesOn, Quiet, Contents
<1>6. Edited(p)' = settled
  BY <1>3, <1>5 DEF Edited
<1>7. EditOK(p)'
  <2>1. proc[p].pos = Len(inode[new])
    BY <1>1 DEF EditOK
  <2>2. ~Replaced(proc'[p])
    BY <1>3 DEF Replaced
  <2>3. ToSet(Contents)' = settled
    BY <1>1, <1>5
  <2>4. QED
    BY <1>3, <1>6, <2>1, <2>2, <2>3 DEF EditOK
<1>8. ASSUME NEW s \in BeingRead PROVE StaysReadable(s)
  <2>1. s \in 1 .. Len(inode) /\ s # dir["Path+"] /\ ~Unlinked(s)
    BY ReadersFile
  <2>2. s # dir'["Path+"] /\ inode'[s] = inode[s]
    BY <1>2, <2>1 DEF None
  <2>3. QED
    BY <1>1, <1>3, <2>1, <2>2, UntouchedStays
<1>9. QED
  BY <1>2, <1>4, <1>7, <1>8 DEF EditorMoves

LEMMA MoveMoves ==
    ASSUME Typed, InOrder, NEW p \in Procs, Editing(p), Move(p)
    PROVE  EditorMoves(p)
<1>1. GoesOn(p) /\ proc[p].pc = "move" /\ UNCHANGED inode
  BY EditsGoOn DEF Move, At
<1>2. dir["Path+"] # None
  BY <1>1, CopyFiles DEF None
<1>3. CASE /\ proc[p].RetVal
           /\ dir' = [dir EXCEPT !["Path"] = dir["Path+"], !["Path+"] = None]
           /\ Set(p, [proc[p] EXCEPT !.pc = "closeNew"])
  BY <1>1, <1>3, RenameMoves
<1>4. CASE /\ ~proc[p].RetVal /\ dir' = [dir EXCEPT !["Path+"] = None]
           /\ Set(p, [proc[p] EXCEPT !.pc = "closeNew", !.RetVal = FALSE])
  BY <1>1, <1>4, UnlinkMoves
<1>5. QED
  BY <1>2, <1>3, <1>4 DEF Move

(* What a call is left with when its Delete is done.                       *)
LEMMA AfterDeleteKeeps ==
    ASSUME NEW p \in Procs, proc[p] \in Locals, Local(proc[p]),
           proc[p].pc \in {"closeNew", "abandon"},
           CloseNew(p) \/ Abandon(p), ProcTyped
    PROVE  LET l == proc'[p] IN
           /\ l.pc \in {"open", "return"} /\ (l.fd = "S" \/ l.pc = "return")
           /\ l.S = None /\ l.Old = None /\ l.New = None
           /\ l.RetVal = proc[p].RetVal /\ l.added = proc[p].added
<1> DEFINE a == AfterDelete(p)
           l == [a EXCEPT !.Old = None, !.New = None, !.pos = 0, !.out = << >>]
<1>1. proc'[p] = l
  BY CloseNewSets, AbandonSets, OneSets
<1>2. a \in Locals /\ a.S = proc[p].S /\ a.pc \in {"open", "return"}
      /\ (a.fd = "S" \/ a.pc = "return")
  BY DEF AfterDelete, Locals, Steps
<1>3. a.RetVal = proc[p].RetVal /\ a.added = proc[p].added
  BY DEF AfterDelete, Locals
<1>4. proc[p].S = None
  BY DEF Local, Opens
<1> HIDE DEF a
<1>5. /\ l.pc = a.pc /\ l.fd = a.fd /\ l.S = a.S /\ l.Old = None /\ l.New = None
      /\ l.RetVal = a.RetVal /\ l.added = a.added
  BY <1>2 DEF Locals
<1> HIDE DEF l
<1>6. QED
  BY <1>1, <1>2, <1>3, <1>4, <1>5

LEMMA AbandonMoves ==
    ASSUME Typed, InOrder, NEW p \in Procs, Editing(p), Abandon(p)
    PROVE  EditorMoves(p)
<1>1. /\ GoesOn(p) /\ proc[p].pc = "abandon" /\ UNCHANGED <<dir, inode>>
      /\ proc[p] \in Locals /\ Local(proc[p]) /\ ProcTyped /\ EditOK(p)
  BY EditsGoOn DEF Abandon, At, Typed, ProcTyped, InOrder
<1>2. /\ proc'[p].pc \in {"open", "return"} /\ (proc'[p].fd = "S" \/ proc'[p].pc = "return")
      /\ proc'[p].S = None /\ proc'[p].Old = None /\ proc'[p].New = None
      /\ proc'[p].RetVal = proc[p].RetVal /\ proc'[p].added = proc[p].added
  BY <1>1, AfterDeleteKeeps
<1>3. ToSet(Contents) = settled /\ ~proc[p].RetVal /\ ~proc[p].added
  BY <1>1 DEF EditOK, Replaced, Local, Opens
<1>4. Edited(p)' = settled /\ ToSet(Contents)' = settled
  <2>1. Edited(p) = settled
    BY <1>3 DEF Edited
  <2>2. QED
    BY <1>1, <1>2, <1>3, <2>1, EditedSame DEF Contents
<1>5. EditorFiles(p)'
  BY <1>2 DEF EditorFiles
<1>6. EditOK(p)'
  BY <1>2, <1>4 DEF EditOK, Replaced
<1>7. QED
  BY <1>1, <1>2, <1>5, <1>6, UntouchedAll DEF EditorMoves

LEMMA CloseNewMoves ==
    ASSUME Typed, InOrder, NEW p \in Procs, Editing(p), CloseNew(p)
    PROVE  EditorMoves(p)
<1> DEFINE new == proc[p].New
           out == proc[p].out
<1>1. /\ GoesOn(p) /\ proc[p].pc = "closeNew" /\ UNCHANGED dir
      /\ proc[p] \in Locals /\ Local(proc[p]) /\ ProcTyped /\ EditOK(p) /\ EditorFiles(p)
      /\ FilesTyped /\ Len(inode) \in Nat /\ \A q \in Procs \ {p} : proc'[q] = proc[q]
  <2>1. GoesOn(p)
    BY EditsGoOn
  <2>2. QED
    BY <2>1 DEF CloseNew, At, Typed, ProcTyped, InOrder, FilesTyped, GoesOn
<1>2. /\ proc'[p].pc \in {"open", "return"} /\ (proc'[p].fd = "S" \/ proc'[p].pc = "return")
      /\ proc'[p].S = None /\ proc'[p].Old = None /\ proc'[p].New = None
      /\ proc'[p].RetVal = proc[p].RetVal /\ proc'[p].added = proc[p].added
  BY <1>1, AfterDeleteKeeps
<1>3. /\ new \in 1 .. Len(inode) /\ inode[new] \in Seq(Line) /\ out \in Seq(Line)
      /\ ~proc[p].added /\ dir["Path+"] = None /\ (new = dir["Path"] <=> proc[p].RetVal)
      /\ proc[p].pos \in Nat /\ proc[p].pos = Len(inode[new])
  <2>1. new # None /\ new \in Nat /\ new <= Len(inode) /\ ~proc[p].added
        /\ out \in Seq(Line) /\ proc[p].pos \in Nat
    BY <1>1 DEF Local, Opens, Locals, ProcTyped
  <2>2. new \in 1 .. Len(inode)
    BY <1>1, <2>1 DEF None
  <2>3. QED
    BY <1>1, <2>1, <2>2, FilesAreLines DEF EditorFiles, EditOK
<1>4. /\ Len(inode') = Len(inode) /\ inode'[new] = inode[new] \o out
      /\ \A j \in 1 .. Len(inode) : j # new => inode'[j] = inode[j]
  <2>1. CASE PushNew(p)
    <3>1. /\ Len(inode') = Len(inode)
          /\ \A j \in 1 .. Len(inode) : j # new => inode'[j] = inode[j]
          /\ inode'[new] = WriteAt(inode[new], proc[p].pos, out)
      BY <1>1, <1>3, <2>1, PushTyped DEF None
    <3>2. WriteAt(inode[new], proc[p].pos, out) = inode[new] \o out
      BY <1>3, WriteAtTyped
    <3>3. QED
      BY <3>1, <3>2
  <2>2. CASE out = << >> /\ UNCHANGED inode
    BY <1>3, <2>2, ConcatEmptySeq
  <2>3. QED
    BY <2>1, <2>2 DEF CloseNew
<1>5. ToSet(inode'[new]) = Copy(p)
  BY <1>3, <1>4, SetOfConcat DEF Copy
<1>6. EditorFiles(p)'
  BY <1>2 DEF EditorFiles
<1>7. Edited(p)' = Edited(p)
  BY <1>1, <1>2, EditedSame
<1>8. CASE proc[p].RetVal
  <2>1. Copy(p) = Others(p, settled) /\ Edited(p) = Others(p, settled)
    BY <1>1, <1>3, <1>8 DEF EditOK, Replaced, Edited
  <2>2. ToSet(Contents)' = Others(p, settled)
    <3>1. Contents' = inode'[new]
      BY <1>1, <1>3, <1>8 DEF Contents, None
    <3>2. QED
      BY <1>5, <2>1, <3>1
  <2>3. EditOK(p)'
    BY <1>2, <1>7, <2>1, <2>2 DEF EditOK, Replaced
  <2>4. May' = May /\ Must' = Must /\ settled \subseteq May /\ Must \subseteq Others(p, settled)
    <3>1. p \in Running("add") \union Running("delete")
      <4>1. proc[p].kind \in {"add", "delete"}
        BY <1>1 DEF Local, Opens, Editing, Locals, Kinds
      <4>2. QED
        BY <1>1, <4>1 DEF Running
    <3>2. Must \subseteq Others(p, settled)
      BY <3>1 DEF Must, Others
    <3>3. May' = May /\ Must' = Must
      <4>1. \A q \in Procs : /\ proc'[q].pc = "idle" <=> proc[q].pc = "idle"
                             /\ proc'[q].kind = proc[q].kind
                             /\ proc'[q].user = proc[q].user
                             /\ proc'[q].password = proc[q].password
        BY <1>1 DEF GoesOn
      <4>2. settled' = settled /\ \A k : Running(k)' = Running(k)
        BY <1>1, <4>1 DEF Running, GoesOn, Quiet
      <4>3. \A q \in Procs : Pair(q)' = Pair(q)
        BY <4>1 DEF Pair
      <4>4. \A k : Running(k) \subseteq Procs
        BY DEF Running
      <4>5. May' = May
        BY <4>2, <4>3, <4>4 DEF May
      <4>6. Must' = Must
        BY <4>1, <4>2, <4>4 DEF Must
      <4>7. QED
        BY <4>5, <4>6
    <3>4. QED
      BY <3>2, <3>3 DEF May
  <2>5. ASSUME NEW s \in BeingRead PROVE StaysReadable(s)
    <3>1. s \in 1 .. Len(inode) /\ s # dir["Path+"] /\ ~Unlinked(s)
      BY ReadersFile
    <3>2. CASE s # new
      BY <1>1, <1>2, <1>4, <3>1, <3>2, UntouchedStays
    <3>3. CASE s = new
      <4>1. ToSet(out) \subseteq May' /\ Must' \subseteq ToSet(inode'[new])
        BY <1>5, <2>1, <2>4 DEF Copy, Others
      <4>2. FileGrows(s)
        BY <1>3, <1>4, <3>3, <4>1 DEF FileGrows
      <4>3. ~Unlinked(s)'
        BY <1>1, <1>2, <3>1 DEF Unlinked, At
      <4>4. QED
        BY <1>1, <3>1, <3>3, <4>2, <4>3 DEF StaysReadable
    <3>4. QED
      BY <3>2, <3>3
  <2>6. QED
    BY <1>1, <1>6, <2>3, <2>5 DEF EditorMoves, InOrder
<1>9. CASE ~proc[p].RetVal
  <2>1. ToSet(Contents)' = ToSet(Contents)
    <3>1. dir["Path"] # None => inode'[dir["Path"]] = inode[dir["Path"]]
      BY <1>1, <1>3, <1>4, <1>9, FilesAreLines
    <3>2. Contents' = Contents
      BY <1>1, <3>1 DEF Contents
    <3>3. QED
      BY <3>2
  <2>2. ToSet(Contents) = Edited(p)
    BY <1>1, <1>9 DEF EditOK, Replaced
  <2>3. EditOK(p)'
    BY <1>2, <1>7, <2>1, <2>2 DEF EditOK, Replaced
  <2>4. ASSUME NEW s \in BeingRead PROVE StaysReadable(s)
    <3>1. s \in 1 .. Len(inode) /\ s # dir["Path+"] /\ ~Unlinked(s)
      BY ReadersFile
    <3>2. s # new
      BY <1>1, <1>9, <3>1 DEF Unlinked, At
    <3>3. QED
      BY <1>1, <1>2, <1>4, <3>1, <3>2, UntouchedStays
  <2>5. QED
    BY <1>1, <1>6, <2>3, <2>4 DEF EditorMoves, InOrder
<1>10. QED
  BY <1>8, <1>9

LEMMA AppendLineMoves ==
    ASSUME Typed, InOrder, NEW p \in Procs, Editing(p), AppendLine(p)
    PROVE  EditorMoves(p)
<1> DEFINE at == proc[p].S
           line == Pair(p)
           l == [proc[p] EXCEPT !.pc = "return", !.S = None, !.added = TRUE]
<1>1. GoesOn(p)
  BY EditsGoOn
<1>2. /\ proc[p].pc = "append" /\ UNCHANGED dir /\ Set(p, l)
      /\ inode' = [inode EXCEPT ![at] = Append(@, line)]
      /\ proc[p] \in Locals /\ Local(proc[p]) /\ ProcTyped /\ EditOK(p) /\ EditorFiles(p)
      /\ FilesTyped /\ Len(inode) \in Nat
  BY DEF AppendLine, At, Typed, ProcTyped, InOrder, FilesTyped
<1>3. \A q \in Procs \ {p} : proc'[q] = proc[q]
  BY <1>1 DEF GoesOn
<1>4. /\ proc'[p] = l /\ l.pc = "return" /\ l.fd = "S" /\ l.S = None /\ l.Old = None
      /\ l.New = None /\ l.user = proc[p].user /\ l.password = proc[p].password
      /\ l.added /\ (l.RetVal <=> proc[p].RetVal)
  <2>1. proc[p].fd = "S" /\ proc[p].Old = None /\ proc[p].New = None
    BY <1>2 DEF Local, Opens
  <2>2. proc'[p] = l
    BY <1>2, OneSets
  <2>3. /\ l.pc = "return" /\ l.fd = "S" /\ l.S = None /\ l.Old = None
        /\ l.New = None /\ l.user = proc[p].user /\ l.password = proc[p].password
        /\ l.added
    BY <1>2, <2>1 DEF Locals
  <2>4. l.RetVal = proc[p].RetVal
    BY <1>2 DEF Locals
  <2>5. QED
    BY <2>2, <2>3, <2>4
<1> HIDE DEF l
<1>5. at \in 1 .. Len(inode) /\ at = dir["Path"] /\ inode[at] \in Seq(Line) /\ line \in Line
  <2>1. at # None /\ at \in Nat /\ at <= Len(inode)
    BY <1>2 DEF Local, Opens, Locals, ProcTyped
  <2>2. line \in Line
    BY <1>2 DEF Local, Pair, Line, Credential
  <2>3. QED
    BY <1>2, <2>1, <2>2, FilesAreLines DEF EditorFiles, None
<1> HIDE DEF line
<1>6. /\ Len(inode') = Len(inode) /\ inode'[at] = Append(inode[at], line)
      /\ \A j \in 1 .. Len(inode) : j # at => inode'[j] = inode[j]
  <2>1. Append(inode[at], line) \in Seq(Line)
    BY <1>5, AppendProperties
  <2>2. QED
    BY <1>2, <1>5, <2>1, WrittenTyped
<1>7. /\ inode'[at] = inode[at] \o <<line>> /\ <<line>> \in Seq(Line) /\ ToSet(<<line>>) = {line}
      /\ ToSet(inode'[at]) = ToSet(inode[at]) \union {line}
  BY <1>5, <1>6, SetOfAppend
<1>8. EditorFiles(p)'
  BY <1>4 DEF EditorFiles
<1>9. ToSet(Contents)' = ToSet(Contents) \union {line}
  <2>1. Contents = inode[at] /\ Contents' = inode'[at]
    BY <1>2, <1>5 DEF Contents, None
  <2>2. QED
    BY <1>7, <2>1
<1>10. EditOK(p)'
  <2>1. ToSet(Contents) = Edited(p) /\ ~proc[p].added
    BY <1>2 DEF EditOK, Replaced, Local, Opens
  <2>2. Edited(p)' = Edited(p) \union {line}
    <3>1. Others(p, settled)' = Others(p, settled) /\ settled' = settled
      BY <1>1 DEF GoesOn, Quiet, Others
    <3>2. Pair(p)' = line
      BY <1>4 DEF Pair, line
    <3>3. Edited(p)' = (IF proc[p].RetVal THEN Others(p, settled) ELSE settled) \union {line}
      BY <1>4, <3>1, <3>2 DEF Edited
    <3>4. Edited(p) = IF proc[p].RetVal THEN Others(p, settled) ELSE settled
      BY <2>1 DEF Edited
    <3>5. QED
      BY <3>3, <3>4
  <2>3. QED
    BY <1>4, <1>9, <2>1, <2>2 DEF EditOK, Replaced
<1>11. line \in May'
  <2>1. p \in Running("add") \union Running("append") /\ Running("add") \union Running("append") \subseteq Procs
    BY <1>2 DEF Running, Local, Editing, Locals, Kinds, Opens
  <2>2. p \in Running("add")' \union Running("append")'
    BY <1>1, <2>1 DEF GoesOn, Running
  <2>3. Pair(p)' = line
    BY <1>4 DEF Pair, line
  <2>4. QED
    BY <2>2, <2>3 DEF May
<1>12. ASSUME NEW s \in BeingRead PROVE StaysReadable(s)
  <2>1. s \in 1 .. Len(inode) /\ s # dir["Path+"] /\ ~Unlinked(s)
    BY ReadersFile
  <2>2. CASE s # at
    BY <1>1, <1>2, <1>4, <1>6, <2>1, <2>2, UntouchedStays
  <2>3. CASE s = at
    <3>1. ToSet(<<line>>) \subseteq May'
      BY <1>7, <1>11
    <3>2. Unwritten(s) => Unwritten(s)'
      BY <1>2, <1>3 DEF Unwritten, At
    <3>3. FileGrows(s)
      BY <1>7, <2>3, <3>1, <3>2 DEF FileGrows
    <3>4. ~Unlinked(s)'
      BY <1>3, <1>4, <2>1 DEF Unlinked, At
    <3>5. QED
      BY <1>2, <2>1, <3>3, <3>4 DEF StaysReadable
  <2>4. QED
    BY <2>2, <2>3
<1>13. QED
  BY <1>2, <1>8, <1>10, <1>12 DEF EditorMoves, InOrder

-----------------------------------------------------------------------------
(* The steps of a check.                                                   *)

LEMMA CheckSees ==
    ASSUME Typed, InOrder, NEW q \in Running("check")
    PROVE  /\ q \in Procs /\ ~Editing(q) /\ proc[q].kind = "check" /\ proc[q] \in Locals
           /\ Local(proc[q]) /\ ProcTyped /\ FilesTyped /\ Len(inode) \in Nat
           /\ ReaderFiles(q) /\ CheckOK(q) /\ proc[q].fd = "S"
BY DEF Running, Editing, InOrder, Typed, ProcTyped, FilesTyped, Local

(* What a check has when it has opened the file.                           *)
LEMMA CheckOpens ==
    ASSUME Typed, Roles, InOrder, NEW p \in Running("check"), Open(p)
    PROVE  InOrder'
<1>1. /\ p \in Procs /\ ~Editing(p) /\ proc[p].kind = "check" /\ proc[p] \in Locals
      /\ Local(proc[p]) /\ ProcTyped /\ FilesTyped /\ Len(inode) \in Nat
      /\ ReaderFiles(p) /\ CheckOK(p) /\ proc[p].fd = "S"
  BY CheckSees
<1>2. GoesOn(p) /\ proc[p].pc = "open"
  BY <1>1, OpensGoOn DEF Open, At
<1>3. Name(p) = "Path" /\ ReadOnly(p)
  BY <1>1 DEF Name, ReadOnly
<1>4. /\ May' = May /\ Must' = Must /\ possible' = possible /\ certain' = certain
      /\ Pair(p)' = Pair(p)
  BY <1>1, <1>2, GoesOnKeeps DEF GoesOn, Quiet
<1>5. ~proc[p].RetVal /\ proc[p].off = 0
  BY <1>1, <1>2 DEF Local
<1>6. CASE UNCHANGED <<dir, inode>> /\ Set(p, NotOpened(p))
  <2> DEFINE l == [proc[p] EXCEPT !.pc = "return", !.S = None, !.blind = TRUE]
  <2>1. proc'[p] = l
    BY <1>1, <1>6, OneSets DEF NotOpened
  <2>2. l.pc = "return" /\ l.S = None /\ l.blind
    BY <1>1 DEF Locals
  <2>3. l.RetVal = proc[p].RetVal
    BY <1>1 DEF Locals
  <2> HIDE DEF l
  <2>4. ReaderFiles(p)'
    BY <2>1, <2>2 DEF ReaderFiles
  <2>5. CheckOK(p)'
    BY <1>1, <1>4, <1>5, <2>1, <2>2, <2>3 DEF CheckOK
  <2>6. QED
    BY <1>1, <1>2, <1>6, <2>1, <2>2, <2>4, <2>5, ReaderStep
<1>7. CASE dir["Path"] # None /\ UNCHANGED <<dir, inode>> /\ Set(p, Descriptor(p, dir["Path"]))
  <2> DEFINE s == dir["Path"]
             l == [proc[p] EXCEPT !.pc = "lock", !.S = s]
  <2>1. proc'[p] = l
    BY <1>1, <1>7, OneSets DEF Descriptor
  <2>2. l.pc = "lock" /\ l.S = s /\ l.off = 0
    BY <1>1, <1>5 DEF Locals
  <2>3. l.RetVal = proc[p].RetVal
    BY <1>1 DEF Locals
  <2> HIDE DEF l
  <2>4. s \in 1 .. Len(inode) /\ Contents = inode[s] /\ inode[s] \in Seq(Line)
    BY <1>1, <1>7, FilesAreLines
  <2>5. ~Unlinked(s)
    <3>1. ASSUME NEW q \in Procs, At(q, "closeNew"), ~proc[q].RetVal PROVE proc[q].New # s
      <4>1. Editing(q) /\ EditorFiles(q)
        BY <3>1 DEF At, Editing, Local, Typed, ProcTyped, InOrder
      <4>2. QED
        BY <3>1, <4>1 DEF EditorFiles, At
    <3>2. QED
      BY <3>1 DEF Unlinked
  <2>6. ReaderFiles(p)'
    <3>1. s # dir["Path+"]
      BY <1>7 DEF InOrder
    <3>2. \A q \in Procs : At(q, "closeNew")' => At(q, "closeNew") /\ proc'[q] = proc[q]
      BY <1>2, <2>1, <2>2 DEF GoesOn, At
    <3>3. \A q \in Procs : ~(At(q, "closeNew") /\ ~proc[q].RetVal /\ proc[q].New = s)
      BY <2>5 DEF Unlinked
    <3>4. ~Unlinked(dir["Path"])'
      BY <1>7, <3>2, <3>3 DEF Unlinked
    <3>5. QED
      BY <1>7, <2>1, <2>2, <3>1, <3>4 DEF ReaderFiles
  <2>7. ToSet(inode[s]) \subseteq possible[p]
    BY <1>1, <2>4, FileIsKept DEF CheckOK
  <2>8. ASSUME Pair(p) \in certain[p]
        PROVE  Ahead(proc[p], Pair(p))' \/ Unwritten(proc[p].S)'
    <3>1. Pair(p) \in Must
      BY <1>1, <2>8 DEF CheckOK
    <3>2. CASE Unwritten(s)
      <4>1. PICK q \in Procs : At(q, "closeNew") /\ proc[q].New = s
        BY <3>2 DEF Unwritten
      <4>2. proc'[q] = proc[q]
        BY <1>2, <4>1 DEF GoesOn, At
      <4>3. Unwritten(proc[p].S)'
        BY <2>1, <2>2, <4>1, <4>2 DEF Unwritten, At
      <4>4. QED
        BY <4>3
    <3>3. CASE ~Unwritten(s)
      <4>1. Pair(p) \in ToSet(inode[s])
        BY <2>4, <3>1, <3>3, FileIsKept
      <4>2. PICK i \in 1 .. Len(inode[s]) : inode[s][i] = Pair(p)
        BY <2>4, <4>1, SetOfLines
      <4>3. i > 0
        BY <2>4, LenProperties
      <4>4. proc'[p].S = s /\ proc'[p].off = 0
        BY <2>1, <2>2
      <4>5. Ahead(proc[p], Pair(p))'
        BY <1>4, <1>7, <4>2, <4>3, <4>4 DEF Ahead
      <4>6. QED
        BY <4>5
    <3>4. QED
      BY <3>2, <3>3
  <2>9. CheckOK(p)'
    <3>1. ToSet(inode[proc[p].S])' \subseteq possible'[p]
      BY <1>4, <1>7, <2>1, <2>2, <2>7
    <3>2. May' \subseteq possible'[p] /\ certain'[p] \subseteq Must'
      BY <1>1, <1>4 DEF CheckOK
    <3>3. ~proc'[p].RetVal /\ proc'[p].pc = "lock" /\ proc'[p].off = 0
      BY <1>5, <2>1, <2>2, <2>3
    <3>4. Pair(p)' \in certain'[p] => Ahead(proc[p], Pair(p))' \/ Unwritten(proc[p].S)'
      BY <1>4, <2>8
    <3>5. QED
      BY <3>1, <3>2, <3>3, <3>4 DEF CheckOK
  <2>10. QED
    BY <1>1, <1>2, <1>7, <2>1, <2>2, <2>6, <2>9, ReaderStep
<1>8. QED
  BY <1>3, <1>6, <1>7 DEF Open

LEMMA CheckLocks ==
    ASSUME Typed, Roles, InOrder, NEW p \in Running("check"), Flock(p)
    PROVE  InOrder'
<1>1. /\ p \in Procs /\ ~Editing(p) /\ proc[p].kind = "check" /\ proc[p] \in Locals
      /\ Local(proc[p]) /\ ProcTyped /\ ReaderFiles(p) /\ CheckOK(p) /\ proc[p].fd = "S"
  BY CheckSees
<1>2. GoesOn(p) /\ proc[p].pc = "lock" /\ UNCHANGED <<dir, inode>>
  BY <1>1, OpensGoOn DEF Flock, At
<1>3. /\ May' = May /\ Must' = Must /\ possible' = possible /\ certain' = certain
      /\ Pair(p)' = Pair(p)
  BY <1>1, <1>2, GoesOnKeeps DEF GoesOn, Quiet
<1>4. ~proc[p].RetVal
  BY <1>1, <1>2 DEF Local
<1>5. CASE Set(p, NotOpened(p))
  <2> DEFINE l == [proc[p] EXCEPT !.pc = "return", !.S = None, !.blind = TRUE]
  <2>1. proc'[p] = l
    BY <1>1, <1>5, OneSets DEF NotOpened
  <2>2. l.pc = "return" /\ l.S = None /\ l.blind
    BY <1>1 DEF Locals
  <2>3. l.RetVal = proc[p].RetVal
    BY <1>1 DEF Locals
  <2> HIDE DEF l
  <2>4. ReaderFiles(p)'
    BY <2>1, <2>2 DEF ReaderFiles
  <2>5. CheckOK(p)'
    BY <1>1, <1>3, <1>4, <2>1, <2>2, <2>3 DEF CheckOK
  <2>6. QED
    BY <1>1, <1>2, <1>5, <2>1, <2>2, <2>4, <2>5, ReaderStep
<1>6. CASE Set(p, Opened(p))
  <2> DEFINE l == [proc[p] EXCEPT !.pc = "read"]
  <2>1. proc'[p] = l
    BY <1>1, <1>6, OneSets DEF Opened
  <2>2. l.pc = "read" /\ l.S = proc[p].S /\ l.off = proc[p].off
    BY <1>1 DEF Locals
  <2>3. l.RetVal = proc[p].RetVal /\ l.blind = proc[p].blind
    BY <1>1 DEF Locals
  <2> HIDE DEF l
  <2>4. Unwritten(proc[p].S)' <=> Unwritten(proc[p].S)
    <3>1. \A q \in Procs : /\ At(q, "closeNew")' <=> At(q, "closeNew")
                           /\ At(q, "closeNew") => proc'[q] = proc[q]
      BY <1>2, <2>1, <2>2 DEF GoesOn, At
    <3>2. QED
      BY <2>1, <2>2, <3>1 DEF Unwritten
  <2>5. Unlinked(proc[p].S)' <=> Unlinked(proc[p].S)
    <3>1. \A q \in Procs : /\ At(q, "closeNew")' <=> At(q, "closeNew")
                           /\ At(q, "closeNew") => proc'[q] = proc[q]
      BY <1>2, <2>1, <2>2 DEF GoesOn, At
    <3>2. QED
      BY <2>1, <2>2, <3>1 DEF Unlinked
  <2>6. Ahead(proc[p], Pair(p))' <=> Ahead(proc[p], Pair(p))
    BY <1>2, <1>3, <2>1, <2>2 DEF Ahead
  <2>7. ReaderFiles(p)'
    BY <1>1, <1>2, <2>1, <2>2, <2>5 DEF ReaderFiles
  <2>8. CheckOK(p)'
    <3>1. ToSet(inode[proc[p].S])' = ToSet(inode[proc[p].S])
      BY <1>2, <2>1, <2>2
    <3>2. QED
      BY <1>1, <1>2, <1>3, <1>4, <2>1, <2>2, <2>3, <2>4, <2>6, <3>1 DEF CheckOK
  <2>9. QED
    BY <1>1, <1>2, <2>1, <2>2, <2>7, <2>8, ReaderStep
<1>7. CASE Set(p, [proc[p] EXCEPT !.pc = "prepare"]) /\ ~ReadOnly(p)
  BY <1>1, <1>7 DEF ReadOnly
<1>8. QED
  BY <1>5, <1>6, <1>7 DEF Flock

(* What a read takes from the file, and what it leaves.                    *)
LEMMA LinesRead ==
    ASSUME NEW file \in Seq(Line), NEW off \in Nat
    PROVE  LET n == IF Len(file) > off + BufLines THEN off + BufLines ELSE Len(file)
               lines == SubSeq(file, off + 1, n) IN
           /\ lines \in Seq(Line) /\ Len(lines) \in Nat
           /\ \A i \in DOMAIN lines : lines[i] \in ToSet(file)
           /\ \A i \in 1 .. Len(file) : i > off =>
                 lines # << >>
                 /\ (i > off + Len(lines) \/ \E j \in DOMAIN lines : lines[j] = file[i])
<1> DEFINE n == IF Len(file) > off + BufLines THEN off + BufLines ELSE Len(file)
           lines == SubSeq(file, off + 1, n)
<1>1. /\ Len(file) \in Nat /\ n \in Int /\ n <= Len(file) /\ off + 1 \in Int
      /\ (Len(file) > off => n > off)
  BY PasswordAssumption
<1> HIDE DEF n
<1>2. \A i \in off + 1 .. n : i \in 1 .. Len(file) /\ file[i] \in Line
  BY <1>1, ElementOfSeq
<1>3. /\ lines \in Seq(Line)
      /\ Len(lines) = IF off + 1 <= n THEN n - (off + 1) + 1 ELSE 0
      /\ \A i \in 1 .. n - (off + 1) + 1 : lines[i] = file[off + 1 + i - 1]
  BY <1>1, <1>2, SubSeqProperties
<1> HIDE DEF lines
<1>4. Len(lines) \in Nat /\ DOMAIN lines = 1 .. Len(lines)
  BY <1>3
<1>5. \A i \in DOMAIN lines : off + i \in 1 .. Len(file) /\ lines[i] = file[off + i]
  BY <1>1, <1>3, <1>4
<1>6. \A i \in DOMAIN lines : lines[i] \in ToSet(file)
  BY <1>5, SetOfLines
<1>7. ASSUME NEW i \in 1 .. Len(file), i > off
      PROVE  /\ lines # << >>
             /\ i > off + Len(lines) \/ \E j \in DOMAIN lines : lines[j] = file[i]
  <2>1. Len(lines) # 0
    BY <1>1, <1>3, <1>7
  <2>2. CASE ~(i > off + Len(lines))
    <3>1. i - off \in DOMAIN lines /\ off + (i - off) = i
      BY <1>4, <1>7, <2>2
    <3>2. QED
      BY <1>5, <2>1, <3>1
  <2>3. QED
    BY <2>1, <2>2
<1>8. QED
  BY <1>3, <1>4, <1>6, <1>7 DEF lines, n

LEMMA CheckReads ==
    ASSUME Typed, Roles, InOrder, NEW p \in Running("check"), Read(p)
    PROVE  InOrder'
<1> DEFINE S == proc[p].S
           file == inode[S]
           lines == SubSeq(file, proc[p].off + 1,
                           IF Len(file) > proc[p].off + BufLines
                           THEN proc[p].off + BufLines ELSE Len(file))
           match == \E i \in DOMAIN lines : PasswordFileMatchItem(p, lines[i])
           blind == proc[p].blind \/ Unwritten(S)
           r == [proc[p] EXCEPT !.pc = "return", !.RetVal = match, !.S = None,
                                !.off = 0, !.blind = blind]
           m == [proc[p] EXCEPT !.off = More(p, lines), !.blind = blind]
<1>1. /\ p \in Procs /\ ~Editing(p) /\ proc[p].kind = "check" /\ proc[p] \in Locals
      /\ Local(proc[p]) /\ ProcTyped /\ FilesTyped /\ Len(inode) \in Nat
      /\ ReaderFiles(p) /\ CheckOK(p) /\ proc[p].fd = "S"
  BY CheckSees
<1>2. /\ GoesOn(p) /\ proc[p].pc = "read" /\ UNCHANGED <<dir, inode>>
      /\ (match \/ lines = << >>) => Set(p, r)
      /\ ~(match \/ lines = << >>) => Set(p, m)
  <2>1. GoesOn(p)
    BY <1>1, EditsGoOn
  <2>2. QED
    BY <2>1 DEF Read, At
<1>3. /\ May' = May /\ Must' = Must /\ possible' = possible /\ certain' = certain
      /\ Pair(p)' = Pair(p)
  BY <1>1, <1>2, GoesOnKeeps DEF GoesOn, Quiet
<1>4. S \in 1 .. Len(inode) /\ file \in Seq(Line) /\ proc[p].off \in Nat /\ S # None
      /\ ~proc[p].RetVal
  <2>1. S # None /\ S \in Nat /\ S <= Len(inode) /\ proc[p].off \in Nat /\ ~proc[p].RetVal
    BY <1>1, <1>2 DEF Local, Opens, Locals, ProcTyped
  <2>2. QED
    BY <1>1, <2>1, FilesAreLines DEF None
<1>5. /\ lines \in Seq(Line) /\ Len(lines) \in Nat
      /\ \A i \in DOMAIN lines : lines[i] \in ToSet(file)
      /\ \A i \in 1 .. Len(file) : i > proc[p].off =>
            lines # << >>
            /\ (i > proc[p].off + Len(lines) \/ \E j \in DOMAIN lines : lines[j] = file[i])
  BY <1>4, LinesRead
<1> HIDE DEF lines
<1>6. match <=> \E i \in DOMAIN lines : lines[i] = Pair(p)
  BY DEF PasswordFileMatchItem
<1>7. match => Pair(p) \in possible[p]
  BY <1>1, <1>4, <1>5, <1>6 DEF CheckOK
<1>8. ASSUME ~match, ~blind, Pair(p) \in certain[p]
      PROVE  \E i \in 1 .. Len(file) : /\ i > proc[p].off + Len(lines) /\ file[i] = Pair(p)
                                       /\ lines # << >>
  <2>1. Ahead(proc[p], Pair(p))
    BY <1>1, <1>2, <1>8 DEF CheckOK
  <2>2. PICK i \in 1 .. Len(file) : i > proc[p].off /\ file[i] = Pair(p)
    BY <2>1 DEF Ahead
  <2>3. QED
    BY <1>5, <1>6, <1>8, <2>2
<1>9. match \in BOOLEAN /\ blind \in BOOLEAN
  OBVIOUS
<1> HIDE DEF match, blind
<1>10. May' \subseteq possible'[p] /\ certain'[p] \subseteq Must'
  BY <1>1, <1>3 DEF CheckOK
<1>11. CASE match \/ lines = << >>
  <2>1. proc'[p] = r
    BY <1>1, <1>2, <1>11, OneSets
  <2>2. r.pc = "return" /\ r.S = None
    BY <1>1 DEF Locals
  <2>3. r.RetVal = match /\ r.blind = blind
    BY <1>1, <1>9 DEF Locals
  <2> HIDE DEF r
  <2>4. ReaderFiles(p)'
    BY <2>1, <2>2 DEF ReaderFiles
  <2>5. match \/ blind \/ Pair(p) \notin certain[p]
    BY <1>8, <1>11
  <2>6. CheckOK(p)'
    BY <1>3, <1>7, <1>10, <2>1, <2>2, <2>3, <2>5 DEF CheckOK
  <2>7. QED
    BY <1>1, <1>2, <2>1, <2>2, <2>4, <2>6, ReaderStep
<1>12. CASE ~(match \/ lines = << >>)
  <2>1. proc'[p] = m
    BY <1>1, <1>2, <1>12, OneSets
  <2>2. m.pc = "read" /\ m.S = S /\ m.off = proc[p].off + Len(lines)
    BY <1>1, <1>2 DEF Locals, More
  <2>3. m.RetVal = proc[p].RetVal /\ m.blind = blind
    BY <1>1, <1>9 DEF Locals
  <2> HIDE DEF m
  <2>4. Unlinked(proc[p].S)' <=> Unlinked(proc[p].S)
    <3>1. \A q \in Procs : /\ At(q, "closeNew")' <=> At(q, "closeNew")
                           /\ At(q, "closeNew") => proc'[q] = proc[q]
      BY <1>2, <2>1, <2>2 DEF GoesOn, At
    <3>2. QED
      BY <2>1, <2>2, <3>1 DEF Unlinked
  <2>5. ReaderFiles(p)'
    BY <1>1, <1>2, <2>1, <2>2, <2>4 DEF ReaderFiles
  <2>6. blind \/ Pair(p) \notin certain[p] \/ Ahead(proc[p], Pair(p))'
    <3>1. ASSUME ~blind, Pair(p) \in certain[p] PROVE Ahead(proc[p], Pair(p))'
      <4>1. PICK i \in 1 .. Len(file) : i > proc[p].off + Len(lines) /\ file[i] = Pair(p)
        BY <1>8, <1>12, <3>1
      <4>2. QED
        BY <1>2, <1>3, <2>1, <2>2, <4>1 DEF Ahead
    <3>2. QED
      BY <3>1
  <2>7. CheckOK(p)'
    <3>1. ToSet(inode[proc[p].S])' \subseteq possible[p]
      BY <1>1, <1>2, <1>4, <2>1, <2>2 DEF CheckOK
    <3>2. QED
      BY <1>3, <1>4, <1>10, <2>1, <2>2, <2>3, <2>6, <3>1 DEF CheckOK
  <2>8. QED
    BY <1>1, <1>2, <2>1, <2>2, <2>5, <2>7, ReaderStep
<1>13. QED
  BY <1>11, <1>12

-----------------------------------------------------------------------------
(* Calls, returns and deaths: checks of others, and one editor at most.    *)

LEMMA OthersCheck ==
    ASSUME Typed, InOrder, NEW p \in Procs, Watch, UNCHANGED <<dir, inode>>,
           \A q \in Procs \ {p} : proc'[q] = proc[q], proc'[p].pc # "closeNew",
           proc[p].pc = "closeNew" /\ proc[p].RetVal => Must' \subseteq ToSet(inode[proc[p].New]),
           NEW q \in Running("check"), q # p
    PROVE  ReaderFiles(q)' /\ CheckOK(q)'
<1>1. /\ q \in Procs /\ proc[q].kind = "check" /\ proc[q].pc # "idle" /\ proc'[q] = proc[q]
      /\ ReaderFiles(q) /\ CheckOK(q)
  BY CheckSees DEF Running
<1>2. q \in Running("check")' /\ ~At(q, "idle")
  BY <1>1 DEF Running, At
<1>3. possible'[q] = possible[q] \union May' /\ certain'[q] = certain[q] \intersect Must'
  BY <1>1, <1>2 DEF Watch
<1>4. ASSUME NEW s, s = proc[q].S, s # None PROVE StaysReadable(s)
  <2>1. s \in 1 .. Len(inode) /\ s # dir["Path+"] /\ ~Unlinked(s)
    BY <1>4, ReadersFile DEF BeingRead
  <2>2. inode[s] \in Seq(Line) /\ inode'[s] = inode[s]
    BY <2>1, FilesAreLines DEF Typed
  <2>3. inode'[s] = inode[s] \o << >> /\ << >> \in Seq(Line) /\ ToSet(<< >>) \subseteq May'
    BY <2>2, ConcatEmptySeq, SetOfNone
  <2>4. ASSUME Unwritten(s), ~Unwritten(s)' PROVE Must' \subseteq ToSet(inode'[s])
    <3>1. PICK e \in Procs : At(e, "closeNew") /\ proc[e].New = s
      BY <2>4 DEF Unwritten
    <3>2. e = p
      BY <2>4, <3>1 DEF Unwritten, At
    <3>3. proc[p].RetVal
      BY <2>1, <3>1, <3>2 DEF Unlinked
    <3>4. QED
      BY <2>2, <3>1, <3>2, <3>3 DEF At
  <2>5. FileGrows(s)
    BY <2>3, <2>4 DEF FileGrows
  <2>6. ~Unlinked(s)'
    BY <2>1 DEF Unlinked, At
  <2>7. QED
    BY <2>1, <2>5, <2>6 DEF StaysReadable
<1>5. \A s : s = proc[q].S /\ s # None => StaysReadable(s)
  BY <1>4
<1>6. QED
  BY <1>1, <1>3, <1>5, ReaderStays

LEMMA OneEdits ==
    ASSUME Typed, Roles, OneEditor, NEW p \in Procs, NEW q \in Procs,
           p \in config.editors, Editing(q)
    PROVE  q = p
<1>1. config.editors \subseteq Procs
  BY PasswordAssumption DEF Typed, Config
<1>2. IsFiniteSet(config.editors)
  BY <1>1, PasswordAssumption, FS_Subset
<1>3. q \in config.editors
  BY DEF Roles, Editing
<1>4. {p, q} \subseteq config.editors
  BY <1>3
<1>5. Cardinality({p, q}) <= Cardinality(config.editors)
  BY <1>2, <1>4, FS_Subset
<1>6. ASSUME p # q PROVE FALSE
  <2>1. Cardinality({p}) = 1 /\ IsFiniteSet({p})
    BY FS_Singleton
  <2>2. Cardinality({p} \union {q}) = 2
    BY <1>6, <2>1, FS_AddElement
  <2>3. {p} \union {q} = {p, q}
    OBVIOUS
  <2>4. Cardinality(config.editors) \in Nat
    BY <1>2, FS_CardinalityType
  <2>5. QED
    BY <1>5, <2>2, <2>3, <2>4 DEF OneEditor
<1>7. QED
  BY <1>6

LEMMA CallInOrder ==
    ASSUME Typed, Roles, OneEditor, InOrder, NEW p \in Procs,
           p \in config.editors \union config.readers, Call(p)
    PROVE  Roles' /\ InOrder'
<1>1. /\ ProcTyped /\ FilesTyped /\ proc[p].pc = "idle" /\ Watch
      /\ UNCHANGED <<config, dir, inode, settled>>
  BY DEF Typed, Call, At
<1>2. PICK kind \in Kinds, u \in Users, w \in Passwords :
        (kind = "check" <=> p \in config.readers) /\ Set(p, Begun(p, kind, u, w))
  BY DEF Call, Begun
<1> DEFINE l == Begun(p, kind, u, w)
<1>3. /\ l.pc = "open" /\ l.kind = kind /\ l.user = u /\ l.password = w
      /\ l.Old = None /\ l.New = None /\ l.S = None /\ l.off = 0
      /\ l.fd = IF kind \in {"add", "delete"} THEN "Old" ELSE "S"
      /\ ~l.RetVal /\ ~l.added /\ ~l.blind
  BY BegunLocal
<1>4. proc'[p] = l /\ \A q \in Procs \ {p} : proc'[q] = proc[q]
  BY <1>1, <1>2, OneSets
<1> HIDE DEF l
<1>5. Roles'
  BY <1>1, <1>2, <1>3, <1>4 DEF Roles
<1>6. ASSUME NEW q \in Running("check")' PROVE ReaderFiles(q)' /\ CheckOK(q)'
  <2>1. CASE q = p
    <3>1. p \in Running("check")' /\ At(p, "idle")
      BY <1>1, <1>6, <2>1 DEF At
    <3>2. possible'[p] = possible[p] \union May' /\ certain'[p] = Must'
      BY <1>1, <3>1 DEF Watch
    <3>3. QED
      BY <1>3, <1>4, <2>1, <3>2 DEF ReaderFiles, CheckOK
  <2>2. CASE q # p
    <3>1. q \in Running("check")
      BY <1>4, <1>6, <2>2 DEF Running
    <3>2. QED
      BY <1>1, <1>3, <1>4, <2>2, <3>1, OthersCheck
  <2>3. QED
    BY <2>1, <2>2
<1>7. Contents' = Contents /\ ~Editing(p)
  BY <1>1 DEF Contents, Editing
<1>8. \A q \in Procs \ {p} : Editing(q)' <=> Editing(q)
  BY <1>4 DEF Editing
<1>9. CASE kind = "check"
  <2>1. ~Editing(p)'
    BY <1>3, <1>4, <1>9 DEF Editing
  <2>2. \A q \in Procs : Editing(q)' <=> Editing(q)
    BY <1>7, <1>8, <2>1
  <2>3. \A e \in Procs : Editing(e) => EditorFiles(e)' /\ EditOK(e)'
    BY <1>1, <1>4, <1>7, EditorStays
  <2>4. QED
    BY <1>1, <1>5, <1>6, <1>7, <2>2, <2>3 DEF InOrder
<1>10. CASE kind # "check"
  <2>1. p \in config.editors
    BY <1>2, <1>10
  <2>2. \A q \in Procs : ~Editing(q)
    BY <1>7, <2>1, OneEdits
  <2>3. ToSet(Contents) = settled
    BY <2>2 DEF InOrder
  <2>4. EditorFiles(p)'
    BY <1>3, <1>4 DEF EditorFiles
  <2>5. Edited(p)' = settled
    BY <1>1, <1>3, <1>4 DEF Edited
  <2>6. EditOK(p)'
    BY <1>1, <1>3, <1>4, <1>7, <2>3, <2>5 DEF EditOK, Replaced
  <2>7. Editing(p)'
    BY <1>3, <1>4, <1>10 DEF Editing
  <2>8. QED
    BY <1>1, <1>5, <1>6, <1>8, <2>2, <2>4, <2>6, <2>7 DEF InOrder
<1>11. QED
  BY <1>9, <1>10

(* The credentials are those of the file when its editor is done.          *)
LEMMA EndInOrder ==
    ASSUME Typed, Roles, InOrder, NEW p \in Procs, Return(p) \/ Die(p)
    PROVE  Roles' /\ InOrder'
<1>1. /\ ProcTyped /\ FilesTyped /\ Watch /\ Set(p, Idle) /\ proc[p].pc # "idle"
      /\ UNCHANGED <<config, dir, inode>> /\ proc[p] \in Locals /\ Local(proc[p])
      /\ proc[p].pc = "return" \/ Die(p)
  BY DEF Typed, ProcTyped, Return, Die, At
<1>2. proc'[p] = Idle /\ Idle.pc = "idle" /\ \A q \in Procs \ {p} : proc'[q] = proc[q]
  BY <1>1, OneSets DEF Idle
<1>3. Roles'
  BY <1>1, <1>2 DEF Roles
<1>4. Contents' = Contents
  BY <1>1 DEF Contents
<1>5. Editing(p) => settled' = ToSet(Contents)
  <2>1. CASE Die(p)
    BY <2>1 DEF Die, Editing
  <2>2. CASE Return(p) /\ Editing(p)
    <3>1. ToSet(Contents) = Edited(p)
      BY <2>2 DEF Return, At, InOrder, EditOK, Replaced
    <3>2. settled' = {c \in settled : proc[p].RetVal => c[1] # proc[p].user}
                     \union {c \in {Pair(p)} : proc[p].added}
      BY <2>2 DEF Return, Editing
    <3>3. QED
      BY <3>1, <3>2 DEF Edited, Others
  <2>3. QED
    BY <2>1, <2>2
<1>6. ~Editing(p) => settled' = settled
  BY <1>1 DEF Return, Die, Editing
<1>7. proc[p].pc = "closeNew" /\ proc[p].RetVal => Must' \subseteq ToSet(inode[proc[p].New])
  <2> SUFFICES ASSUME proc[p].pc = "closeNew", proc[p].RetVal
               PROVE  Must' \subseteq ToSet(inode[proc[p].New])
    OBVIOUS
  <2>1. Editing(p)
    BY <1>1 DEF Editing, Local
  <2>2. settled' = ToSet(inode[proc[p].New])
    BY <1>5, <2>1 DEF InOrder, EditOK, Replaced
  <2>3. QED
    BY <2>2 DEF Must
<1>8. ASSUME NEW q \in Running("check")' PROVE ReaderFiles(q)' /\ CheckOK(q)'
  <2>1. q # p /\ q \in Running("check")
    BY <1>2, <1>8 DEF Running
  <2>2. QED
    BY <1>1, <1>2, <1>7, <2>1, OthersCheck
<1>9. ~Editing(p)' /\ \A q \in Procs \ {p} : Editing(q)' <=> Editing(q)
  BY <1>2 DEF Editing
<1>10. CASE Editing(p)
  <2>1. \A q \in Procs : ~Editing(q)'
    BY <1>9, <1>10 DEF InOrder
  <2>2. QED
    BY <1>1, <1>3, <1>4, <1>5, <1>8, <1>10, <2>1 DEF InOrder
<1>11. CASE ~Editing(p)
  <2>1. \A q \in Procs : Editing(q)' <=> Editing(q)
    BY <1>9, <1>11
  <2>2. \A e \in Procs : Editing(e) => EditorFiles(e)' /\ EditOK(e)'
    BY <1>1, <1>2, <1>6, <1>11, EditorStays
  <2>3. QED
    BY <1>1, <1>3, <1>4, <1>6, <1>8, <1>11, <2>1, <2>2 DEF InOrder
<1>12. QED
  BY <1>10, <1>11

-----------------------------------------------------------------------------
(* The invariant holds at first, and every step keeps it.                  *)

LEMMA InitIInv == Init => IInv
<1> SUFFICES ASSUME Init PROVE IInv
  OBVIOUS
<1>1. /\ config \in Configs /\ config.start \in Seq(Credential) /\ config.exists \in BOOLEAN
      /\ inode = <<config.start>> /\ locks = {} /\ deaths = 0
      /\ dir = [n \in {"Path", "Path+"} |-> IF n = "Path" /\ config.exists THEN 1 ELSE None]
      /\ proc = [p \in Procs |-> Idle] /\ calls = [p \in Procs |-> 0]
      /\ settled = ToSet(Contents)
      /\ possible = [p \in Procs |-> {}] /\ certain = [p \in Procs |-> {}]
  BY PasswordAssumption DEF Init, Config
<1>2. config.start \in Seq(Line)
  <2>1. Len(config.start) \in Nat /\ \A i \in 1 .. Len(config.start) : config.start[i] \in Line
    BY <1>1, LenProperties, ElementOfSeq DEF Line
  <2>2. config.start \in [1 .. Len(config.start) -> Line]
    BY <1>1, <2>1, LenProperties
  <2>3. QED
    BY <2>1, <2>2, SeqDef
<1>3. FilesTyped
  <2>1. inode \in Seq(Seq(Line)) /\ Len(inode) = 1
    BY <1>1, <1>2
  <2>2. dir \in [{"Path", "Path+"} -> 0 .. Len(inode)]
    BY <1>1, <2>1 DEF None
  <2>3. QED
    BY <2>1, <2>2 DEF FilesTyped
<1>4. ProcTyped
  <2>1. \A p \in Procs : proc[p] = Idle
    BY <1>1
  <2>2. Idle.Old = 0 /\ Idle.New = 0 /\ Idle.S = 0 /\ Len(inode) \in Nat
    BY <1>3 DEF Idle, None, FilesTyped
  <2>3. \A p \in Procs : Local(proc[p]) /\ proc[p].Old <= Len(inode)
                         /\ proc[p].New <= Len(inode) /\ proc[p].S <= Len(inode)
    BY <2>1, <2>2, IdleLocal
  <2>4. proc \in [Procs -> Locals]
    BY <1>1, IdleLocal
  <2>5. QED
    BY <2>3, <2>4 DEF ProcTyped
<1>5. settled \subseteq Line
  BY <1>1, <1>3, FilesAreLines, SetOfLines
<1>6. Typed
  BY <1>1, <1>3, <1>4, <1>5 DEF Typed, LocksTyped
<1>7. \A p \in Procs : proc[p].pc = "idle"
  BY <1>1 DEF Idle
<1>8. Roles
  BY <1>7 DEF Roles
<1>9. InOrder
  <2>1. dir["Path"] = dir["Path+"] => dir["Path"] = None
    BY <1>1
  <2>2. \A p \in Procs : ~Editing(p)
    BY <1>7 DEF Editing
  <2>3. Running("check") = {}
    BY <1>7 DEF Running
  <2>4. QED
    BY <1>1, <2>1, <2>2, <2>3 DEF InOrder
<1>10. QED
  BY <1>6, <1>8, <1>9 DEF IInv

LEMMA StepInOrder ==
    ASSUME Typed, Roles, InOrder, NEW p \in Procs, Step(p), ~Return(p)
    PROVE  InOrder'
<1>1. GoesOn(p) /\ proc[p] \in Locals /\ Local(proc[p])
  BY OpensGoOn, EditsGoOn DEF Step, Typed, ProcTyped
<1>2. CASE Editing(p)
  <2>1. ~Read(p)
    BY <1>1, <1>2 DEF Read, At, Editing, Local
  <2>2. EditorMoves(p)
    BY <1>2, <2>1, OpenMoves, FlockMoves, PrepareMoves, CopyLineMoves, CopyPushMoves,
       CloseOldMoves, MoveMoves, CloseNewMoves, AbandonMoves, AppendLineMoves DEF Step
  <2>3. QED
    BY <1>1, <1>2, <2>2, EditorStep
<1>3. CASE ~Editing(p)
  <2>1. proc[p].kind = "check" /\ proc[p].pc \in {"open", "lock", "read", "return"}
    BY <1>1, <1>3 DEF Editing, GoesOn, Local
  <2>2. p \in Running("check")
    BY <2>1 DEF Running
  <2>3. Open(p) \/ Flock(p) \/ Read(p)
    BY <2>1 DEF Step, Prepare, CopyLine, CopyPush, CloseOld, Move, CloseNew, Abandon,
       AppendLine, At
  <2>4. QED
    BY <2>2, <2>3, CheckOpens, CheckLocks, CheckReads
<1>4. QED
  BY <1>2, <1>3

LEMMA NextIInv ==
    ASSUME IInv, [Next]_vars
    PROVE  IInv'
<1>1. Typed /\ Roles /\ Typed'
  BY TypedNext DEF IInv
<1>2. CASE UNCHANGED vars
  <2>1. Roles'
    BY <1>1, <1>2 DEF Roles, vars
  <2>2. /\ OneEditor' <=> OneEditor
        /\ Contents' = Contents /\ May' = May /\ Must' = Must
        /\ Running("check")' = Running("check")
    BY <1>2 DEF vars, OneEditor, Contents, May, Must, Running, Pair
  <2>3. \A p \in Procs : /\ Editing(p)' <=> Editing(p)
                         /\ EditorFiles(p)' <=> EditorFiles(p)
                         /\ ReaderFiles(p)' <=> ReaderFiles(p)
    BY <1>2 DEF vars, Editing, EditorFiles, ReaderFiles, Unlinked, At
  <2>4. \A p \in Procs : InOrder /\ Editing(p) => EditOK(p)'
    <3>1. UNCHANGED <<dir, inode, settled>> /\ \A e \in Procs : proc'[e] = proc[e]
      BY <1>2 DEF vars
    <3>2. QED
      BY <3>1, EditorStays
  <2>5. \A p \in Procs : CheckOK(p)' <=> CheckOK(p)
    <3>1. \A p \in Procs : /\ Ahead(proc[p], Pair(p))' <=> Ahead(proc[p], Pair(p))
                           /\ Unwritten(proc[p].S)' <=> Unwritten(proc[p].S)
                           /\ ToSet(inode[proc[p].S])' = ToSet(inode[proc[p].S])
                           /\ Pair(p)' = Pair(p)
      BY <1>2 DEF vars, Ahead, Unwritten, At, Pair
    <3>2. UNCHANGED <<proc, possible, certain>>
      BY <1>2 DEF vars
    <3>3. QED
      BY <2>2, <3>1, <3>2 DEF CheckOK
  <2>6. OneEditor => InOrder'
    <3>1. UNCHANGED <<dir, settled>>
      BY <1>2 DEF vars
    <3>2. Running("check") \subseteq Procs
      BY DEF Running
    <3>3. OneEditor => InOrder
      BY DEF IInv
    <3>4. InOrder => InOrder'
      BY <2>2, <2>3, <2>4, <2>5, <3>1, <3>2 DEF InOrder
    <3>5. QED
      BY <3>3, <3>4
  <2>7. QED
    BY <1>1, <2>1, <2>2, <2>6 DEF IInv
<1>3. ASSUME NEW p \in Procs, p \in config.editors \union config.readers, Call(p)
      PROVE  IInv'
  <2>1. config' = config
    BY <1>3 DEF Call
  <2>2. OneEditor' <=> OneEditor
    BY <2>1 DEF OneEditor
  <2>3. Roles'
    <3>1. PICK kind \in Kinds, u \in Users, w \in Passwords :
            (kind = "check" <=> p \in config.readers) /\ Set(p, Begun(p, kind, u, w))
      BY <1>3 DEF Call, Begun
    <3>2. proc'[p] = Begun(p, kind, u, w) /\ \A q \in Procs \ {p} : proc'[q] = proc[q]
      BY <1>1, <3>1, OneSets DEF Typed
    <3>3. Begun(p, kind, u, w).kind = kind
      BY BegunLocal
    <3>4. QED
      BY <1>1, <1>3, <2>1, <3>1, <3>2, <3>3 DEF Roles
  <2>4. OneEditor => InOrder'
    BY <1>1, <1>3, CallInOrder DEF IInv
  <2>5. QED
    BY <1>1, <2>2, <2>3, <2>4 DEF IInv
<1>4. ASSUME NEW p \in Procs, Return(p) \/ Die(p) PROVE IInv'
  <2>1. config' = config /\ proc'[p].pc = "idle" /\ \A q \in Procs \ {p} : proc'[q] = proc[q]
    BY <1>1, <1>4, OneSets DEF Return, Die, Idle, Typed
  <2>2. OneEditor' <=> OneEditor
    BY <2>1 DEF OneEditor
  <2>3. Roles'
    BY <1>1, <2>1 DEF Roles
  <2>4. OneEditor => InOrder'
    BY <1>1, <1>4, EndInOrder DEF IInv
  <2>5. QED
    BY <1>1, <2>2, <2>3, <2>4 DEF IInv
<1>5. ASSUME NEW p \in Procs, Step(p), ~Return(p) PROVE IInv'
  <2>1. GoesOn(p)
    BY <1>1, <1>5, OpensGoOn, EditsGoOn DEF Step
  <2>2. Roles' /\ (OneEditor' <=> OneEditor)
    BY <1>1, <2>1, GoesOnKeeps
  <2>3. OneEditor => InOrder'
    BY <1>1, <1>5, StepInOrder DEF IInv
  <2>4. QED
    BY <1>1, <2>2, <2>3 DEF IInv
<1>6. QED
  <2>1. CASE Next
    BY <1>3, <1>4, <1>5, <2>1 DEF Next
  <2>2. QED
    BY <1>2, <2>1

-----------------------------------------------------------------------------
(* THEOREMS.                                                               *)

(* Every reachable state satisfies the inductive invariant.                *)
THEOREM InvariantHolds == Spec => []IInv
<1>1. Init => IInv
  BY InitIInv
<1>2. IInv /\ [Next]_vars => IInv'
  BY NextIInv
<1>3. QED
  BY <1>1, <1>2, PTL DEF Spec

LEMMA TypedOK == ASSUME Typed PROVE TypeOK
<1>1. /\ FilesTyped /\ ProcTyped /\ LocksTyped /\ config \in Configs /\ settled \subseteq Line
  BY DEF Typed
<1>2. \A i \in DOMAIN inode : ToSet(inode[i]) \subseteq Credential \union {Hole}
  <2>1. DOMAIN inode = 1 .. Len(inode)
    BY <1>1 DEF FilesTyped
  <2>2. QED
    BY <1>1, <2>1, FilesAreLines, SetOfLines DEF Line
<1>3. \A l \in locks : /\ l[3] \in {"LOCK_EX", "LOCK_SH"}
                       /\ l[1] \in {proc[l[2]].Old, proc[l[2]].New, proc[l[2]].S}
  BY <1>1 DEF LocksTyped, CanHold
<1>4. \A p \in Procs : Len(proc[p].out) <= BufLines
  BY <1>1 DEF ProcTyped, Local
<1>5. dir \in [{"Path", "Path+"} -> 0 .. Len(inode)]
  BY <1>1 DEF FilesTyped
<1>6. QED
  BY <1>1, <1>2, <1>3, <1>4, <1>5 DEF TypeOK, Line

(* Any number of processes may edit, check and die: the files hold lines,  *)
(* the names stand for files, every lock belongs to a descriptor that its  *)
(* process has open, and no buffer is overrun.                             *)
THEOREM TypeCorrect == Spec => []TypeOK
<1>1. IInv => TypeOK
  BY TypedOK DEF IInv
<1>2. QED
  BY <1>1, InvariantHolds, PTL

(* When one process edits the file, whatever it fails to open or lock and  *)
(* wherever it dies, and however many others check meanwhile: between the  *)
(* steps of PasswordFileAdd, PasswordFileAppend and PasswordFileDelete the *)
(* file has every credential that the running edit is not about (but for   *)
(* the time from the rename to the STREAMClose), and none that was deleted *)
(* or replaced.                                                            *)
THEOREM CredentialsKept == Spec => []CredentialsAreKept
<1>1. IInv => CredentialsAreKept
  <2> SUFFICES ASSUME IInv PROVE CredentialsAreKept
    OBVIOUS
  <2>1. TypeOK
    BY TypedOK DEF IInv
  <2>2. NothingIsLost
    BY FileIsKept DEF IInv, NothingIsLost
  <2>3. NothingComesBack
    BY FileIsKept DEF IInv, NothingComesBack
  <2>4. QED
    BY <2>1, <2>2, <2>3 DEF CredentialsAreKept
<1>2. QED
  BY <1>1, InvariantHolds, PTL

(* When one process edits the file, every PasswordFileCheck of any number  *)
(* of others accepts only what was valid while it ran, and refuses what    *)
(* was valid all that time only if it could not lock the file, or read it  *)
(* before it was written.                                                  *)
THEOREM ChecksJust == Spec => []ChecksAreJust
<1>1. IInv => ChecksAreJust
  <2> SUFFICES ASSUME IInv, OneEditor, NEW p \in Running("check"), At(p, "return")
               PROVE  IF proc[p].RetVal THEN Pair(p) \in possible[p]
                      ELSE proc[p].blind \/ Pair(p) \notin certain[p]
    BY DEF ChecksAreJust
  <2>1. CheckOK(p)
    BY DEF IInv, InOrder
  <2>2. QED
    BY <2>1 DEF CheckOK, At
<1>2. QED
  BY <1>1, InvariantHolds, PTL

(* When one process edits the file, the calls that returned decide what is *)
(* in it whenever no call is running.                                      *)
THEOREM EditsKept == Spec => [](OneEditor => EditsAreKept)
<1>1. IInv => (OneEditor => EditsAreKept)
  <2> SUFFICES ASSUME IInv, OneEditor, \A p \in Procs : At(p, "idle")
               PROVE  ToSet(Contents) = settled
    BY DEF EditsAreKept
  <2>1. \A p \in Procs : ~Editing(p)
    BY DEF Editing, At
  <2>2. QED
    BY <2>1 DEF IInv, InOrder
<1>2. QED
  BY <1>1, InvariantHolds, PTL
=============================================================================
