--------------------------- MODULE LogRotateProofs ---------------------------
(***************************************************************************)
(* Proofs about LogRotate, for any number of processes, any MaxRotate and  *)
(* any number of lines: however the steps of several processes interleave, *)
(* the lines stay in order and the files small; and a log that one program *)
(* rotates loses only its oldest file, when it should.                     *)
(***************************************************************************)
EXTENDS LogRotate, SeqLemmas

Line == Procs \X (1 .. MaxLines)
Still == {"off", "dead", "idle"}

(* No file has two names; a call that waits to write has something to      *)
(* write; nothing waits in a buffer that is flushed at once; a process     *)
(* that runs either owns the log or is a child, and a child that has not   *)
(* been forked has written nothing.                                        *)
OneName == \A s, t \in Slots : dir[s] = dir[t] => s = t
Calls ==
    \A p \in Procs :
        /\ pc[p] \in Still => todo[p] = << >>
        /\ pc[p] = "write" => todo[p] # << >>
        /\ Has("LOGFILE_FLUSH") => buf[p] = << >>
        /\ pc[p] \notin {"off", "dead"} => p \in owner \union Children
        /\ pc[p] = "off" /\ p \in Children => count[p] = 0
        /\ repeats[p] <= untold[p]
Typed == TypeOK /\ OneName /\ Calls

(* The lines of p are in order wherever they are, none has a number that   *)
(* it has not given yet, and nobody else has one to write.  A process that *)
(* has an older file open has no line in the newer ones.                   *)
Order(p) ==
    /\ \A s \in Slots :
          /\ Ascending(p, file[dir[s]])
          /\ \A t \in Slots : t < s => Before(p, file[dir[s]], file[dir[t]])
          /\ Before(p, file[dir[s]], buf[p])
          /\ Before(p, file[dir[s]], todo[p])
          /\ Numbers(p, file[dir[s]]) \subseteq 1 .. count[p]
          /\ fd[p] = dir[s] =>
                \A t \in Slots : t < s => Numbers(p, file[dir[t]]) = {}
    /\ Ascending(p, buf[p]) /\ Ascending(p, todo[p])
    /\ Before(p, buf[p], todo[p])
    /\ Numbers(p, buf[p]) \subseteq 1 .. count[p]
    /\ Numbers(p, todo[p]) \subseteq 1 .. count[p]
    /\ \A q \in Procs \ {p} : Numbers(q, buf[p]) = {} /\ Numbers(q, todo[p]) = {}
InOrder == EachLineOnce => \A p \in Procs : Order(p)

(* The processes that may still write to a file without looking at its     *)
(* size: they have looked, or they will open it.                           *)
Pending(i) ==
    {q \in Procs : /\ todo[q] # << >>
                   /\ (pc[q] = "write" /\ fd[q] = i) \/ (pc[q] = "reopen" /\ dir[0] = i)}
Limited == Has("LOGFILE_FLUSH") /\ Children = {} /\ MaxRotate > 0
HasRoom ==
    Limited => \A i \in Inodes :
        Size(i) + Cardinality(Pending(i)) <= MaxSize + Cardinality(Procs)

(* The name without a file that a rotation by p carries down.  *)
Gap(p) == IF pc[p] = "shift" THEN slot[p] + 1 ELSE IF pc[p] = "reopen" THEN 0 ELSE MaxRotate + 1

(* When p is the only program, it alone rotates.                           *)
Rotation(p) ==
    /\ owner \subseteq {p} /\ pc[p] # "dead"
    /\ \A c \in Procs \ {p} : pc[c] \notin {"recheck", "shift", "dead"}
    /\ pc[p] = "off" => Slots = {} /\ \A c \in Procs : pc[c] = "off"
    /\ fd[p] = None \/ fd[p] = dir[0]
    /\ fd[p] = None <=> pc[p] \in {"off", "shift", "reopen"}
    /\ pc[p] = "shift" => /\ dir[0] # None /\ Size(dir[0]) > MaxSize /\ MaxRotate > 0
                          /\ Gap(p) \notin Slots
    /\ \A s \in Slots : s > 0 => Size(dir[s]) > MaxSize
    /\ \A s \in Slots : \A t \in 0 .. s - 1 : t # Gap(p) => dir[t] # None
Alone == config.mishaps = {} => \A p \in Procs : Programs = {p} => Rotation(p)

IInv == Typed /\ InOrder /\ HasRoom /\ Alone /\ NoGaps
------------------------------------------------------------------------------
(* What the numbers and the order of the lines are when lines are added.   *)
LEMMA NumbersConcat ==
    ASSUME NEW S, NEW p, NEW x \in Seq(S), NEW y \in Seq(S)
    PROVE  Numbers(p, x \o y) = Numbers(p, x) \union Numbers(p, y)
<1> DEFINE z == x \o y
<1>1. /\ Len(x) \in Nat /\ Len(y) \in Nat /\ Len(z) = Len(x) + Len(y)
      /\ \A i \in 1 .. Len(x) : z[i] = x[i]
      /\ \A i \in 1 .. Len(y) : z[Len(x) + i] = y[i]
      /\ \A i \in Len(x) + 1 .. Len(z) : z[i] = y[i - Len(x)]
  OBVIOUS
<1> HIDE DEF z
<1>2. ASSUME NEW n \in Numbers(p, z) PROVE n \in Numbers(p, x) \union Numbers(p, y)
  <2>1. PICK k \in 1 .. Len(z) : z[k][1] = p /\ n = z[k][2]
    BY <1>2 DEF Numbers
  <2>2. CASE k <= Len(x)
    BY <1>1, <2>1, <2>2 DEF Numbers
  <2>3. CASE k > Len(x)
    <3>1. k - Len(x) \in 1 .. Len(y) /\ z[k] = y[k - Len(x)]
      BY <1>1, <2>3
    <3>2. QED BY <2>1, <3>1 DEF Numbers
  <2>4. QED BY <1>1, <2>1, <2>2, <2>3
<1>3. ASSUME NEW n \in Numbers(p, x) PROVE n \in Numbers(p, z)
  BY <1>1 DEF Numbers
<1>4. ASSUME NEW n \in Numbers(p, y) PROVE n \in Numbers(p, z)
  <2>1. PICK k \in 1 .. Len(y) : y[k][1] = p /\ n = y[k][2]
    BY <1>4 DEF Numbers
  <2>2. Len(x) + k \in 1 .. Len(z) /\ z[Len(x) + k] = y[k]
    BY <1>1
  <2>3. QED BY <2>1, <2>2 DEF Numbers
<1>5. QED BY <1>2, <1>3, <1>4 DEF z

LEMMA NumbersNone ==
    ASSUME NEW p
    PROVE  Numbers(p, << >>) = {} /\ Ascending(p, << >>)
BY DEF Numbers, Ascending

LEMMA NumbersOne ==
    ASSUME NEW p, NEW line
    PROVE  /\ Numbers(p, <<line>>) = IF line[1] = p THEN {line[2]} ELSE {}
           /\ Ascending(p, <<line>>)
<1> DEFINE x == <<line>>
<1>1. Len(x) = 1 /\ x[1] = line
  OBVIOUS
<1> HIDE DEF x
<1>2. Numbers(p, x) = IF line[1] = p THEN {line[2]} ELSE {}
  BY <1>1 DEF Numbers
<1>3. Ascending(p, x)
  BY <1>1 DEF Ascending
<1>4. QED BY <1>2, <1>3 DEF x

LEMMA NumbersTyped ==
    ASSUME NEW p, NEW S, NEW x \in Seq(Procs \X S)
    PROVE  Numbers(p, x) \subseteq S
<1>1. \A i \in 1 .. Len(x) : x[i] \in Procs \X S
  OBVIOUS
<1>2. QED BY <1>1 DEF Numbers

LEMMA AscendingConcat ==
    ASSUME NEW p, NEW x \in Seq(Procs \X Nat), NEW y \in Seq(Procs \X Nat)
    PROVE  Ascending(p, x \o y) <=> Ascending(p, x) /\ Ascending(p, y) /\ Before(p, x, y)
<1> DEFINE z == x \o y
<1>1. /\ Len(x) \in Nat /\ Len(y) \in Nat /\ Len(z) = Len(x) + Len(y)
      /\ \A i \in 1 .. Len(x) : z[i] = x[i]
      /\ \A i \in 1 .. Len(y) : z[Len(x) + i] = y[i]
      /\ \A i \in Len(x) + 1 .. Len(z) : z[i] = y[i - Len(x)]
  OBVIOUS
<1> HIDE DEF z
<1>2. ASSUME Ascending(p, z)
      PROVE  Ascending(p, x) /\ Ascending(p, y) /\ Before(p, x, y)
  <2>1. Ascending(p, x)
    BY <1>1, <1>2 DEF Ascending
  <2>2. ASSUME NEW j \in 1 .. Len(y), NEW k \in 1 .. Len(y), j < k, y[j][1] = p, y[k][1] = p
        PROVE  y[j][2] < y[k][2]
    <3>1. /\ Len(x) + j \in 1 .. Len(z) /\ Len(x) + k \in 1 .. Len(z)
          /\ Len(x) + j < Len(x) + k
          /\ z[Len(x) + j] = y[j] /\ z[Len(x) + k] = y[k]
      BY <1>1, <2>2
    <3>2. QED BY <1>2, <2>2, <3>1 DEF Ascending
  <2>3. ASSUME NEW j \in 1 .. Len(x), NEW k \in 1 .. Len(y), x[j][1] = p, y[k][1] = p
        PROVE  x[j][2] < y[k][2]
    <3>1. /\ j \in 1 .. Len(z) /\ Len(x) + k \in 1 .. Len(z) /\ j < Len(x) + k
          /\ z[j] = x[j] /\ z[Len(x) + k] = y[k]
      BY <1>1
    <3>2. QED BY <1>2, <2>3, <3>1 DEF Ascending
  <2>4. Ascending(p, y)
    BY <2>2 DEF Ascending
  <2>5. Before(p, x, y)
    BY <2>3 DEF Before, Numbers
  <2>6. QED BY <2>1, <2>4, <2>5
<1>3. ASSUME Ascending(p, x), Ascending(p, y), Before(p, x, y)
      PROVE  Ascending(p, z)
  <2>1. SUFFICES ASSUME NEW j \in 1 .. Len(z), NEW k \in 1 .. Len(z), j < k,
                        z[j][1] = p, z[k][1] = p
                 PROVE  z[j][2] < z[k][2]
    BY DEF Ascending
  <2>2. CASE k <= Len(x)
    <3>1. /\ j \in 1 .. Len(x) /\ k \in 1 .. Len(x) /\ z[j] = x[j] /\ z[k] = x[k]
      BY <1>1, <2>1, <2>2
    <3>2. QED BY <1>3, <2>1, <3>1 DEF Ascending
  <2>3. CASE j > Len(x)
    <3>1. /\ j \in Len(x) + 1 .. Len(z) /\ k \in Len(x) + 1 .. Len(z)
          /\ j - Len(x) \in 1 .. Len(y) /\ k - Len(x) \in 1 .. Len(y)
          /\ j - Len(x) < k - Len(x)
      BY <1>1, <2>1, <2>3
    <3>2. z[j] = y[j - Len(x)] /\ z[k] = y[k - Len(x)]
      BY <1>1, <3>1
    <3>3. QED BY <1>3, <2>1, <3>1, <3>2 DEF Ascending
  <2>4. CASE j <= Len(x) /\ k > Len(x)
    <3>1. /\ j \in 1 .. Len(x) /\ k - Len(x) \in 1 .. Len(y)
          /\ z[j] = x[j] /\ z[k] = y[k - Len(x)]
      BY <1>1, <2>1, <2>4
    <3>2. z[j][2] \in Numbers(p, x) /\ z[k][2] \in Numbers(p, y)
      BY <2>1, <3>1 DEF Numbers
    <3>3. QED BY <1>3, <3>2 DEF Before
  <2>5. QED BY <1>1, <2>1, <2>2, <2>3, <2>4
<1>4. QED BY <1>2, <1>3 DEF z

LEMMA BeforeConcat ==
    ASSUME NEW S, NEW p, NEW x \in Seq(S), NEW y \in Seq(S), NEW z \in Seq(S)
    PROVE  /\ Before(p, x \o y, z) <=> Before(p, x, z) /\ Before(p, y, z)
           /\ Before(p, z, x \o y) <=> Before(p, z, x) /\ Before(p, z, y)
BY NumbersConcat DEF Before

(* The lines of a call: the next one and those after it.                   *)
LEMMA HeadAndTail ==
    ASSUME NEW S, NEW x \in Seq(S), x # << >>
    PROVE  /\ Head(x) \in S /\ Tail(x) \in Seq(S) /\ <<Head(x)>> \in Seq(S)
           /\ x = <<Head(x)>> \o Tail(x)
<1>1. /\ Head(x) \in S /\ Tail(x) \in Seq(S) /\ Len(x) \in Nat \ {0}
      /\ Len(Tail(x)) = Len(x) - 1 /\ x \in [1 .. Len(x) -> S]
      /\ \A i \in 1 .. Len(x) - 1 : Tail(x)[i] = x[i + 1]
      /\ Head(x) = x[1]
  OBVIOUS
<1> DEFINE h == <<Head(x)>>
           z == h \o Tail(x)
<1>2. h \in Seq(S) /\ Len(h) = 1 /\ h[1] = x[1]
  BY <1>1
<1>7. \A t \in Seq(S) : /\ h \o t \in Seq(S) /\ Len(h \o t) = 1 + Len(t)
                       /\ (h \o t)[1] = h[1]
                       /\ \A i \in 2 .. 1 + Len(t) : (h \o t)[i] = t[i - 1]
  OBVIOUS
<1> HIDE DEF h
<1>3. /\ z \in Seq(S) /\ Len(z) = Len(x) /\ z[1] = x[1]
      /\ \A i \in 2 .. Len(x) : z[i] = Tail(x)[i - 1]
  BY <1>1, <1>2, <1>7
<1> HIDE DEF z
<1>4. \A i \in 1 .. Len(x) : z[i] = x[i]
  BY <1>1, <1>3
<1>5. x = z
  BY <1>1, <1>3, <1>4, SeqEqual
<1>6. QED BY <1>1, <1>2, <1>5 DEF z, h
------------------------------------------------------------------------------
(* The bounds that a way to use the log gives.                             *)
LEMMA ConfigFacts ==
    ASSUME config \in Configs
    PROVE  /\ MaxRotate \in Nat /\ MaxLines \in Nat
           /\ Programs \subseteq Procs /\ Children \subseteq Procs
           /\ Programs \cap Children = {}
           /\ Cardinality(Procs) \in Nat
           /\ MaxSize \in Nat \ {0} /\ NoText \in Texts
           /\ IsFiniteSet(Procs)
<1>1. config \in Config /\ config.programs \cap config.children = {}
  BY LogAssumption
<1>2. Cardinality(Procs) \in Nat
  BY LogAssumption, FS_CardinalityType
<1>3. QED BY <1>1, <1>2, LogAssumption DEF Config, MaxRotate, MaxLines, Programs, Children

(* There are more files than can have a name, when Path has none, or be    *)
(* open: the one that LogFileOpen creates exists.                          *)
NewFile == CHOOSE i \in Inodes : ~Named(i) /\ \A q \in Procs : fd[q] # i
LEMMA FreeInode ==
    ASSUME TypeOK, dir[0] = None
    PROVE  /\ NewFile \in Inodes /\ ~Named(NewFile)
           /\ \A q \in Procs : fd[q] # NewFile
<1>1. /\ MaxRotate \in Nat /\ Cardinality(Procs) \in Nat /\ IsFiniteSet(Procs)
      /\ dir \in [0 .. MaxRotate -> Inodes \union {None}]
      /\ DOMAIN dir = 0 .. MaxRotate
  BY ConfigFacts DEF TypeOK
<1> DEFINE N == 1 .. MaxRotate
           named == {dir[s] : s \in N}
           open == {fd[q] : q \in Procs}
           d == [s \in N |-> dir[s]]
           f == [q \in Procs |-> fd[q]]
<1>2. IsFiniteSet(N) /\ Cardinality(N) = MaxRotate
  BY <1>1, FS_Interval
<1>3. d \in Surjection(N, named) /\ f \in Surjection(Procs, open)
  BY DEF Surjection
<1>4. IsFiniteSet(named) /\ Cardinality(named) <= MaxRotate
  BY <1>2, <1>3, FS_Surjection
<1>5. IsFiniteSet(open) /\ Cardinality(open) <= Cardinality(Procs)
  BY <1>1, <1>3, FS_Surjection
<1>6. /\ IsFiniteSet(named \union open)
      /\ Cardinality(named \union open) <= MaxRotate + Cardinality(Procs)
  <2> HIDE DEF named, open
  <2>1. Cardinality(named) \in Nat /\ Cardinality(open) \in Nat
    BY <1>4, <1>5, FS_CardinalityType
  <2>2. IsFiniteSet(named \cap open)
    BY <1>4, FS_Subset
  <2>3. Cardinality(named \cap open) \in Nat
    BY <2>2, FS_CardinalityType
  <2>4. /\ IsFiniteSet(named \union open)
        /\ Cardinality(named \union open)
              = Cardinality(named) + Cardinality(open) - Cardinality(named \cap open)
    BY <1>4, <1>5, FS_Union
  <2>5. QED BY <1>1, <1>4, <1>5, <2>1, <2>3, <2>4
<1>7. Cardinality(Inodes) = MaxRotate + 1 + Cardinality(Procs)
  BY <1>1, FS_Interval DEF Inodes
<1>8. ~(Inodes \subseteq named \union open)
  <2>1. Cardinality(named \union open) \in Nat
    BY <1>6, FS_CardinalityType
  <2> HIDE DEF named, open
  <2>2. SUFFICES ASSUME Inodes \subseteq named \union open
                 PROVE  Cardinality(Inodes) <= Cardinality(named \union open)
    BY <1>1, <1>6, <1>7, <2>1
  <2>3. QED BY <1>6, <2>2, FS_Subset
<1>9. PICK i \in Inodes : i \notin named /\ i \notin open
  BY <1>8
<1>10. i # None
  BY <1>1 DEF Inodes, None
<1>11. ~Named(i)
  <2>1. \A s \in 0 .. MaxRotate : s = 0 \/ s \in N
    BY <1>1
  <2>2. QED BY <1>1, <1>9, <1>10, <2>1 DEF Named
<1>12. \E j \in Inodes : ~Named(j) /\ \A q \in Procs : fd[q] # j
  BY <1>9, <1>11
<1>13. QED BY <1>12 DEF NewFile

(* The three outcomes of LogFileOpen.                                      *)
LEMMA OpenCases ==
    ASSUME TypeOK, NEW p \in Procs, LogFileOpen(p)
    PROVE  \/ /\ dir[0] \in Inodes
              /\ fd' = [fd EXCEPT ![p] = dir[0]]
              /\ UNCHANGED files
           \/ /\ dir[0] = None
              /\ NewFile \in Inodes /\ ~Named(NewFile)
              /\ \A q \in Procs : fd[q] # NewFile
              /\ fd' = [fd EXCEPT ![p] = NewFile]
              /\ dir' = [dir EXCEPT ![0] = NewFile]
              /\ file' = [file EXCEPT ![NewFile] = << >>]
           \/ /\ May("failure")
              /\ fd' = [fd EXCEPT ![p] = None]
              /\ UNCHANGED files
<1>1. /\ MaxRotate \in Nat
      /\ dir \in [0 .. MaxRotate -> Inodes \union {None}]
  BY ConfigFacts DEF TypeOK
<1>2. dir[0] \in Inodes \union {None}
  BY <1>1
<1>3. CASE dir[0] = None
  BY <1>3, FreeInode DEF LogFileOpen, NewFile
<1>4. CASE dir[0] # None
  BY <1>2, <1>4 DEF LogFileOpen
<1>5. QED BY <1>3, <1>4
------------------------------------------------------------------------------
(* How the log is used does not change.                                    *)
LEMMA SameConfig ==
    ASSUME config' = config
    PROVE  /\ MaxRotate' = MaxRotate /\ MaxLines' = MaxLines
           /\ Programs' = Programs /\ Children' = Children
           /\ Inodes' = Inodes
           /\ EachLineOnce' = EachLineOnce /\ Limited' = Limited
           /\ Has("LOGFILE_FLUSH")' = Has("LOGFILE_FLUSH")
           /\ May("failure")' = May("failure")
BY DEF MaxRotate, MaxLines, Programs, Children, Inodes, EachLineOnce, Limited, Has, May

(* The files and the descriptors.                                          *)
FilesTyped ==
    /\ dir \in [0 .. MaxRotate -> Inodes \union {None}]
    /\ file \in [Inodes -> Seq(Line)]
    /\ fd \in [Procs -> Inodes \union {None}]
    /\ OneName
(* The buffers, and the lines of the calls.                                *)
LinesTyped ==
    /\ buf \in [Procs -> Seq(Line)]
    /\ todo \in [Procs -> Seq(Line)]
    /\ count \in [Procs -> 0 .. MaxLines]
(* Where the processes are.                                                *)
StepsTyped ==
    /\ pc \in [Procs -> {"off", "dead", "idle", "check", "recheck", "shift", "reopen", "write"}]
    /\ owner \subseteq Procs
    /\ seen \in [Procs -> Nat]
    /\ slot \in [Procs -> 0 .. MaxRotate]
RepeatsTyped ==
    /\ last \in [Procs -> Texts]
    /\ repeats \in [Procs -> Nat]
    /\ untold \in [Procs -> 0 .. MaxLines]

LEMMA TypedParts ==
    Typed <=> /\ config \in Configs /\ FilesTyped /\ LinesTyped /\ StepsTyped
              /\ RepeatsTyped /\ Calls
BY DEF Typed, TypeOK, FilesTyped, LinesTyped, StepsTyped, RepeatsTyped, Line

LEMMA OpenTyped ==
    ASSUME Typed, NEW p \in Procs, LogFileOpen(p), config' = config
    PROVE  FilesTyped'
<1>1. TypeOK /\ FilesTyped
  BY TypedParts DEF Typed
<1>2. MaxRotate' = MaxRotate /\ Inodes' = Inodes /\ Line' = Line
  BY SameConfig DEF Line
<1>3. MaxRotate \in Nat
  BY <1>1, ConfigFacts DEF TypeOK
<1>4. CASE UNCHANGED files /\ fd' \in [Procs -> Inodes \union {None}]
  BY <1>1, <1>2, <1>4 DEF FilesTyped, OneName, Slots, files
<1>5. CASE /\ NewFile \in Inodes /\ ~Named(NewFile)
           /\ fd' = [fd EXCEPT ![p] = NewFile]
           /\ dir' = [dir EXCEPT ![0] = NewFile]
           /\ file' = [file EXCEPT ![NewFile] = << >>]
  <2>1. /\ dir' \in [0 .. MaxRotate -> Inodes \union {None}]
        /\ fd' \in [Procs -> Inodes \union {None}]
    BY <1>1, <1>3, <1>5 DEF FilesTyped
  <2>2. file' \in [Inodes -> Seq(Line)]
    <3>1. << >> \in Seq(Line)
      OBVIOUS
    <3>2. QED BY <1>1, <1>5, <3>1 DEF FilesTyped
  <2>3. OneName'
    <3>1. \A s \in 0 .. MaxRotate : dir[s] # NewFile
      BY <1>1, <1>5 DEF FilesTyped, Named
    <3>2. QED BY <1>1, <1>2, <1>3, <1>5, <3>1 DEF FilesTyped, OneName, Slots
  <2>4. QED BY <1>2, <2>1, <2>2, <2>3 DEF FilesTyped
<1>6. QED
  <2>1. \/ UNCHANGED files /\ fd' \in [Procs -> Inodes \union {None}]
        \/ /\ NewFile \in Inodes /\ ~Named(NewFile)
           /\ fd' = [fd EXCEPT ![p] = NewFile]
           /\ dir' = [dir EXCEPT ![0] = NewFile]
           /\ file' = [file EXCEPT ![NewFile] = << >>]
    <3>1. fd \in [Procs -> Inodes \union {None}]
      BY <1>1 DEF FilesTyped
    <3>2. QED BY <1>1, <3>1, OpenCases
  <2>2. QED BY <1>4, <1>5, <2>1

LEMMA FlushTyped ==
    ASSUME Typed, NEW p \in Procs, fd[p] # None, NEW more \in Seq(Line), Flush(p, more),
           config' = config, dir' = dir, fd' \in [Procs -> Inodes \union {None}]
    PROVE  FilesTyped' /\ buf' \in [Procs -> Seq(Line)]
<1>1. FilesTyped /\ LinesTyped
  BY TypedParts
<1>2. MaxRotate' = MaxRotate /\ Inodes' = Inodes /\ Line' = Line
  BY SameConfig DEF Line
<1>3. fd[p] \in Inodes /\ file[fd[p]] \in Seq(Line) /\ buf[p] \in Seq(Line)
  BY <1>1 DEF FilesTyped, LinesTyped
<1> DEFINE new == file[fd[p]] \o buf[p] \o more
<1>4. new \in Seq(Line)
  BY <1>3
<1> HIDE DEF new
<1>5. file' = [file EXCEPT ![fd[p]] = new]
  BY DEF Flush, new
<1>6. file' \in [Inodes -> Seq(Line)]
  BY <1>1, <1>4, <1>5 DEF FilesTyped
<1>7. OneName'
  BY <1>1, <1>2 DEF FilesTyped, OneName, Slots
<1>8. << >> \in Seq(Line)
  OBVIOUS
<1>9. buf' \in [Procs -> Seq(Line)]
  BY <1>1, <1>8 DEF Flush, LinesTyped
<1>10. QED BY <1>1, <1>2, <1>6, <1>7, <1>9 DEF FilesTyped

LEMMA TypedNext ==
    ASSUME config \in Configs, config' = config, FilesTyped', LinesTyped', StepsTyped',
           RepeatsTyped', Calls'
    PROVE  Typed'
BY DEF Typed, TypeOK, FilesTyped, LinesTyped, StepsTyped, RepeatsTyped, Line

(* Each step keeps the types, and what waits to be written.                *)
LEMMA InitTyped ==
    ASSUME Init
    PROVE  Typed
<1>1. /\ MaxRotate \in Nat /\ MaxLines \in Nat /\ NoText \in Texts
      /\ Slots = {}
  BY ConfigFacts DEF Init, Slots
<1>2. << >> \in Seq(Line)
  OBVIOUS
<1>3. FilesTyped /\ LinesTyped
  BY <1>1, <1>2 DEF Init, FilesTyped, LinesTyped, OneName
<1>4. StepsTyped /\ RepeatsTyped
  BY <1>1 DEF Init, StepsTyped, RepeatsTyped
<1>5. Calls
  BY DEF Init, Calls
<1>6. QED BY <1>3, <1>4, <1>5, TypedParts DEF Init

LEMMA TypedFacts ==
    ASSUME Typed
    PROVE  /\ config \in Configs /\ FilesTyped /\ LinesTyped /\ StepsTyped
           /\ RepeatsTyped /\ Calls /\ TypeOK
           /\ MaxRotate \in Nat /\ MaxLines \in Nat /\ Programs \cap Children = {}
           /\ Programs \subseteq Procs /\ Children \subseteq Procs
BY TypedParts, ConfigFacts DEF Typed

LEMMA CreateTyped ==
    ASSUME Typed, NEW p \in Procs, LogFileCreate(p)
    PROVE  Typed'
<1> USE TypedFacts
<1>1. /\ config' = config /\ MaxRotate' = MaxRotate /\ MaxLines' = MaxLines
      /\ Children' = Children /\ Has("LOGFILE_FLUSH")' = Has("LOGFILE_FLUSH")
      /\ Line' = Line
  BY SameConfig DEF LogFileCreate, Line
<1>2. FilesTyped'
  BY <1>1, OpenTyped DEF LogFileCreate
<1>3. LinesTyped' /\ RepeatsTyped'
  BY <1>1 DEF LogFileCreate, LinesTyped, RepeatsTyped, push
<1>4. StepsTyped'
  BY <1>1 DEF LogFileCreate, StepsTyped, Goto
<1>5. Calls'
  <2>1. \A q \in Procs : pc'[q] = pc[q] \/ (q = p /\ pc'[q] = "check")
    BY DEF LogFileCreate, StepsTyped, Goto
  <2>2. p \in owner' /\ owner \subseteq owner'
    BY DEF LogFileCreate
  <2>3. QED BY <1>1, <2>1, <2>2 DEF Calls, LogFileCreate, push, Still
<1>6. QED BY <1>1, <1>2, <1>3, <1>4, <1>5, TypedNext

LEMMA ForkTyped ==
    ASSUME Typed, NEW p \in Procs, NEW c \in Procs, Fork(p, c)
    PROVE  Typed'
<1> USE TypedFacts
<1>1. /\ config' = config /\ MaxRotate' = MaxRotate /\ MaxLines' = MaxLines
      /\ Children' = Children /\ Has("LOGFILE_FLUSH")' = Has("LOGFILE_FLUSH")
      /\ Inodes' = Inodes /\ Line' = Line
  BY SameConfig DEF Fork, Line
<1>2. FilesTyped'
  BY <1>1 DEF Fork, FilesTyped, files, OneName, Slots
<1>3. LinesTyped' /\ RepeatsTyped'
  BY <1>1 DEF Fork, LinesTyped, RepeatsTyped
<1>4. StepsTyped'
  BY <1>1 DEF Fork, StepsTyped, Goto
<1>5. Calls'
  <2>1. \A q \in Procs : pc'[q] = IF q = c THEN "idle" ELSE pc[q]
    BY DEF Fork, StepsTyped, Goto
  <2>2. pc[c] = "off" /\ c \in Children
    BY DEF Fork
  <2>3. \A q \in Procs : /\ q # c => buf'[q] = buf[q] /\ repeats'[q] = repeats[q]
                                     /\ untold'[q] = untold[q]
                         /\ q = c => buf'[q] = buf[p] /\ repeats'[q] = repeats[p]
                                     /\ untold'[q] = untold[p]
    BY DEF Fork, LinesTyped, RepeatsTyped
  <2>4. UNCHANGED <<owner, todo, count>>
    BY DEF Fork
  <2>5. QED BY <1>1, <2>1, <2>2, <2>3, <2>4 DEF Calls, Still
<1>6. QED BY <1>1, <1>2, <1>3, <1>4, <1>5, TypedNext

LEMMA SetValuesTyped ==
    ASSUME Typed, NEW p \in Procs, LogFileSetValues(p) \/ LogFilesHousekeep(p)
    PROVE  Typed'
<1> USE TypedFacts
<1>1. /\ config' = config /\ MaxRotate' = MaxRotate /\ MaxLines' = MaxLines
      /\ Children' = Children /\ Has("LOGFILE_FLUSH")' = Has("LOGFILE_FLUSH")
      /\ Inodes' = Inodes /\ Line' = Line
  BY SameConfig DEF LogFileSetValues, LogFilesHousekeep, Line
<1>2. UNCHANGED <<files, fd, buf, todo, seen, slot, push>> /\ owner \subseteq owner'
  BY DEF LogFileSetValues, LogFilesHousekeep
<1>3. FilesTyped' /\ LinesTyped' /\ RepeatsTyped'
  BY <1>1, <1>2 DEF FilesTyped, files, OneName, Slots, LinesTyped, RepeatsTyped, push
<1>4. StepsTyped'
  BY <1>1, <1>2 DEF LogFileSetValues, LogFilesHousekeep, StepsTyped, Goto
<1>5. Calls'
  <2>1. \A q \in Procs : pc'[q] = pc[q] \/ (pc[q] = "idle" /\ pc'[q] = "check")
    BY DEF LogFileSetValues, LogFilesHousekeep, StepsTyped, Goto
  <2>2. QED BY <1>1, <1>2, <2>1 DEF Calls, push, Still
<1>6. QED BY <1>1, <1>3, <1>4, <1>5, TypedNext

LEMMA CrashTyped ==
    ASSUME Typed, NEW p \in Procs, Crash(p)
    PROVE  Typed'
<1> USE TypedFacts
<1>1. /\ config' = config /\ MaxRotate' = MaxRotate /\ MaxLines' = MaxLines
      /\ Children' = Children /\ Has("LOGFILE_FLUSH")' = Has("LOGFILE_FLUSH")
      /\ Inodes' = Inodes /\ Line' = Line
  BY SameConfig DEF Crash, Line
<1>2. FilesTyped'
  BY <1>1 DEF Crash, FilesTyped, files, OneName, Slots
<1>3. << >> \in Seq(Line) /\ NoText \in Texts
  BY ConfigFacts
<1>4. LinesTyped' /\ RepeatsTyped'
  BY <1>1, <1>3 DEF Crash, LinesTyped, RepeatsTyped
<1>5. StepsTyped'
  BY <1>1 DEF Crash, StepsTyped, Goto
<1>6. Calls'
  <2>1. \A q \in Procs \ {p} :
            /\ pc'[q] = pc[q] /\ todo'[q] = todo[q] /\ buf'[q] = buf[q]
            /\ repeats'[q] = repeats[q] /\ untold'[q] = untold[q] /\ count'[q] = count[q]
            /\ q \in owner' <=> q \in owner
    BY DEF Crash, StepsTyped, LinesTyped, RepeatsTyped, Goto
  <2>2. /\ pc'[p] = IF p \in Programs THEN "off" ELSE "dead"
        /\ todo'[p] = << >> /\ buf'[p] = << >> /\ repeats'[p] = 0 /\ untold'[p] = 0
    BY DEF Crash, StepsTyped, LinesTyped, RepeatsTyped, Goto
  <2>3. QED BY <1>1, <2>1, <2>2 DEF Calls, Still
<1>7. QED BY <1>1, <1>2, <1>4, <1>5, <1>6, TypedNext

LEMMA FlushAllTyped ==
    ASSUME Typed, NEW p \in Procs, LogFileFlushAll(p)
    PROVE  Typed'
<1> USE TypedFacts
<1>1. /\ config' = config /\ MaxRotate' = MaxRotate /\ MaxLines' = MaxLines
      /\ Children' = Children /\ Has("LOGFILE_FLUSH")' = Has("LOGFILE_FLUSH")
      /\ Inodes' = Inodes /\ Line' = Line
  BY SameConfig DEF LogFileFlushAll, Line
<1>2. /\ << >> \in Seq(Line) /\ fd[p] # None /\ Flush(p, << >>) /\ dir' = dir
      /\ fd' \in [Procs -> Inodes \union {None}]
  BY DEF LogFileFlushAll, FilesTyped
<1>3. FilesTyped' /\ buf' \in [Procs -> Seq(Line)]
  BY <1>1, <1>2, FlushTyped
<1>4. LinesTyped' /\ RepeatsTyped'
  BY <1>1, <1>3 DEF LogFileFlushAll, LinesTyped, RepeatsTyped, push
<1>5. StepsTyped'
  BY <1>1 DEF LogFileFlushAll, StepsTyped, Goto
<1>6. Calls'
  <2>1. \A q \in Procs : pc'[q] = pc[q] \/ (pc[q] = "idle" /\ pc'[q] = "reopen")
    BY DEF LogFileFlushAll, StepsTyped, Goto
  <2>2. \A q \in Procs : buf'[q] = IF q = p THEN << >> ELSE buf[q]
    BY <1>2 DEF Flush, LinesTyped
  <2>3. UNCHANGED <<owner, todo, push>>
    BY DEF LogFileFlushAll
  <2>4. QED BY <1>1, <2>1, <2>2, <2>3 DEF Calls, push, Still
<1>7. QED BY <1>1, <1>3, <1>4, <1>5, <1>6, TypedNext

LEMMA CheckTyped ==
    ASSUME Typed, NEW p \in Procs, Check(p)
    PROVE  Typed'
<1> USE TypedFacts
<1>1. /\ config' = config /\ MaxRotate' = MaxRotate /\ MaxLines' = MaxLines
      /\ Children' = Children /\ Has("LOGFILE_FLUSH")' = Has("LOGFILE_FLUSH")
      /\ Inodes' = Inodes /\ Line' = Line
  BY SameConfig DEF Check, Line
<1>2. UNCHANGED <<files, owner, fd, buf, todo, slot, push>>
  BY DEF Check
<1>3. FilesTyped' /\ LinesTyped' /\ RepeatsTyped'
  BY <1>1, <1>2 DEF FilesTyped, files, OneName, Slots, LinesTyped, RepeatsTyped, push
<1>4. \/ Rotated(p)
      \/ Goto(p, "recheck") /\ \E size \in Nat : seen' = [seen EXCEPT ![p] = size]
  <2>1. dir[0] \in Inodes \union {None}
    BY DEF FilesTyped
  <2>2. (IF fd[p] # None THEN fd[p] ELSE dir[0]) \in Inodes \union {None}
    BY <2>1 DEF FilesTyped
  <2>3. \A i \in Inodes : Size(i) \in Nat
    BY DEF FilesTyped, Size
  <2>4. 0 \in Nat /\ Unset \in Nat
    BY LogAssumption DEF Unset
  <2>5. QED BY <2>2, <2>3, <2>4 DEF Check
<1>5. StepsTyped'
  <2>1. CASE Rotated(p)
    BY <1>1, <1>2, <2>1 DEF StepsTyped, Goto, Rotated
  <2>2. CASE Goto(p, "recheck") /\ \E size \in Nat : seen' = [seen EXCEPT ![p] = size]
    BY <1>1, <1>2, <2>2 DEF StepsTyped, Goto
  <2>3. QED BY <1>4, <2>1, <2>2
<1>6. Calls'
  <2>1. \A q \in Procs : \/ pc'[q] = pc[q]
                         \/ pc[q] = "check" /\ pc'[q] = "recheck"
                         \/ /\ pc[q] = "check"
                            /\ pc'[q] = IF todo[q] = << >> THEN "idle" ELSE "write"
    BY <1>4 DEF Check, StepsTyped, Goto, Rotated
  <2>2. QED BY <1>1, <1>2, <2>1 DEF Calls, push, Still
<1>7. QED BY <1>1, <1>3, <1>5, <1>6, TypedNext

LEMMA RecheckTyped ==
    ASSUME Typed, NEW p \in Procs, Recheck(p)
    PROVE  Typed'
<1> USE TypedFacts
<1>1. /\ config' = config /\ MaxRotate' = MaxRotate /\ MaxLines' = MaxLines
      /\ Children' = Children /\ Has("LOGFILE_FLUSH")' = Has("LOGFILE_FLUSH")
      /\ Inodes' = Inodes /\ Line' = Line
  BY SameConfig DEF Recheck, Line
<1>2. /\ << >> \in Seq(Line) /\ dir' = dir
      /\ fd' \in [Procs -> Inodes \union {None}]
  BY DEF Recheck, FilesTyped
<1>3. FilesTyped' /\ buf' \in [Procs -> Seq(Line)]
  <2>1. CASE fd[p] # None
    BY <1>1, <1>2, <2>1, FlushTyped DEF Recheck
  <2>2. CASE fd[p] = None
    BY <1>1, <1>2, <2>2 DEF Recheck, FilesTyped, LinesTyped, OneName, Slots
  <2>3. QED BY <2>1, <2>2
<1>4. LinesTyped' /\ RepeatsTyped'
  BY <1>1, <1>3 DEF Recheck, LinesTyped, RepeatsTyped, push
<1>5. StepsTyped'
  <2>1. SizeAgain(p) \in Nat
    <3>1. dir[0] \in Inodes \union {None}
      BY DEF FilesTyped
    <3>2. \A i \in Inodes : Len(file'[i]) \in Nat
      BY <1>1, <1>3 DEF FilesTyped
    <3>3. QED BY <3>1, <3>2 DEF SizeAgain, StepsTyped
  <2>2. QED BY <1>1, <2>1 DEF Recheck, StepsTyped, Goto
<1>6. Calls'
  <2>1. \A q \in Procs : \/ pc'[q] = pc[q]
                         \/ pc[q] = "recheck" /\ pc'[q] \in {"shift", "reopen"}
    BY DEF Recheck, StepsTyped, Goto
  <2>2. \A q \in Procs : buf'[q] = buf[q] \/ buf'[q] = << >>
    BY DEF Recheck, Flush, LinesTyped
  <2>3. UNCHANGED <<owner, todo, push>>
    BY DEF Recheck
  <2>4. QED BY <1>1, <2>1, <2>2, <2>3 DEF Calls, push, Still
<1>7. QED BY <1>1, <1>3, <1>4, <1>5, <1>6, TypedNext

LEMMA ReopenTyped ==
    ASSUME Typed, NEW p \in Procs, Reopen(p)
    PROVE  Typed'
<1> USE TypedFacts
<1>1. /\ config' = config /\ MaxRotate' = MaxRotate /\ MaxLines' = MaxLines
      /\ Children' = Children /\ Has("LOGFILE_FLUSH")' = Has("LOGFILE_FLUSH")
      /\ Line' = Line
  BY SameConfig DEF Reopen, Line
<1>2. FilesTyped'
  BY <1>1, OpenTyped DEF Reopen
<1>3. UNCHANGED <<owner, buf, todo, slot, push>>
  BY DEF Reopen
<1>4. LinesTyped' /\ RepeatsTyped'
  BY <1>1, <1>3 DEF LinesTyped, RepeatsTyped, push
<1>5. StepsTyped'
  BY <1>1, <1>3 DEF Reopen, Rotated, StepsTyped, Goto
<1>6. Calls'
  <2>1. \A q \in Procs : \/ pc'[q] = pc[q]
                         \/ /\ pc[q] = "reopen"
                            /\ pc'[q] = IF todo[q] = << >> THEN "idle" ELSE "write"
    BY DEF Reopen, StepsTyped, Goto, Rotated
  <2>2. QED BY <1>1, <1>3, <2>1 DEF Calls, push, Still
<1>7. QED BY <1>1, <1>2, <1>4, <1>5, <1>6, TypedNext

(* Where a turn of the renaming loop leaves the files.                     *)
LEMMA ShiftedCases ==
    ASSUME Typed, NEW p \in Procs, Shift(p)
    PROVE  /\ slot[p] \in 0 .. MaxRotate
           /\ dir' \in [0 .. MaxRotate -> Inodes \union {None}]
           /\ \/ /\ slot[p] = MaxRotate
                 /\ \A s \in 0 .. MaxRotate : dir'[s] = IF s = slot[p] THEN None ELSE dir[s]
              \/ slot[p] < MaxRotate /\ dir[slot[p]] = None /\ dir' = dir
              \/ /\ slot[p] < MaxRotate /\ dir[slot[p]] \in Inodes
                 /\ \A s \in 0 .. MaxRotate :
                        dir'[s] = IF s = slot[p] THEN None
                                  ELSE IF s = slot[p] + 1 THEN dir[slot[p]] ELSE dir[s]
<1> USE TypedFacts
<1>1. /\ slot[p] \in 0 .. MaxRotate /\ dir' = Shifted(slot[p])
      /\ dir \in [0 .. MaxRotate -> Inodes \union {None}]
  BY DEF Shift, StepsTyped, FilesTyped
<1>2. CASE slot[p] = MaxRotate
  BY <1>1, <1>2 DEF Shifted
<1>3. CASE slot[p] # MaxRotate
  <2>1. slot[p] < MaxRotate /\ slot[p] + 1 \in 0 .. MaxRotate
        /\ dir[slot[p]] \in Inodes \union {None}
    BY <1>1, <1>3
  <2>2. QED BY <1>1, <1>3, <2>1 DEF Shifted
<1>4. QED BY <1>2, <1>3

LEMMA ShiftTyped ==
    ASSUME Typed, NEW p \in Procs, Shift(p)
    PROVE  Typed'
<1> USE TypedFacts
<1>1. /\ config' = config /\ MaxRotate' = MaxRotate /\ MaxLines' = MaxLines
      /\ Children' = Children /\ Has("LOGFILE_FLUSH")' = Has("LOGFILE_FLUSH")
      /\ Inodes' = Inodes /\ Line' = Line
  BY SameConfig DEF Shift, Line
<1>2. UNCHANGED <<file, owner, fd, buf, todo, seen, push>>
  BY DEF Shift
<1>3. OneName'
  <2>1. SUFFICES ASSUME NEW s \in Slots', NEW t \in Slots', dir'[s] = dir'[t]
                 PROVE  s = t
    BY DEF OneName
  <2>2. s \in 0 .. MaxRotate /\ t \in 0 .. MaxRotate /\ dir'[s] # None /\ dir'[t] # None
    BY <1>1 DEF Slots
  <2>3. \A i, j \in 0 .. MaxRotate : dir[i] = dir[j] /\ dir[i] # None => i = j
    BY DEF FilesTyped, OneName, Slots
  <2>4. slot[p] \in 0 .. MaxRotate
    BY ShiftedCases
  <2>5. CASE \A i \in 0 .. MaxRotate : dir'[i] = IF i = slot[p] THEN None ELSE dir[i]
    BY <2>1, <2>2, <2>3, <2>5
  <2>6. CASE dir' = dir
    BY <2>1, <2>2, <2>3, <2>6
  <2>7. CASE /\ slot[p] < MaxRotate /\ dir[slot[p]] \in Inodes
             /\ \A i \in 0 .. MaxRotate :
                    dir'[i] = IF i = slot[p] THEN None
                              ELSE IF i = slot[p] + 1 THEN dir[slot[p]] ELSE dir[i]
    <3>1. s # slot[p] /\ t # slot[p]
      BY <2>2, <2>7
    <3>2. CASE s = slot[p] + 1
      BY <2>1, <2>2, <2>3, <2>4, <2>7, <3>1, <3>2
    <3>3. CASE t = slot[p] + 1
      BY <2>1, <2>2, <2>3, <2>4, <2>7, <3>1, <3>3
    <3>4. CASE s # slot[p] + 1 /\ t # slot[p] + 1
      BY <2>1, <2>2, <2>3, <2>7, <3>1, <3>4
    <3>5. QED BY <3>2, <3>3, <3>4
  <2>8. QED BY <2>5, <2>6, <2>7, ShiftedCases
<1>4. FilesTyped' /\ LinesTyped' /\ RepeatsTyped'
  BY <1>1, <1>2, <1>3, ShiftedCases DEF FilesTyped, LinesTyped, RepeatsTyped, push
<1>5. StepsTyped'
  BY <1>1, <1>2, ShiftedCases DEF Shift, AfterShift, NextSlot, StepsTyped, Goto
<1>6. Calls'
  <2>1. \A q \in Procs : \/ pc'[q] = pc[q]
                         \/ pc[q] = "shift" /\ pc'[q] \in {"shift", "reopen"}
    BY DEF Shift, AfterShift, StepsTyped, Goto
  <2>2. QED BY <1>1, <1>2, <2>1 DEF Calls, push, Still
<1>7. QED BY <1>1, <1>4, <1>5, <1>6, TypedNext

LEMMA WriteTyped ==
    ASSUME Typed, NEW p \in Procs, Write(p)
    PROVE  Typed'
<1> USE TypedFacts
<1>1. /\ config' = config /\ MaxRotate' = MaxRotate /\ MaxLines' = MaxLines
      /\ Children' = Children /\ Has("LOGFILE_FLUSH")' = Has("LOGFILE_FLUSH")
      /\ Inodes' = Inodes /\ Line' = Line
  BY SameConfig DEF Write, Line
<1>2. UNCHANGED <<dir, owner, fd, seen, slot, push>>
  BY DEF Write
<1>3. todo[p] \in Seq(Line) /\ todo[p] # << >>
  BY DEF Write, Calls, LinesTyped
<1>4. Head(todo[p]) \in Line /\ Tail(todo[p]) \in Seq(Line) /\ <<Head(todo[p])>> \in Seq(Line)
  BY <1>3, HeadAndTail
<1>5. fd' \in [Procs -> Inodes \union {None}]
  BY <1>2 DEF FilesTyped
<1>6. FilesTyped' /\ buf' \in [Procs -> Seq(Line)]
  <2>1. CASE fd[p] # None /\ Flush(p, <<Head(todo[p])>>)
    BY <1>1, <1>2, <1>4, <1>5, <2>1, FlushTyped
  <2>2. CASE file' = file /\ \/ UNCHANGED buf
                             \/ buf' = [buf EXCEPT ![p] = Append(@, Head(todo[p]))]
    <3>1. FilesTyped'
      BY <1>1, <1>2, <2>2 DEF FilesTyped, OneName, Slots
    <3>2. Append(buf[p], Head(todo[p])) \in Seq(Line)
      BY <1>4 DEF LinesTyped
    <3>3. QED BY <1>1, <2>2, <3>1, <3>2 DEF LinesTyped
  <2>3. QED BY <2>1, <2>2 DEF Write, WriteThrough
<1>7. todo' = [todo EXCEPT ![p] = Tail(todo[p])]
  BY DEF Write
<1>8. LinesTyped' /\ RepeatsTyped'
  BY <1>1, <1>2, <1>4, <1>6, <1>7 DEF LinesTyped, RepeatsTyped, push
<1>9. StepsTyped'
  BY <1>1, <1>2 DEF Write, StepsTyped, Goto
<1>10. Calls'
  <2>1. \A q \in Procs : /\ q # p => pc'[q] = pc[q] /\ todo'[q] = todo[q] /\ buf'[q] = buf[q]
                         /\ q = p => pc'[q] = IF todo'[q] = << >> THEN "idle" ELSE "check"
    BY <1>4, <1>7 DEF Write, WriteThrough, Flush, StepsTyped, LinesTyped, Goto
  <2>2. Has("LOGFILE_FLUSH") => buf'[p] = << >>
    <3>1. CASE fd[p] # None /\ Flush(p, <<Head(todo[p])>>)
      BY <3>1 DEF Flush, LinesTyped
    <3>2. CASE ~Has("LOGFILE_FLUSH") \/ UNCHANGED buf
      BY <3>2 DEF Calls
    <3>3. QED BY <3>1, <3>2 DEF Write, WriteThrough
  <2>3. pc[p] = "write"
    BY DEF Write
  <2>4. QED BY <1>1, <1>2, <2>1, <2>2, <2>3 DEF Calls, push, Still
<1>11. QED BY <1>1, <1>6, <1>8, <1>9, <1>10, TypedNext

(* The lines that a message makes: none, itself, or the count before it.   *)
Written(p, text) == IF ~Has("LOGFILE_REPEATS") THEN 1
                    ELSE IF text = last[p] \/ repeats[p] = 0 THEN 0 ELSE 2
LEMMA PushEffect ==
    ASSUME Typed, NEW p \in Procs, NEW text \in TextsThatMatter, LogToFile(p, text)
    PROVE  /\ Written(p, text) \in 0 .. 2 /\ count[p] + Written(p, text) <= MaxLines
           /\ count' = [count EXCEPT ![p] = @ + Written(p, text)]
           /\ todo'[p] = [k \in 1 .. Written(p, text) |-> <<p, count[p] + k>>]
           /\ todo'[p] \in Seq(Line)
           /\ todo'[p] = << >> <=> Written(p, text) = 0
           /\ Len(todo'[p]) = Written(p, text)
           /\ \A q \in Procs : q # p => todo'[q] = todo[q]
<1> USE TypedFacts
<1> DEFINE n == Written(p, text)
           new == [k \in 1 .. n |-> <<p, count[p] + k>>]
<1>1. n \in 0 .. 2
  BY DEF Written
<1>2. count[p] + n <= MaxLines /\ count' = [count EXCEPT ![p] = @ + n]
      /\ todo' = [todo EXCEPT ![p] = new]
  BY DEF LogToFile, Written
<1> HIDE DEF n
<1>3. \A k \in 1 .. n : <<p, count[p] + k>> \in Line
  BY <1>1, <1>2 DEF LinesTyped, Line
<1>4. new \in Seq(Line) /\ Len(new) = n
  BY <1>1, <1>3
<1>5. new = << >> <=> n = 0
  BY <1>1, <1>4, EmptySeq
<1> HIDE DEF new
<1>6. todo'[p] = new /\ \A q \in Procs : q # p => todo'[q] = todo[q]
  BY <1>2 DEF LinesTyped
<1>7. QED BY <1>1, <1>2, <1>4, <1>5, <1>6 DEF n, new

LEMMA PushTyped ==
    ASSUME Typed, NEW p \in Procs, NEW text \in TextsThatMatter, LogToFile(p, text)
    PROVE  Typed'
<1> USE TypedFacts
<1>1. /\ config' = config /\ MaxRotate' = MaxRotate /\ MaxLines' = MaxLines
      /\ Children' = Children /\ Has("LOGFILE_FLUSH")' = Has("LOGFILE_FLUSH")
      /\ Inodes' = Inodes /\ Line' = Line
  BY SameConfig DEF LogToFile, Line
<1>2. UNCHANGED <<files, owner, fd, buf, seen, slot>>
  BY DEF LogToFile
<1>3. FilesTyped'
  BY <1>1, <1>2 DEF FilesTyped, files, OneName, Slots
<1>4. LinesTyped'
  <2>1. todo' = [todo EXCEPT ![p] = todo'[p]]
    BY PushEffect DEF LogToFile, LinesTyped
  <2>2. todo' \in [Procs -> Seq(Line)]
    BY <2>1, PushEffect DEF LinesTyped
  <2>3. count' \in [Procs -> 0 .. MaxLines]
    <3>1. /\ Written(p, text) \in 0 .. 2 /\ count[p] + Written(p, text) <= MaxLines
          /\ count' = [count EXCEPT ![p] = count[p] + Written(p, text)]
      BY PushEffect
    <3>2. count[p] + Written(p, text) \in 0 .. MaxLines
      BY <3>1 DEF LinesTyped
    <3>3. QED BY <3>1, <3>2 DEF LinesTyped
  <2>4. QED BY <1>1, <1>2, <2>2, <2>3 DEF LinesTyped
<1>5. text \in Texts
  BY ConfigFacts DEF TextsThatMatter
<1> DEFINE n == Written(p, text)
           again == Has("LOGFILE_REPEATS") /\ text = last[p]
<1>6. /\ untold[p] + 1 - n < MaxLines
      /\ repeats' = [repeats EXCEPT ![p] = IF again THEN repeats[p] + 1 ELSE 0]
      /\ untold' = [untold EXCEPT ![p] = IF n = 2 THEN untold[p] - repeats[p]
                                         ELSE untold[p] + 1 - n]
      /\ last' = [last EXCEPT ![p] = IF n < 2 THEN last[p] ELSE text]
  BY DEF LogToFile, Written
<1>7. repeats[p] \in Nat /\ untold[p] \in 0 .. MaxLines /\ repeats[p] <= untold[p]
      /\ n \in 0 .. 2 /\ (again => n = 0)
  BY PushEffect DEF RepeatsTyped, Calls, Written
<1> HIDE DEF n, again
<1>8. RepeatsTyped'
  BY <1>1, <1>5, <1>6, <1>7 DEF RepeatsTyped
<1>9. StepsTyped'
  BY <1>1, <1>2 DEF LogToFile, StepsTyped, Goto
<1>10. Calls'
  <2>1. \A q \in Procs : q # p => pc'[q] = pc[q] /\ todo'[q] = todo[q] /\ count'[q] = count[q]
                                  /\ repeats'[q] = repeats[q] /\ untold'[q] = untold[q]
    BY <1>6, PushEffect DEF LogToFile, StepsTyped, LinesTyped, RepeatsTyped, Goto
  <2>2. pc[p] = "idle" /\ pc'[p] = IF n = 0 THEN "idle" ELSE "check"
    BY DEF LogToFile, StepsTyped, Goto, Written, n
  <2>3. todo'[p] = << >> <=> n = 0
    BY PushEffect DEF n
  <2>4. repeats'[p] <= untold'[p]
    BY <1>6, <1>7 DEF RepeatsTyped
  <2>5. QED BY <1>1, <1>2, <2>1, <2>2, <2>3, <2>4 DEF Calls, Still
<1>11. QED BY <1>1, <1>3, <1>4, <1>8, <1>9, <1>10, TypedNext

LEMMA NextTyped ==
    ASSUME Typed, [Next]_vars
    PROVE  Typed'
<1>1. CASE UNCHANGED vars
  <2>1. UNCHANGED <<config, dir, file, pc, owner, fd, buf, todo, seen, slot, last, repeats,
                    count, untold>>
    BY <1>1 DEF vars, files, push
  <2>2. config' = config /\ config \in Configs
    BY <2>1, TypedFacts
  <2>3. MaxRotate' = MaxRotate /\ MaxLines' = MaxLines /\ Inodes' = Inodes /\ Line' = Line
        /\ Children' = Children /\ Has("LOGFILE_FLUSH")' = Has("LOGFILE_FLUSH")
    BY <2>2, SameConfig DEF Line
  <2>4. FilesTyped' /\ LinesTyped' /\ StepsTyped' /\ RepeatsTyped'
    BY <2>1, <2>3, TypedFacts
       DEF FilesTyped, LinesTyped, StepsTyped, RepeatsTyped, OneName, Slots
  <2>5. Calls'
    BY <2>1, <2>3, TypedFacts DEF Calls
  <2>6. QED BY <2>2, <2>4, <2>5, TypedNext
<1>2. CASE Next
  BY <1>2, CreateTyped, ForkTyped, SetValuesTyped, CrashTyped, FlushAllTyped, CheckTyped,
     RecheckTyped, ReopenTyped, ShiftTyped, WriteTyped, PushTyped DEF Next, Step
<1>3. QED BY <1>1, <1>2
------------------------------------------------------------------------------
(* What is in order stays so when the files do not change, lines are taken *)
(* from the buffer or the call, and new ones have new numbers.             *)
LEMMA SameOrder ==
    ASSUME Typed, NEW q \in Procs, Order(q), config' = config, UNCHANGED files,
           Ascending(q, buf'[q]), Ascending(q, todo'[q]),
           count'[q] \in Nat, count[q] <= count'[q],
           Numbers(q, buf'[q]) \subseteq Numbers(q, buf[q]),
           Numbers(q, todo'[q]) \subseteq Numbers(q, todo[q]) \union (count[q] + 1 .. count'[q]),
           \A r \in Procs \ {q} : /\ Numbers(r, buf'[q]) \subseteq Numbers(r, buf[q])
                                  /\ Numbers(r, todo'[q]) \subseteq Numbers(r, todo[q]),
           \A s \in Slots : fd'[q] = dir[s] =>
                fd[q] = dir[s] \/ \A t \in Slots : t < s => Numbers(q, file[dir[t]]) = {}
    PROVE  Order(q)'
<1> USE TypedFacts
<1>1. Slots' = Slots /\ dir' = dir /\ file' = file
  BY SameConfig DEF files, Slots
<1>2. count[q] \in Nat /\ 1 .. count[q] \subseteq 1 .. count'[q]
      /\ count[q] + 1 .. count'[q] \subseteq 1 .. count'[q]
  BY DEF LinesTyped
<1>3. \A m \in 1 .. count[q], n \in count[q] + 1 .. count'[q] : m < n
  BY <1>2
<1> DEFINE old == 1 .. count[q]
           new == count[q] + 1 .. count'[q]
           all == 1 .. count'[q]
<1>4. /\ old \subseteq all /\ new \subseteq all
      /\ \A m \in old, n \in new : m < n
      /\ Numbers(q, todo'[q]) \subseteq Numbers(q, todo[q]) \union new
  BY <1>2, <1>3
<1> HIDE DEF new
<1>5. Numbers(q, buf[q]) \subseteq old /\ Numbers(q, todo[q]) \subseteq old
  BY DEF Order
<1>6. \A s \in Slots : Numbers(q, file[dir[s]]) \subseteq old
  BY DEF Order
<1> HIDE DEF old
<1>7. Numbers(q, buf'[q]) \subseteq all /\ Numbers(q, todo'[q]) \subseteq all
  BY <1>4, <1>5
<1>8. Before(q, buf'[q], todo'[q])
  BY <1>4, <1>5 DEF Before, Order
<1>9. ASSUME NEW s \in Slots
      PROVE  /\ Ascending(q, file[dir[s]])
             /\ \A t \in Slots : t < s => Before(q, file[dir[s]], file[dir[t]])
             /\ Before(q, file[dir[s]], buf'[q])
             /\ Before(q, file[dir[s]], todo'[q])
             /\ Numbers(q, file[dir[s]]) \subseteq all
             /\ fd'[q] = dir[s] =>
                    \A t \in Slots : t < s => Numbers(q, file[dir[t]]) = {}
  <2>1. /\ Ascending(q, file[dir[s]])
        /\ \A t \in Slots : t < s => Before(q, file[dir[s]], file[dir[t]])
        /\ Before(q, file[dir[s]], buf[q])
        /\ Before(q, file[dir[s]], todo[q])
        /\ fd[q] = dir[s] => \A t \in Slots : t < s => Numbers(q, file[dir[t]]) = {}
    BY DEF Order
  <2>2. Before(q, file[dir[s]], buf'[q]) /\ Before(q, file[dir[s]], todo'[q])
    BY <1>4, <1>6, <2>1 DEF Before
  <2>3. Numbers(q, file[dir[s]]) \subseteq all
    BY <1>4, <1>6
  <2>4. QED BY <2>1, <2>2, <2>3
<1>10. \A r \in Procs \ {q} : Numbers(r, buf'[q]) = {} /\ Numbers(r, todo'[q]) = {}
  BY DEF Order
<1>11. QED BY <1>1, <1>7, <1>8, <1>9, <1>10 DEF Order

LEMMA AscendingNone ==
    ASSUME NEW p, NEW x, Numbers(p, x) = {}
    PROVE  Ascending(p, x)
BY DEF Numbers, Ascending

LEMMA OpenOrder ==
    ASSUME Typed, InOrder, NEW p \in Procs, LogFileOpen(p), config' = config,
           UNCHANGED <<buf, todo, count>>
    PROVE  InOrder'
<1> USE TypedFacts
<1>1. SUFFICES ASSUME EachLineOnce, NEW q \in Procs PROVE Order(q)'
  BY SameConfig DEF InOrder
<1>2. Order(q)
  BY <1>1 DEF InOrder
<1>3. count'[q] \in Nat /\ count[q] <= count'[q]
  BY DEF LinesTyped
<1>4. /\ Ascending(q, buf'[q]) /\ Ascending(q, todo'[q])
      /\ Numbers(q, buf'[q]) \subseteq Numbers(q, buf[q])
      /\ Numbers(q, todo'[q]) \subseteq Numbers(q, todo[q]) \union (count[q] + 1 .. count'[q])
      /\ \A r \in Procs \ {q} : /\ Numbers(r, buf'[q]) \subseteq Numbers(r, buf[q])
                                /\ Numbers(r, todo'[q]) \subseteq Numbers(r, todo[q])
  BY <1>2 DEF Order
<1>5. CASE UNCHANGED files /\ \/ fd' = [fd EXCEPT ![p] = dir[0]]
                              \/ fd' = [fd EXCEPT ![p] = None]
  <2>1. ASSUME NEW s \in Slots, fd'[q] = dir[s], fd[q] # dir[s], NEW t \in Slots, t < s
        PROVE  FALSE
    <3>1. q = p /\ dir[s] = dir[0] /\ dir[0] # None
      BY <1>5, <2>1 DEF Slots, FilesTyped
    <3>2. 0 \in Slots /\ s = 0
      BY <3>1 DEF Slots, FilesTyped, OneName
    <3>3. QED BY <2>1, <3>2 DEF Slots
  <2>2. \A s \in Slots : fd'[q] = dir[s] =>
            fd[q] = dir[s] \/ \A t \in Slots : t < s => Numbers(q, file[dir[t]]) = {}
    BY <2>1
  <2>3. QED BY <1>2, <1>3, <1>4, <1>5, <2>2, SameOrder
<1>6. CASE /\ dir[0] = None
           /\ NewFile \in Inodes /\ ~Named(NewFile)
           /\ \A r \in Procs : fd[r] # NewFile
           /\ fd' = [fd EXCEPT ![p] = NewFile]
           /\ dir' = [dir EXCEPT ![0] = NewFile]
           /\ file' = [file EXCEPT ![NewFile] = << >>]
  <2>1. NewFile # None
    BY <1>6 DEF Inodes, None
  <2>2. Slots' = Slots \union {0} /\ dir'[0] = NewFile /\ file'[dir'[0]] = << >>
        /\ 0 \notin Slots
    BY <1>6, <2>1, SameConfig DEF Slots, FilesTyped
  <2>3. \A s \in Slots : /\ s # 0 /\ s > 0 /\ dir'[s] = dir[s]
                         /\ dir[s] # NewFile /\ file'[dir'[s]] = file[dir[s]]
    <3>1. \A s \in Slots : s # 0 /\ s > 0 /\ dir'[s] = dir[s]
      BY <1>6 DEF Slots, FilesTyped
    <3>2. \A s \in Slots : dir[s] # NewFile /\ dir[s] \in Inodes
      BY <1>6 DEF Slots, FilesTyped, Named
    <3>3. \A i \in Inodes : i # NewFile => file'[i] = file[i]
      BY <1>6 DEF FilesTyped
    <3>4. QED BY <3>1, <3>2, <3>3
  <2>4. \A s \in Slots : fd'[q] = dir[s] => fd[q] = dir[s]
    BY <1>6, <2>3 DEF FilesTyped
  <2>5. Numbers(q, << >>) = {} /\ Ascending(q, << >>)
    BY NumbersNone
  <2>6. ASSUME NEW s \in Slots'
        PROVE  /\ Ascending(q, file'[dir'[s]])
               /\ \A t \in Slots' : t < s => Before(q, file'[dir'[s]], file'[dir'[t]])
               /\ Before(q, file'[dir'[s]], buf[q])
               /\ Before(q, file'[dir'[s]], todo[q])
               /\ Numbers(q, file'[dir'[s]]) \subseteq 1 .. count[q]
               /\ fd'[q] = dir'[s] =>
                      \A t \in Slots' : t < s => Numbers(q, file'[dir'[t]]) = {}
    <3>1. CASE s = 0
      <4>1. \A t \in Slots' : ~(t < s)
        BY <2>2, <2>3, <3>1
      <4>2. QED BY <2>2, <2>5, <3>1, <4>1 DEF Before
    <3>2. CASE s \in Slots
      <4>1. /\ Ascending(q, file[dir[s]])
            /\ \A t \in Slots : t < s => Before(q, file[dir[s]], file[dir[t]])
            /\ Before(q, file[dir[s]], buf[q])
            /\ Before(q, file[dir[s]], todo[q])
            /\ Numbers(q, file[dir[s]]) \subseteq 1 .. count[q]
            /\ fd[q] = dir[s] => \A t \in Slots : t < s => Numbers(q, file[dir[t]]) = {}
        BY <1>2, <3>2 DEF Order
      <4>2. Before(q, file[dir[s]], << >>)
        BY <2>5 DEF Before
      <4>3. file'[dir'[s]] = file[dir[s]] /\ dir'[s] = dir[s]
            /\ (fd'[q] = dir'[s] => fd[q] = dir[s])
        BY <2>3, <2>4, <3>2
      <4>4. \A t \in Slots' : t = 0 \/ (t \in Slots /\ file'[dir'[t]] = file[dir[t]])
        BY <2>2, <2>3
      <4>5. QED BY <2>2, <2>5, <4>1, <4>2, <4>3, <4>4
    <3>3. QED BY <2>2, <3>1, <3>2
  <2>7. QED BY <1>2, <2>6 DEF Order
<1>7. QED BY <1>5, <1>6, OpenCases

(* The same, of lines of the log.                                          *)
LEMMA LinesConcat ==
    ASSUME NEW x \in Seq(Line), NEW y \in Seq(Line)
    PROVE  \A p : /\ Numbers(p, x \o y) = Numbers(p, x) \union Numbers(p, y)
                  /\ Ascending(p, x \o y) <=>
                         Ascending(p, x) /\ Ascending(p, y) /\ Before(p, x, y)
<1>1. SUFFICES ASSUME NEW p
               PROVE  /\ Numbers(p, x \o y) = Numbers(p, x) \union Numbers(p, y)
                      /\ Ascending(p, x \o y) <=>
                             Ascending(p, x) /\ Ascending(p, y) /\ Before(p, x, y)
  OBVIOUS
<1>2. Numbers(p, x \o y) = Numbers(p, x) \union Numbers(p, y)
  <2>1. \A S : x \in Seq(S) /\ y \in Seq(S) =>
            Numbers(p, x \o y) = Numbers(p, x) \union Numbers(p, y)
    BY NumbersConcat
  <2>2. QED BY <2>1
<1>3. Line \subseteq Procs \X Nat
  BY DEF Line
<1>4. x \in Seq(Procs \X Nat) /\ y \in Seq(Procs \X Nat)
  BY <1>3
<1>5. QED BY <1>2, <1>4, AscendingConcat

(* What a flush adds to a file: the lines of the buffer and more, which    *)
(* are all of the process that flushes.                                    *)
LEMMA FlushNumbers ==
    ASSUME Typed, NEW p \in Procs, fd[p] # None, NEW more \in Seq(Line), Flush(p, more)
    PROVE  /\ \A i \in Inodes \ {fd[p]} : file'[i] = file[i]
           /\ fd[p] \in Inodes
           /\ \A q : Numbers(q, file'[fd[p]]) = Numbers(q, file[fd[p]])
                                \union Numbers(q, buf[p]) \union Numbers(q, more)
           /\ \A q : Ascending(q, file[fd[p]]) /\ Ascending(q, buf[p]) /\ Ascending(q, more)
                     /\ Before(q, file[fd[p]], buf[p]) /\ Before(q, file[fd[p]], more)
                     /\ Before(q, buf[p], more) => Ascending(q, file'[fd[p]])
           /\ buf'[p] = << >> /\ \A q \in Procs \ {p} : buf'[q] = buf[q]
<1> USE TypedFacts
<1> DEFINE x == file[fd[p]]
           y == buf[p]
<1>1. fd[p] \in Inodes /\ x \in Seq(Line) /\ y \in Seq(Line)
  BY DEF FilesTyped, LinesTyped
<1>2. file'[fd[p]] = (x \o y) \o more /\ \A i \in Inodes \ {fd[p]} : file'[i] = file[i]
  BY <1>1 DEF Flush, FilesTyped
<1>4. buf'[p] = << >> /\ \A q \in Procs \ {p} : buf'[q] = buf[q]
  BY DEF Flush, LinesTyped
<1> HIDE DEF x, y
<1>5. x \o y \in Seq(Line)
  BY <1>1
<1>6. ASSUME NEW q
      PROVE  Numbers(q, (x \o y) \o more) = Numbers(q, x) \union Numbers(q, y)
                                                \union Numbers(q, more)
  <2>1. Numbers(q, (x \o y) \o more) = Numbers(q, x \o y) \union Numbers(q, more)
    BY <1>5, LinesConcat
  <2>2. Numbers(q, x \o y) = Numbers(q, x) \union Numbers(q, y)
    BY <1>1, LinesConcat
  <2>3. QED BY <2>1, <2>2
<1>7. ASSUME NEW q, Ascending(q, x), Ascending(q, y), Ascending(q, more),
             Before(q, x, y), Before(q, x, more), Before(q, y, more)
      PROVE  Ascending(q, (x \o y) \o more)
  <2>1. Before(q, x \o y, more)
    BY <1>1, <1>7, BeforeConcat
  <2>2. Ascending(q, x \o y)
    BY <1>1, <1>7, LinesConcat
  <2>3. QED BY <1>5, <1>7, <2>1, <2>2, LinesConcat
<1>8. QED BY <1>1, <1>2, <1>4, <1>6, <1>7 DEF x, y

LEMMA FlushOrder ==
    ASSUME Typed, InOrder, NEW p \in Procs, fd[p] # None,
           NEW more \in Seq(Line), NEW rest \in Seq(Line), todo[p] = more \o rest,
           Flush(p, more), config' = config, UNCHANGED <<dir, count>>,
           todo'[p] = rest, \A q \in Procs \ {p} : todo'[q] = todo[q],
           \A q \in Procs : fd'[q] = fd[q] \/ fd'[q] = None
    PROVE  InOrder'
<1> USE TypedFacts
<1>1. SUFFICES ASSUME EachLineOnce, NEW q \in Procs PROVE Order(q)'
  BY SameConfig DEF InOrder
<1>2. Order(p) /\ Order(q)
  BY <1>1 DEF InOrder
<1> DEFINE i == fd[p]
<1>3. /\ \A j \in Inodes \ {i} : file'[j] = file[j]
      /\ i \in Inodes
      /\ Numbers(q, file'[i]) = Numbers(q, file[i]) \union Numbers(q, buf[p])
                                    \union Numbers(q, more)
      /\ Ascending(q, file[i]) /\ Ascending(q, buf[p]) /\ Ascending(q, more)
         /\ Before(q, file[i], buf[p]) /\ Before(q, file[i], more)
         /\ Before(q, buf[p], more) => Ascending(q, file'[i])
      /\ buf'[p] = << >> /\ \A r \in Procs \ {p} : buf'[r] = buf[r]
  BY FlushNumbers
<1>4. \A r : Numbers(r, todo[p]) = Numbers(r, more) \union Numbers(r, rest)
  BY LinesConcat
<1>5. \A r \in Procs : Ascending(r, todo[p]) =>
            Ascending(r, more) /\ Ascending(r, rest) /\ Before(r, more, rest)
  BY LinesConcat
<1>6. \A s \in Slots : dir[s] \in Inodes
  BY DEF Slots, FilesTyped
<1>7. Slots' = Slots
  BY SameConfig DEF Slots
<1>8. \A s \in Slots : fd'[q] = dir[s] => fd[q] = dir[s]
  BY DEF Slots
<1>9. \A r \in Procs : Numbers(r, << >>) = {} /\ Ascending(r, << >>)
  BY NumbersNone
<1> HIDE DEF i
<1>10. CASE q = p
  <2>1. /\ Before(p, buf[p], todo[p])
        /\ Ascending(p, buf[p]) /\ Ascending(p, more) /\ Ascending(p, rest)
        /\ Before(p, more, rest)
        /\ Numbers(p, buf[p]) \subseteq 1 .. count[p]
        /\ Numbers(p, more) \subseteq 1 .. count[p] /\ Numbers(p, rest) \subseteq 1 .. count[p]
    BY <1>2, <1>4, <1>5 DEF Order
  <2>2. Before(p, buf[p], more) /\ Before(p, buf[p], rest)
    BY <1>4, <2>1 DEF Before
  <2>3. ASSUME NEW s \in Slots
        PROVE  /\ Ascending(p, file'[dir[s]])
               /\ \A t \in Slots : t < s => Before(p, file'[dir[s]], file'[dir[t]])
               /\ Before(p, file'[dir[s]], rest)
               /\ Numbers(p, file'[dir[s]]) \subseteq 1 .. count[p]
               /\ fd[p] = dir[s] => \A t \in Slots : t < s => Numbers(p, file'[dir[t]]) = {}
    <3>1. /\ Ascending(p, file[dir[s]])
          /\ \A t \in Slots : t < s => Before(p, file[dir[s]], file[dir[t]])
          /\ Before(p, file[dir[s]], buf[p])
          /\ Before(p, file[dir[s]], todo[p])
          /\ Numbers(p, file[dir[s]]) \subseteq 1 .. count[p]
          /\ i = dir[s] => \A t \in Slots : t < s => Numbers(p, file[dir[t]]) = {}
      BY <1>2 DEF Order, i
    <3>2. Before(p, file[dir[s]], more) /\ Before(p, file[dir[s]], rest)
      BY <1>4, <3>1 DEF Before
    <3>3. CASE dir[s] = i
      <4>1. \A t \in Slots : t < s => dir[t] # i /\ file'[dir[t]] = file[dir[t]]
        <5>1. \A t \in Slots : t < s => dir[t] # dir[s]
          BY DEF OneName, FilesTyped, Slots
        <5>2. QED BY <1>3, <1>6, <3>3, <5>1
      <4>2. \A t \in Slots : t < s => Numbers(p, file'[dir[t]]) = {}
        BY <3>1, <3>3, <4>1
      <4>3. Ascending(p, file'[i])
        BY <1>3, <1>10, <2>1, <2>2, <3>1, <3>2, <3>3
      <4>4. Before(p, file'[i], rest) /\ Numbers(p, file'[i]) \subseteq 1 .. count[p]
        BY <1>3, <1>10, <2>1, <2>2, <3>1, <3>2, <3>3 DEF Before
      <4>5. \A t \in Slots : t < s => Before(p, file'[i], file'[dir[t]])
        BY <4>2 DEF Before
      <4>6. QED BY <3>3, <4>2, <4>3, <4>4, <4>5
    <3>4. CASE dir[s] # i
      <4>1. file'[dir[s]] = file[dir[s]]
        BY <1>3, <1>6, <3>4
      <4>2. ASSUME NEW t \in Slots, t < s
            PROVE  Before(p, file[dir[s]], file'[dir[t]])
        <5>1. CASE dir[t] = i
          BY <1>3, <1>10, <3>1, <3>2, <4>2, <5>1 DEF Before
        <5>2. CASE dir[t] # i
          BY <1>3, <1>6, <3>1, <4>2, <5>2
        <5>3. QED BY <5>1, <5>2
      <4>3. QED BY <3>1, <3>2, <3>4, <4>1, <4>2 DEF i
    <3>5. QED BY <3>3, <3>4
  <2>4. Before(p, << >>, rest) /\ \A s \in Slots : Before(p, file'[dir[s]], << >>)
    BY <1>9 DEF Before
  <2>5. \A r \in Procs \ {p} : Numbers(r, << >>) = {} /\ Numbers(r, rest) = {}
    BY <1>2, <1>4, <1>9 DEF Order
  <2>6. /\ dir' = dir /\ buf'[p] = << >> /\ todo'[p] = rest /\ count'[p] = count[p]
        /\ Ascending(p, << >>) /\ Numbers(p, << >>) \subseteq 1 .. count[p]
    BY <1>3, <1>9
  <2>7. Order(p)'
    BY <1>7, <1>8, <1>10, <2>1, <2>3, <2>4, <2>5, <2>6 DEF Order
  <2>8. QED BY <1>10, <2>7
<1>11. CASE q # p
  <2>1. Numbers(q, buf[p]) = {} /\ Numbers(q, todo[p]) = {}
    BY <1>2, <1>11 DEF Order
  <2>2. Numbers(q, file'[i]) = Numbers(q, file[i]) /\ Numbers(q, more) = {}
    BY <1>3, <1>4, <2>1
  <2>3. \A j \in Inodes : /\ Numbers(q, file'[j]) = Numbers(q, file[j])
                          /\ Ascending(q, file[j]) => Ascending(q, file'[j])
    <3>1. Ascending(q, buf[p]) /\ Ascending(q, more)
      BY <2>1, <2>2, AscendingNone
    <3>2. Before(q, file[i], buf[p]) /\ Before(q, file[i], more) /\ Before(q, buf[p], more)
      BY <2>1, <2>2 DEF Before
    <3>3. Ascending(q, file[i]) => Ascending(q, file'[i])
      BY <1>3, <3>1, <3>2
    <3>4. QED BY <1>3, <2>2, <3>3
  <2>4. UNCHANGED <<buf[q], todo[q], count[q], dir>>
    BY <1>3, <1>11
  <2>5. ASSUME NEW s \in Slots
        PROVE  /\ Ascending(q, file'[dir[s]])
               /\ \A t \in Slots : t < s => Before(q, file'[dir[s]], file'[dir[t]])
               /\ Before(q, file'[dir[s]], buf[q])
               /\ Before(q, file'[dir[s]], todo[q])
               /\ Numbers(q, file'[dir[s]]) \subseteq 1 .. count[q]
               /\ fd'[q] = dir[s] => \A t \in Slots : t < s => Numbers(q, file'[dir[t]]) = {}
    <3>1. /\ Ascending(q, file[dir[s]])
          /\ \A t \in Slots : t < s => Before(q, file[dir[s]], file[dir[t]])
          /\ Before(q, file[dir[s]], buf[q])
          /\ Before(q, file[dir[s]], todo[q])
          /\ Numbers(q, file[dir[s]]) \subseteq 1 .. count[q]
          /\ fd'[q] = dir[s] => \A t \in Slots : t < s => Numbers(q, file[dir[t]]) = {}
      BY <1>2, <1>8 DEF Order
    <3>2. QED BY <1>6, <2>3, <3>1 DEF Before
  <2>6. /\ Ascending(q, buf[q]) /\ Ascending(q, todo[q]) /\ Before(q, buf[q], todo[q])
        /\ Numbers(q, buf[q]) \subseteq 1 .. count[q] /\ Numbers(q, todo[q]) \subseteq 1 .. count[q]
        /\ \A r \in Procs \ {q} : Numbers(r, buf[q]) = {} /\ Numbers(r, todo[q]) = {}
    BY <1>2 DEF Order
  <2>7. QED BY <1>7, <2>4, <2>5, <2>6 DEF Order
<1>12. QED BY <1>10, <1>11

(* A rotation moves a file to an older name only past a file that it drops.*)
LEMMA ShiftOrder ==
    ASSUME Typed, InOrder, NEW p \in Procs, Shift(p)
    PROVE  InOrder'
<1> USE TypedFacts
<1>1. SUFFICES ASSUME EachLineOnce, NEW q \in Procs PROVE Order(q)'
  BY SameConfig DEF InOrder, Shift
<1>2. Order(q)
  BY <1>1 DEF InOrder
<1>3. UNCHANGED <<config, file, fd, buf, todo, count>> /\ MaxRotate' = MaxRotate
  BY SameConfig DEF Shift, push
<1> DEFINE Was(s) == IF s \in Slots /\ dir'[s] = dir[s] THEN s ELSE slot[p]
<1>4. ASSUME NEW s \in Slots'
      PROVE  /\ Was(s) \in Slots /\ dir'[s] = dir[Was(s)]
             /\ \A t \in Slots' : t < s => Was(t) < Was(s)
  <2>1. slot[p] \in 0 .. MaxRotate
    BY ShiftedCases
  <2>2. CASE /\ slot[p] = MaxRotate
             /\ \A i \in 0 .. MaxRotate : dir'[i] = IF i = slot[p] THEN None ELSE dir[i]
    <3>1. \A t \in Slots' : t \in Slots /\ dir'[t] = dir[t] /\ Was(t) = t
      BY <1>3, <2>2 DEF Slots
    <3>2. QED BY <3>1
  <2>3. CASE dir' = dir
    <3>1. \A t \in Slots' : t \in Slots /\ dir'[t] = dir[t] /\ Was(t) = t
      BY <1>3, <2>3 DEF Slots
    <3>2. QED BY <3>1
  <2>4. CASE /\ slot[p] < MaxRotate /\ dir[slot[p]] \in Inodes
             /\ \A i \in 0 .. MaxRotate :
                    dir'[i] = IF i = slot[p] THEN None
                              ELSE IF i = slot[p] + 1 THEN dir[slot[p]] ELSE dir[i]
    <3>1. slot[p] \in Slots /\ slot[p] + 1 \in 0 .. MaxRotate
      BY <2>1, <2>4 DEF Slots, Inodes, None
    <3>2. dir[slot[p] + 1] # dir[slot[p]]
      BY <2>1, <3>1 DEF FilesTyped, OneName, Slots
    <3>3. \A t \in Slots' : /\ t # slot[p] /\ t \in 0 .. MaxRotate
                            /\ t = slot[p] + 1 => Was(t) = slot[p] /\ dir'[t] = dir[slot[p]]
                            /\ t # slot[p] + 1 => t \in Slots /\ Was(t) = t /\ dir'[t] = dir[t]
      BY <1>3, <2>4, <3>1, <3>2 DEF Slots
    <3> HIDE DEF Was
    <3>4. QED BY <2>1, <3>1, <3>3
  <2>5. QED BY <2>2, <2>3, <2>4, ShiftedCases
<1> HIDE DEF Was
<1>5. ASSUME NEW s \in Slots'
      PROVE  /\ Ascending(q, file[dir'[s]])
             /\ \A t \in Slots' : t < s => Before(q, file[dir'[s]], file[dir'[t]])
             /\ Before(q, file[dir'[s]], buf[q])
             /\ Before(q, file[dir'[s]], todo[q])
             /\ Numbers(q, file[dir'[s]]) \subseteq 1 .. count[q]
             /\ fd[q] = dir'[s] => \A t \in Slots' : t < s => Numbers(q, file[dir'[t]]) = {}
  <2>1. Was(s) \in Slots /\ dir'[s] = dir[Was(s)]
    BY <1>4
  <2>2. \A t \in Slots' : t < s => /\ Was(t) \in Slots /\ dir'[t] = dir[Was(t)]
                                   /\ Was(t) < Was(s)
    BY <1>4
  <2>3. /\ Ascending(q, file[dir[Was(s)]])
        /\ \A t \in Slots : t < Was(s) => Before(q, file[dir[Was(s)]], file[dir[t]])
        /\ Before(q, file[dir[Was(s)]], buf[q])
        /\ Before(q, file[dir[Was(s)]], todo[q])
        /\ Numbers(q, file[dir[Was(s)]]) \subseteq 1 .. count[q]
        /\ fd[q] = dir[Was(s)] =>
               \A t \in Slots : t < Was(s) => Numbers(q, file[dir[t]]) = {}
    BY <1>2, <2>1 DEF Order
  <2>4. QED BY <2>1, <2>2, <2>3
<1>6. /\ Ascending(q, buf[q]) /\ Ascending(q, todo[q]) /\ Before(q, buf[q], todo[q])
      /\ Numbers(q, buf[q]) \subseteq 1 .. count[q] /\ Numbers(q, todo[q]) \subseteq 1 .. count[q]
      /\ \A r \in Procs \ {q} : Numbers(r, buf[q]) = {} /\ Numbers(r, todo[q]) = {}
  BY <1>2 DEF Order
<1>7. QED BY <1>3, <1>5, <1>6 DEF Order

(* A child has written nothing, wherever the file is that it is given.     *)
LEMMA ForkOrder ==
    ASSUME Typed, InOrder, NEW p \in Procs, NEW c \in Procs, Fork(p, c)
    PROVE  InOrder'
<1> USE TypedFacts
<1>1. SUFFICES ASSUME EachLineOnce, NEW q \in Procs PROVE Order(q)'
  BY SameConfig DEF InOrder, Fork
<1>2. Order(q)
  BY <1>1 DEF InOrder
<1>3. c \in Children /\ pc[c] = "off" /\ count[c] = 0
  BY DEF Fork, Calls
<1>4. buf[p] = << >> /\ buf[c] = << >>
  BY <1>1, <1>3 DEF EachLineOnce, Calls
<1>5. /\ UNCHANGED <<config, files, todo, count>>
      /\ buf'[q] = buf[q]
      /\ q # c => fd'[q] = fd[q]
  BY <1>4 DEF Fork, FilesTyped, LinesTyped
<1>6. count'[q] \in Nat /\ count[q] <= count'[q]
  BY <1>5 DEF LinesTyped
<1>7. ASSUME q = c, NEW t \in Slots PROVE Numbers(q, file[dir[t]]) = {}
  <2>1. Numbers(q, file[dir[t]]) \subseteq 1 .. 0
    BY <1>2, <1>3, <1>7 DEF Order
  <2>2. QED BY <2>1
<1>8. \A s \in Slots : fd'[q] = dir[s] =>
          fd[q] = dir[s] \/ \A t \in Slots : t < s => Numbers(q, file[dir[t]]) = {}
  BY <1>5, <1>7
<1>9. /\ Ascending(q, buf'[q]) /\ Ascending(q, todo'[q])
      /\ Numbers(q, buf'[q]) \subseteq Numbers(q, buf[q])
      /\ Numbers(q, todo'[q]) \subseteq Numbers(q, todo[q]) \union (count[q] + 1 .. count'[q])
      /\ \A r \in Procs \ {q} : /\ Numbers(r, buf'[q]) \subseteq Numbers(r, buf[q])
                                /\ Numbers(r, todo'[q]) \subseteq Numbers(r, todo[q])
  BY <1>2, <1>5 DEF Order
<1>10. QED BY <1>2, <1>5, <1>6, <1>8, <1>9, SameOrder

(* The lines of a call are numbered on from those before it.               *)
LEMMA PushOrder ==
    ASSUME Typed, InOrder, NEW p \in Procs, NEW text \in TextsThatMatter, LogToFile(p, text)
    PROVE  InOrder'
<1> USE TypedFacts
<1>1. SUFFICES ASSUME EachLineOnce, NEW q \in Procs PROVE Order(q)'
  BY SameConfig DEF InOrder, LogToFile
<1>2. Order(q)
  BY <1>1 DEF InOrder
<1>3. UNCHANGED <<config, files, fd, buf>>
  BY DEF LogToFile
<1> DEFINE n == Written(p, text)
           new == todo'[p]
<1>4. /\ n \in 0 .. 2 /\ new = [k \in 1 .. n |-> <<p, count[p] + k>>]
      /\ new \in Seq(Line) /\ Len(new) = n
      /\ count' = [count EXCEPT ![p] = count[p] + n]
      /\ \A r \in Procs : r # p => todo'[r] = todo[r]
  BY PushEffect
<1>5. count[p] \in Nat /\ count'[p] = count[p] + n /\ count[q] \in Nat
      /\ (q # p => count'[q] = count[q])
  BY <1>4 DEF LinesTyped
<1> HIDE DEF n, new
<1>6. \A k \in 1 .. Len(new) : new[k][1] = p /\ new[k][2] = count[p] + k
  BY <1>4
<1>7. Numbers(p, new) \subseteq count[p] + 1 .. count'[p]
  BY <1>4, <1>5, <1>6 DEF Numbers
<1>8. \A r \in Procs \ {p} : Numbers(r, new) = {}
  BY <1>6 DEF Numbers
<1>9. Ascending(p, new)
  BY <1>4, <1>5, <1>6 DEF Ascending
<1>10. count'[q] \in Nat /\ count[q] <= count'[q]
  BY <1>4, <1>5
<1>11. /\ Ascending(q, buf'[q]) /\ Numbers(q, buf'[q]) \subseteq Numbers(q, buf[q])
       /\ \A s \in Slots : fd'[q] = dir[s] =>
              fd[q] = dir[s] \/ \A t \in Slots : t < s => Numbers(q, file[dir[t]]) = {}
  BY <1>2, <1>3 DEF Order
<1>12. /\ Ascending(q, todo'[q])
       /\ Numbers(q, todo'[q]) \subseteq Numbers(q, todo[q]) \union (count[q] + 1 .. count'[q])
       /\ \A r \in Procs \ {q} : /\ Numbers(r, buf'[q]) \subseteq Numbers(r, buf[q])
                                 /\ Numbers(r, todo'[q]) \subseteq Numbers(r, todo[q])
  <2>1. CASE q = p
    BY <1>3, <1>7, <1>8, <1>9, <2>1 DEF new
  <2>2. CASE q # p
    BY <1>2, <1>3, <1>4, <2>2 DEF Order
  <2>3. QED BY <2>1, <2>2
<1>13. QED BY <1>2, <1>3, <1>10, <1>11, <1>12, SameOrder

(* A line that joins those in the buffer, and one that is not written.     *)
LEMMA WriteOrder ==
    ASSUME Typed, InOrder, NEW p \in Procs, Write(p)
    PROVE  InOrder'
<1> USE TypedFacts
<1> DEFINE one == <<Head(todo[p])>>
           rest == Tail(todo[p])
<1>1. todo[p] \in Seq(Line) /\ todo[p] # << >>
  BY DEF Write, Calls, LinesTyped
<1>2. /\ Head(todo[p]) \in Line /\ one \in Seq(Line) /\ rest \in Seq(Line)
      /\ todo[p] = one \o rest
  BY <1>1, HeadAndTail
<1>3. /\ config' = config /\ UNCHANGED <<dir, fd, count>>
      /\ todo'[p] = rest /\ \A q \in Procs \ {p} : todo'[q] = todo[q]
  BY DEF Write, LinesTyped, push
<1>4. CASE fd[p] # None /\ Flush(p, one)
  <2> HIDE DEF one, rest
  <2>1. QED BY <1>2, <1>3, <1>4, FlushOrder
<1>5. CASE file' = file /\ \/ UNCHANGED buf
                           \/ buf' = [buf EXCEPT ![p] = Append(@, Head(todo[p]))]
  <2>1. SUFFICES ASSUME EachLineOnce, NEW q \in Procs PROVE Order(q)'
    BY <1>3, SameConfig DEF InOrder
  <2>2. Order(q) /\ Order(p)
    BY <2>1 DEF InOrder
  <2>3. UNCHANGED files /\ count'[q] \in Nat /\ count[q] <= count'[q]
    BY <1>3, <1>5 DEF files, LinesTyped
  <2>4. \A r : Numbers(r, todo[p]) = Numbers(r, one) \union Numbers(r, rest)
    <3> HIDE DEF one, rest
    <3>1. QED BY <1>2, LinesConcat
  <2>5. Ascending(p, one) /\ Ascending(p, rest) /\ Before(p, one, rest)
    <3>1. Ascending(p, todo[p])
      BY <2>2 DEF Order
    <3> HIDE DEF one, rest
    <3>2. QED BY <1>2, <3>1, LinesConcat
  <2>6. /\ Ascending(q, todo'[q])
        /\ Numbers(q, todo'[q]) \subseteq Numbers(q, todo[q]) \union (count[q] + 1 .. count'[q])
        /\ \A r \in Procs \ {q} : Numbers(r, todo'[q]) \subseteq Numbers(r, todo[q])
    <3> HIDE DEF one, rest
    <3>1. CASE q = p
      BY <1>3, <2>4, <2>5, <3>1
    <3>2. CASE q # p
      BY <1>3, <2>2, <3>2 DEF Order
    <3>3. QED BY <3>1, <3>2
  <2>7. \A s \in Slots : fd'[q] = dir[s] =>
            fd[q] = dir[s] \/ \A t \in Slots : t < s => Numbers(q, file[dir[t]]) = {}
    BY <1>3
  <2>8. CASE buf'[q] = buf[q]
    <3>1. /\ Ascending(q, buf'[q]) /\ Numbers(q, buf'[q]) \subseteq Numbers(q, buf[q])
          /\ \A r \in Procs \ {q} : Numbers(r, buf'[q]) \subseteq Numbers(r, buf[q])
      BY <2>2, <2>8 DEF Order
    <3>2. QED BY <1>3, <2>2, <2>3, <2>6, <2>7, <3>1, SameOrder
  <2>9. CASE q = p /\ buf' = [buf EXCEPT ![p] = Append(@, Head(todo[p]))]
    <3>1. buf[p] \in Seq(Line) /\ buf'[p] = buf[p] \o one
      <4>1. buf[p] \in Seq(Line) /\ buf'[p] = Append(buf[p], Head(todo[p]))
        BY <2>9 DEF LinesTyped
      <4>2. \A x \in Seq(Line), l \in Line : Append(x, l) = x \o <<l>>
        OBVIOUS
      <4>3. QED BY <1>2, <4>1, <4>2
    <3> HIDE DEF one, rest
    <3>2. /\ \A r : Numbers(r, buf'[p]) = Numbers(r, buf[p]) \union Numbers(r, one)
          /\ Ascending(p, buf[p]) /\ Ascending(p, one) /\ Before(p, buf[p], one)
                => Ascending(p, buf'[p])
      BY <1>2, <3>1, LinesConcat
    <3>3. /\ Ascending(p, buf[p]) /\ Before(p, buf[p], one) /\ Before(p, buf[p], rest)
      BY <2>2, <2>4 DEF Order, Before
    <3>4. Ascending(p, buf'[p]) /\ Before(p, buf'[p], rest)
      BY <2>5, <3>2, <3>3 DEF Before
    <3>5. /\ Numbers(p, buf'[p]) \subseteq 1 .. count[p] /\ Numbers(p, rest) \subseteq 1 .. count[p]
          /\ \A r \in Procs \ {p} : Numbers(r, buf'[p]) = {} /\ Numbers(r, rest) = {}
      BY <2>2, <2>4, <3>2 DEF Order
    <3>6. ASSUME NEW s \in Slots
          PROVE  Before(p, file[dir[s]], buf'[p]) /\ Before(p, file[dir[s]], rest)
      <4>1. Before(p, file[dir[s]], buf[p]) /\ Before(p, file[dir[s]], todo[p])
        BY <2>2 DEF Order
      <4>2. QED BY <2>4, <3>2, <4>1 DEF Before
    <3>7. Slots' = Slots /\ UNCHANGED <<dir, file, fd, count>>
      BY <1>3, <1>5, SameConfig DEF Slots
    <3>8. \A s \in Slots : /\ Ascending(p, file[dir[s]])
                           /\ \A t \in Slots : t < s => Before(p, file[dir[s]], file[dir[t]])
                           /\ Numbers(p, file[dir[s]]) \subseteq 1 .. count[p]
                           /\ fd[p] = dir[s] =>
                                \A t \in Slots : t < s => Numbers(p, file[dir[t]]) = {}
      BY <2>2 DEF Order
    <3>9. Order(p)'
      BY <1>3, <2>5, <3>4, <3>5, <3>6, <3>7, <3>8 DEF Order
    <3>10. QED BY <2>9, <3>9
  <2>10. QED BY <1>5, <2>8, <2>9 DEF LinesTyped
<1>6. QED BY <1>4, <1>5 DEF Write, WriteThrough

(* The steps that leave the lines where they are, or lose them.            *)
LEMMA LeftAlone ==
    ASSUME Typed, InOrder, config' = config, UNCHANGED <<files, count>>,
           \A q \in Procs : /\ fd'[q] = fd[q] \/ fd'[q] = None
                            /\ buf'[q] = buf[q] \/ buf'[q] = << >>
                            /\ todo'[q] = todo[q] \/ todo'[q] = << >>
    PROVE  InOrder'
<1> USE TypedFacts
<1>1. SUFFICES ASSUME EachLineOnce, NEW q \in Procs PROVE Order(q)'
  BY SameConfig DEF InOrder
<1>2. Order(q)
  BY <1>1 DEF InOrder
<1>3. count'[q] \in Nat /\ count[q] <= count'[q]
  BY DEF LinesTyped
<1>4. \A r \in Procs : Numbers(r, << >>) = {} /\ Ascending(r, << >>)
  BY NumbersNone
<1>5. \A s \in Slots : fd'[q] = dir[s] =>
          fd[q] = dir[s] \/ \A t \in Slots : t < s => Numbers(q, file[dir[t]]) = {}
  BY DEF Slots
<1>6. /\ Ascending(q, buf'[q]) /\ Ascending(q, todo'[q])
      /\ Numbers(q, buf'[q]) \subseteq Numbers(q, buf[q])
      /\ Numbers(q, todo'[q]) \subseteq Numbers(q, todo[q])
  BY <1>2, <1>4 DEF Order
<1>7. \A r \in Procs \ {q} : /\ Numbers(r, buf'[q]) \subseteq Numbers(r, buf[q])
                             /\ Numbers(r, todo'[q]) \subseteq Numbers(r, todo[q])
  BY <1>4
<1>8. QED BY <1>2, <1>3, <1>5, <1>6, <1>7, SameOrder

LEMMA InitOrder ==
    ASSUME Init
    PROVE  InOrder
<1>1. Slots = {} /\ \A p \in Procs : buf[p] = << >> /\ todo[p] = << >>
  BY DEF Init, Slots
<1>2. \A p : Numbers(p, << >>) = {} /\ Ascending(p, << >>)
  BY NumbersNone
<1>3. \A p : Before(p, << >>, << >>)
  BY <1>2 DEF Before
<1>4. QED BY <1>1, <1>2, <1>3 DEF InOrder, Order

LEMMA FlushAllOrder ==
    ASSUME Typed, InOrder, NEW p \in Procs, LogFileFlushAll(p)
    PROVE  InOrder'
<1> USE TypedFacts
<1>1. /\ << >> \in Seq(Line) /\ todo[p] \in Seq(Line) /\ todo[p] = << >> \o todo[p]
  BY DEF LinesTyped
<1>2. /\ fd[p] # None /\ Flush(p, << >>) /\ config' = config /\ UNCHANGED <<dir, count, todo>>
      /\ \A q \in Procs : fd'[q] = fd[q] \/ fd'[q] = None
  BY DEF LogFileFlushAll, FilesTyped, push
<1>3. QED BY <1>1, <1>2, FlushOrder

LEMMA RecheckOrder ==
    ASSUME Typed, InOrder, NEW p \in Procs, Recheck(p)
    PROVE  InOrder'
<1> USE TypedFacts
<1>1. /\ << >> \in Seq(Line) /\ todo[p] \in Seq(Line) /\ todo[p] = << >> \o todo[p]
  BY DEF LinesTyped
<1>2. /\ config' = config /\ UNCHANGED <<dir, count, todo>>
      /\ \A q \in Procs : fd'[q] = fd[q] \/ fd'[q] = None
  BY DEF Recheck, FilesTyped, push
<1>3. CASE fd[p] # None
  BY <1>1, <1>2, <1>3, FlushOrder DEF Recheck
<1>4. CASE fd[p] = None
  BY <1>2, <1>4, LeftAlone DEF Recheck, files
<1>5. QED BY <1>3, <1>4

LEMMA NextOrder ==
    ASSUME Typed, InOrder, [Next]_vars
    PROVE  InOrder'
<1> USE TypedFacts
<1>1. CASE UNCHANGED vars
  BY <1>1, LeftAlone DEF vars, push
<1>2. ASSUME NEW p \in Procs, LogFileCreate(p) \/ Reopen(p)
      PROVE  InOrder'
  BY <1>2, OpenOrder DEF LogFileCreate, Reopen, push
<1>3. ASSUME NEW p \in Procs, LogFileSetValues(p) \/ LogFilesHousekeep(p) \/ Check(p)
      PROVE  InOrder'
  BY <1>3, LeftAlone DEF LogFileSetValues, LogFilesHousekeep, Check, push
<1>4. ASSUME NEW p \in Procs, Crash(p)
      PROVE  InOrder'
  <2>1. \A q \in Procs : /\ fd'[q] = fd[q] \/ fd'[q] = None
                         /\ buf'[q] = buf[q] \/ buf'[q] = << >>
                         /\ todo'[q] = todo[q] \/ todo'[q] = << >>
    BY <1>4 DEF Crash, FilesTyped, LinesTyped
  <2>2. config' = config /\ UNCHANGED <<files, count>>
    BY <1>4 DEF Crash
  <2>3. QED BY <2>1, <2>2, LeftAlone
<1>5. CASE Next
  BY <1>2, <1>3, <1>4, <1>5, FlushAllOrder, RecheckOrder, ShiftOrder, ForkOrder, PushOrder,
     WriteOrder DEF Next, Step
<1>6. QED BY <1>1, <1>5

LEMMA OrderImpliesInOrder ==
    ASSUME InOrder
    PROVE  LinesInOrder
BY DEF InOrder, Order, LinesInOrder
------------------------------------------------------------------------------
(* A file that nobody may write to unseen has room; otherwise it has room  *)
(* for one line of each that may, and whoever writes it may no longer.     *)
LEMMA RoomKept ==
    ASSUME Typed, HasRoom, config' = config, Typed',
           Limited => \A i \in Inodes :
              \/ Size(i)' <= MaxSize
              \/ Size(i)' = Size(i) /\ Pending(i)' \subseteq Pending(i)
              \/ \E p \in Pending(i) : /\ Size(i)' = Size(i) + 1
                                       /\ Pending(i)' \subseteq Pending(i) \ {p}
    PROVE  HasRoom'
<1>1. SUFFICES ASSUME Limited, NEW i \in Inodes
               PROVE  Size(i)' + Cardinality(Pending(i)') <= MaxSize + Cardinality(Procs)
  BY SameConfig DEF HasRoom
<1>2. /\ IsFiniteSet(Procs) /\ Cardinality(Procs) \in Nat /\ MaxSize \in Nat
  BY ConfigFacts, TypedFacts
<1>3. Size(i) \in Nat /\ Size(i)' \in Nat
  <2>1. file'[i] \in Seq(Line')
    BY SameConfig DEF Typed, TypeOK, Line
  <2>2. file[i] \in Seq(Line)
    BY TypedFacts DEF FilesTyped
  <2>3. QED BY <2>1, <2>2 DEF Size
<1> DEFINE P == Pending(i)
           Q == Pending(i)'
<1>4. P \subseteq Procs /\ Q \subseteq Procs
  BY DEF Pending
<1>5. Size(i) + Cardinality(P) <= MaxSize + Cardinality(Procs)
  BY <1>1 DEF HasRoom
<1>6. \/ Size(i)' <= MaxSize
      \/ Size(i)' = Size(i) /\ Q \subseteq P
      \/ \E p \in P : Size(i)' = Size(i) + 1 /\ Q \subseteq P \ {p}
  BY <1>1
<1> HIDE DEF P, Q
<1>7. /\ IsFiniteSet(P) /\ Cardinality(P) \in Nat
      /\ IsFiniteSet(Q) /\ Cardinality(Q) \in Nat /\ Cardinality(Q) <= Cardinality(Procs)
  BY <1>2, <1>4, FS_Subset, FS_CardinalityType
<1>8. CASE Size(i)' <= MaxSize
  BY <1>2, <1>3, <1>7, <1>8 DEF Q
<1>9. CASE Size(i)' = Size(i) /\ Q \subseteq P
  <2>1. Cardinality(Q) <= Cardinality(P)
    BY <1>7, <1>9, FS_Subset
  <2>2. QED BY <1>2, <1>3, <1>5, <1>7, <1>9, <2>1 DEF Q
<1>10. ASSUME NEW p \in P, Size(i)' = Size(i) + 1, Q \subseteq P \ {p}
       PROVE  Size(i)' + Cardinality(Q) <= MaxSize + Cardinality(Procs)
  <2>1. IsFiniteSet(P \ {p}) /\ Cardinality(P \ {p}) = Cardinality(P) - 1
    BY <1>7, FS_RemoveElement
  <2>2. Cardinality(Q) <= Cardinality(P \ {p})
    BY <1>10, <2>1, FS_Subset
  <2>3. QED BY <1>2, <1>3, <1>5, <1>7, <1>10, <2>1, <2>2
<1>11. QED BY <1>6, <1>8, <1>9, <1>10 DEF Q

LEMMA InitRoom ==
    ASSUME Init
    PROVE  HasRoom
<1>1. SUFFICES ASSUME NEW i \in Inodes
               PROVE  Size(i) + Cardinality(Pending(i)) <= MaxSize + Cardinality(Procs)
  BY DEF HasRoom
<1>2. Size(i) = 0 /\ Pending(i) = {}
  BY <1>1 DEF Init, Size, Pending
<1>3. Cardinality(Procs) \in Nat /\ MaxSize \in Nat
  BY ConfigFacts DEF Init
<1>4. QED BY <1>2, <1>3, FS_EmptySet

LEMMA OpenRoom ==
    ASSUME Typed, HasRoom, Typed', NEW p \in Procs, LogFileCreate(p) \/ Reopen(p)
    PROVE  HasRoom'
<1> USE TypedFacts
<1>1. config' = config /\ UNCHANGED todo /\ LogFileOpen(p)
  BY DEF LogFileCreate, Reopen
<1>2. /\ \A q \in Procs \ {p} : pc'[q] = pc[q]
      /\ \/ todo[p] = << >>
         \/ pc[p] = "reopen" /\ pc'[p] = "write"
  <2>1. CASE LogFileCreate(p)
    BY <2>1 DEF LogFileCreate, StepsTyped, Goto, Calls, Still
  <2>2. CASE Reopen(p)
    BY <2>2 DEF Reopen, Rotated, StepsTyped, Goto
  <2>3. QED BY <2>1, <2>2
<1>3. SUFFICES ASSUME NEW i \in Inodes
               PROVE  \/ Size(i)' <= MaxSize
                      \/ Size(i)' = Size(i) /\ Pending(i)' \subseteq Pending(i)
  BY <1>1, RoomKept
<1>4. i # None
  BY DEF Inodes, None
<1>5. CASE UNCHANGED files /\ \/ fd' = [fd EXCEPT ![p] = dir[0]]
                              \/ fd' = [fd EXCEPT ![p] = None]
  <2>1. Size(i)' = Size(i)
    BY <1>5 DEF Size, files
  <2>2. \A q \in Procs \ {p} : fd'[q] = fd[q]
    BY <1>5 DEF FilesTyped
  <2>3. fd'[p] = dir[0] \/ fd'[p] = None
    BY <1>5 DEF FilesTyped
  <2>4. Pending(i)' \subseteq Pending(i)
    BY <1>1, <1>2, <1>4, <1>5, <2>2, <2>3 DEF Pending, files
  <2>5. QED BY <2>1, <2>4
<1>6. CASE /\ NewFile \in Inodes
           /\ fd' = [fd EXCEPT ![p] = NewFile]
           /\ dir' = [dir EXCEPT ![0] = NewFile]
           /\ file' = [file EXCEPT ![NewFile] = << >>]
  <2>1. CASE i = NewFile
    <3>1. file'[i] = << >>
      BY <1>6, <2>1 DEF FilesTyped
    <3>2. QED BY <3>1, ConfigFacts DEF Size
  <2>2. CASE i # NewFile
    <3>1. Size(i)' = Size(i)
      BY <1>6, <2>2 DEF Size, FilesTyped
    <3>2. dir'[0] = NewFile /\ fd'[p] = NewFile /\ \A q \in Procs \ {p} : fd'[q] = fd[q]
      BY <1>6 DEF FilesTyped
    <3>3. Pending(i)' \subseteq Pending(i)
      BY <1>1, <1>2, <2>2, <3>2 DEF Pending
    <3>4. QED BY <3>1, <3>3
  <2>3. QED BY <2>1, <2>2
<1>7. QED BY <1>1, <1>5, <1>6, OpenCases

(* The size that a flush leaves, when nothing waits in the buffers.        *)
LEMMA FlushSize ==
    ASSUME Typed, Has("LOGFILE_FLUSH"), NEW p \in Procs, fd[p] # None,
           NEW more \in Seq(Line), Flush(p, more)
    PROVE  \A i \in Inodes : Size(i)' = IF i = fd[p] THEN Size(i) + Len(more) ELSE Size(i)
<1> USE TypedFacts
<1>1. fd[p] \in Inodes /\ file[fd[p]] \in Seq(Line) /\ buf[p] = << >>
  BY DEF FilesTyped, Calls
<1>2. /\ \A i \in Inodes \ {fd[p]} : file'[i] = file[i]
      /\ file'[fd[p]] = file[fd[p]] \o buf[p] \o more
  BY <1>1 DEF FilesTyped, Flush
<1>3. Len(file'[fd[p]]) = Len(file[fd[p]]) + Len(more)
  <2> DEFINE x == file[fd[p]]
  <2>1. \A y \in Seq(Line) : Len((y \o << >>) \o more) = Len(y) + Len(more)
    OBVIOUS
  <2>2. QED BY <1>1, <1>2, <2>1
<1>4. QED BY <1>2, <1>3 DEF Size

LEMMA CheckRoom ==
    ASSUME Typed, HasRoom, Typed', NEW p \in Procs, Check(p)
    PROVE  HasRoom'
<1> USE TypedFacts
<1>1. config' = config /\ UNCHANGED <<files, fd, todo>> /\ pc[p] = "check"
  BY DEF Check
<1>2. SUFFICES ASSUME Limited, NEW i \in Inodes
               PROVE  \/ Size(i)' <= MaxSize
                      \/ Size(i)' = Size(i) /\ Pending(i)' \subseteq Pending(i)
  BY <1>1, RoomKept
<1>3. Size(i)' = Size(i) /\ i # None
  BY <1>1 DEF Size, files, Inodes, None
<1>4. \A q \in Procs \ {p} : pc'[q] = pc[q]
  BY DEF Check, Rotated, Goto, StepsTyped
<1>5. CASE fd[p] = i /\ Size(i) <= MaxSize
  BY <1>3, <1>5
<1>6. CASE fd[p] = i /\ ~(Size(i) <= MaxSize)
  <2>1. p \in owner
    BY <1>1, <1>2 DEF Calls, Limited
  <2>2. Size(i) \in Nat /\ MaxSize \in Nat
    BY ConfigFacts DEF Size, FilesTyped
  <2>3. Size(i) > MaxSize
    BY <1>6, <2>2
  <2>4. pc'[p] = "recheck"
    BY <1>3, <1>6, <2>1, <2>3 DEF Check, Goto, StepsTyped
  <2>5. Pending(i)' \subseteq Pending(i)
    BY <1>1, <1>4, <2>4 DEF Pending, files
  <2>6. QED BY <1>3, <2>5
<1>7. CASE fd[p] # i
  <2>1. pc'[p] # "reopen"
    BY DEF Check, Rotated, Goto, StepsTyped
  <2>2. Pending(i)' \subseteq Pending(i)
    BY <1>1, <1>4, <1>7, <2>1 DEF Pending, files
  <2>3. QED BY <1>3, <2>2
<1>8. QED BY <1>5, <1>6, <1>7

LEMMA RecheckRoom ==
    ASSUME Typed, HasRoom, Typed', NEW p \in Procs, Recheck(p)
    PROVE  HasRoom'
<1> USE TypedFacts
<1>1. config' = config /\ UNCHANGED <<dir, todo>> /\ pc[p] = "recheck"
      /\ fd' = [fd EXCEPT ![p] = None]
  BY DEF Recheck
<1>2. SUFFICES ASSUME Limited, NEW i \in Inodes
               PROVE  \/ Size(i)' <= MaxSize
                      \/ Size(i)' = Size(i) /\ Pending(i)' \subseteq Pending(i)
  BY <1>1, RoomKept
<1>3. Size(i)' = Size(i)
  <2>1. CASE fd[p] # None
    <3>1. << >> \in Seq(Line) /\ Flush(p, << >>) /\ Has("LOGFILE_FLUSH") /\ Len(<< >>) = 0
      BY <1>2, <2>1 DEF Recheck, Limited
    <3>2. Size(i)' = IF i = fd[p] THEN Size(i) + 0 ELSE Size(i)
      BY <2>1, <3>1, FlushSize
    <3>3. Size(i) \in Nat
      BY DEF Size, FilesTyped
    <3>4. QED BY <3>2, <3>3
  <2>2. CASE fd[p] = None
    BY <2>2 DEF Recheck, Size
  <2>3. QED BY <2>1, <2>2
<1>4. /\ \A q \in Procs \ {p} : pc'[q] = pc[q] /\ fd'[q] = fd[q]
      /\ pc'[p] \in {"shift", "reopen"}
  BY <1>1 DEF Recheck, Goto, StepsTyped, FilesTyped
<1>5. CASE dir[0] = i /\ pc'[p] = "reopen"
  <2>1. seen'[p] = Len(file'[dir[0]])
    BY <1>5 DEF Recheck, SizeAgain, StepsTyped, Inodes, None
  <2>2. ~(seen'[p] > MaxSize)
    BY <1>2, <1>5 DEF Recheck, Goto, StepsTyped, Limited
  <2>3. seen'[p] = Size(i)'
    BY <1>5, <2>1 DEF Size
  <2>4. Size(i) \in Nat /\ MaxSize \in Nat
    BY ConfigFacts DEF Size, FilesTyped
  <2>5. QED BY <1>3, <2>2, <2>3, <2>4
<1>6. CASE ~(dir[0] = i /\ pc'[p] = "reopen")
  <2>1. Pending(i)' \subseteq Pending(i)
    BY <1>1, <1>4, <1>6 DEF Pending
  <2>2. QED BY <1>3, <2>1
<1>7. QED BY <1>5, <1>6

LEMMA ShiftRoom ==
    ASSUME Typed, HasRoom, Typed', NEW p \in Procs, Shift(p)
    PROVE  HasRoom'
<1> USE TypedFacts
<1>1. config' = config /\ UNCHANGED <<file, fd, todo>> /\ pc[p] = "shift"
  BY DEF Shift
<1>2. SUFFICES ASSUME Limited, NEW i \in Inodes
               PROVE  Size(i)' = Size(i) /\ Pending(i)' \subseteq Pending(i)
  BY <1>1, RoomKept
<1>3. Size(i)' = Size(i) /\ i # None /\ MaxRotate > 0
  BY <1>1, <1>2 DEF Size, Inodes, None, Limited
<1>4. /\ \A q \in Procs \ {p} : pc'[q] = pc[q]
      /\ pc'[p] = IF slot[p] = 0 THEN "reopen" ELSE "shift"
  BY <1>1 DEF Shift, Goto, AfterShift, StepsTyped
<1>5. (dir'[0] = dir[0] \/ dir'[0] = None) /\ (slot[p] = 0 => dir'[0] = None)
  <2>1. slot[p] \in 0 .. MaxRotate
    BY ShiftedCases
  <2>2. CASE slot[p] = MaxRotate
             /\ \A s \in 0 .. MaxRotate : dir'[s] = IF s = slot[p] THEN None ELSE dir[s]
    BY <2>1, <2>2
  <2>3. CASE dir[slot[p]] = None /\ dir' = dir
    BY <2>3
  <2>4. CASE /\ slot[p] < MaxRotate
             /\ \A s \in 0 .. MaxRotate :
                    dir'[s] = IF s = slot[p] THEN None
                              ELSE IF s = slot[p] + 1 THEN dir[slot[p]] ELSE dir[s]
    BY <2>1, <2>4
  <2>5. QED BY <2>2, <2>3, <2>4, ShiftedCases
<1>6. Pending(i)' \subseteq Pending(i)
  BY <1>1, <1>3, <1>4, <1>5 DEF Pending
<1>7. QED BY <1>3, <1>6

LEMMA WriteRoom ==
    ASSUME Typed, HasRoom, Typed', NEW p \in Procs, Write(p)
    PROVE  HasRoom'
<1> USE TypedFacts
<1> DEFINE one == <<Head(todo[p])>>
<1>1. /\ config' = config /\ UNCHANGED <<dir, fd>> /\ pc[p] = "write" /\ todo[p] # << >>
      /\ \A q \in Procs \ {p} : todo'[q] = todo[q] /\ pc'[q] = pc[q]
      /\ pc'[p] \in {"idle", "check"}
  BY DEF Write, Calls, LinesTyped, StepsTyped, Goto
<1>2. one \in Seq(Line) /\ Len(one) = 1
  BY <1>1, HeadAndTail DEF LinesTyped
<1> HIDE DEF one
<1>3. SUFFICES ASSUME Limited, NEW i \in Inodes
               PROVE  \/ Size(i)' = Size(i) /\ Pending(i)' \subseteq Pending(i)
                      \/ \E q \in Pending(i) : /\ Size(i)' = Size(i) + 1
                                               /\ Pending(i)' \subseteq Pending(i) \ {q}
  BY <1>1, RoomKept
<1>4. Pending(i)' \subseteq Pending(i) \ {p}
  BY <1>1 DEF Pending
<1>5. CASE fd[p] # None /\ Flush(p, one)
  <2>1. Has("LOGFILE_FLUSH")
    BY <1>3 DEF Limited
  <2>2. Size(i)' = IF i = fd[p] THEN Size(i) + 1 ELSE Size(i)
    BY <1>2, <1>5, <2>1, FlushSize
  <2>3. i = fd[p] => p \in Pending(i)
    BY <1>1 DEF Pending
  <2>4. QED BY <1>4, <2>2, <2>3
<1>6. CASE file' = file
  BY <1>4, <1>6 DEF Size
<1>7. QED BY <1>5, <1>6 DEF Write, WriteThrough, one

LEMMA NextRoom ==
    ASSUME Typed, HasRoom, Typed', [Next]_vars
    PROVE  HasRoom'
<1> USE TypedFacts
<1>1. ASSUME config' = config, \A i \in Inodes : Limited => Size(i)' = Size(i),
             Limited => \A q \in Procs : /\ UNCHANGED <<fd[q], dir, todo[q], pc[q]>>
                                            \/ todo'[q] = << >> \/ pc'[q] \in {"check", "idle"}
                                         /\ dir' = dir
      PROVE  HasRoom'
  <2>1. Limited => \A i \in Inodes : Pending(i)' \subseteq Pending(i)
    BY <1>1 DEF Pending
  <2>2. QED BY <1>1, <2>1, RoomKept
<1>2. CASE UNCHANGED vars
  BY <1>1, <1>2 DEF vars, files, Size
<1>3. ASSUME NEW p \in Procs, LogFileSetValues(p) \/ LogFilesHousekeep(p)
      PROVE  HasRoom'
  BY <1>1, <1>3 DEF LogFileSetValues, LogFilesHousekeep, files, Size, Goto, StepsTyped
<1>4. ASSUME NEW p \in Procs, Crash(p)
      PROVE  HasRoom'
  BY <1>1, <1>4 DEF Crash, files, Size, Goto, StepsTyped, LinesTyped, FilesTyped
<1>5. ASSUME NEW p \in Procs, NEW text \in TextsThatMatter, LogToFile(p, text)
      PROVE  HasRoom'
  <2>1. config' = config /\ UNCHANGED <<fd, files>> /\ pc'[p] \in {"check", "idle"}
        /\ \A q \in Procs \ {p} : todo'[q] = todo[q] /\ pc'[q] = pc[q]
    BY <1>5 DEF LogToFile, Goto, StepsTyped, LinesTyped
  <2>2. QED BY <1>1, <2>1 DEF files, Size
<1>6. ASSUME NEW p \in Procs, NEW c \in Procs, Fork(p, c)
      PROVE  HasRoom'
  <2>1. config' = config /\ ~Limited
    BY <1>6 DEF Fork, Limited
  <2>2. QED BY <2>1, RoomKept
<1>7. ASSUME NEW p \in Procs, LogFileFlushAll(p)
      PROVE  HasRoom'
  <2>1. /\ config' = config /\ UNCHANGED <<dir, todo>> /\ todo[p] = << >>
        /\ \A q \in Procs \ {p} : fd'[q] = fd[q] /\ pc'[q] = pc[q]
    BY <1>7 DEF LogFileFlushAll, Calls, Still, FilesTyped, StepsTyped, Goto
  <2>2. ASSUME Limited, NEW i \in Inodes PROVE Size(i)' = Size(i)
    <3>1. << >> \in Seq(Line) /\ Flush(p, << >>) /\ Has("LOGFILE_FLUSH") /\ Len(<< >>) = 0
          /\ fd[p] # None
      BY <1>7, <2>2 DEF LogFileFlushAll, Limited
    <3>2. Size(i)' = IF i = fd[p] THEN Size(i) + 0 ELSE Size(i)
      BY <3>1, FlushSize
    <3>3. Size(i) \in Nat
      BY DEF Size, FilesTyped
    <3>4. QED BY <3>2, <3>3
  <2>3. QED BY <1>1, <2>1, <2>2
<1>8. CASE Next
  BY <1>3, <1>4, <1>5, <1>6, <1>7, <1>8, OpenRoom, CheckRoom, RecheckRoom, ShiftRoom,
     WriteRoom DEF Next, Step
<1>9. QED BY <1>2, <1>8

LEMMA RoomBounds ==
    ASSUME Typed, HasRoom
    PROVE  OverByOneEach
<1> USE TypedFacts
<1>1. SUFFICES ASSUME Limited, NEW s \in DOMAIN dir, dir[s] # None
               PROVE  Size(dir[s]) <= MaxSize + Cardinality(Procs)
  BY DEF OverByOneEach, Limited
<1>2. dir[s] \in Inodes
  BY <1>1 DEF FilesTyped
<1>3. Size(dir[s]) + Cardinality(Pending(dir[s])) <= MaxSize + Cardinality(Procs)
  BY <1>1, <1>2 DEF HasRoom
<1>4. Cardinality(Pending(dir[s])) \in Nat
  <2>1. Pending(dir[s]) \subseteq Procs
    BY DEF Pending
  <2>2. QED BY <2>1, ConfigFacts, FS_Subset, FS_CardinalityType
<1>5. Size(dir[s]) \in Nat /\ MaxSize \in Nat /\ Cardinality(Procs) \in Nat
  BY <1>2, ConfigFacts DEF Size, FilesTyped
<1>6. QED BY <1>3, <1>4, <1>5
------------------------------------------------------------------------------
(* With one program, and nothing that goes wrong.                          *)
Running == {"idle", "check", "recheck", "write"}

LEMMA FlushGrows ==
    ASSUME Typed, NEW p \in Procs, fd[p] # None, NEW more \in Seq(Line), Flush(p, more)
    PROVE  \A i \in Inodes : Size(i)' >= Size(i)
<1> USE TypedFacts
<1>1. fd[p] \in Inodes /\ file[fd[p]] \in Seq(Line) /\ buf[p] \in Seq(Line)
  BY DEF FilesTyped, LinesTyped
<1>2. /\ \A i \in Inodes \ {fd[p]} : file'[i] = file[i]
      /\ file'[fd[p]] = file[fd[p]] \o buf[p] \o more
  BY <1>1 DEF FilesTyped, Flush
<1>3. Len(file'[fd[p]]) >= Len(file[fd[p]])
  <2>1. \A x, y \in Seq(Line) : Len((x \o y) \o more) >= Len(x)
    OBVIOUS
  <2>2. QED BY <1>1, <1>2, <2>1
<1>4. \A i \in Inodes : Len(file[i]) \in Nat
  BY DEF FilesTyped
<1>5. ASSUME NEW i \in Inodes PROVE Len(file'[i]) >= Len(file[i])
  <2>1. CASE i = fd[p]
    BY <1>3, <2>1
  <2>2. CASE i # fd[p]
    BY <1>2, <1>4, <2>2
  <2>3. QED BY <2>1, <2>2
<1>6. QED BY <1>5 DEF Size

(* The steps that leave the names alone.                                   *)
LEMMA AsideRotation ==
    ASSUME Typed, NEW p \in Procs, Rotation(p), config' = config,
           dir' = dir, \A i \in Inodes : Size(i)' \in Nat /\ Size(i)' >= Size(i),
           fd'[p] = fd[p], slot'[p] = slot[p],
           pc'[p] = pc[p] \/ (pc[p] \in Running /\ pc'[p] \in Running),
           owner' \subseteq {p},
           \A c \in Procs \ {p} : pc'[c] \notin {"recheck", "shift", "dead"},
           pc[p] = "off" => \A c \in Procs : pc'[c] = "off"
    PROVE  Rotation(p)'
<1> USE TypedFacts
<1>1. Slots' = Slots /\ MaxRotate' = MaxRotate
  BY SameConfig DEF Slots
<1>2. \A s \in Slots : dir[s] \in Inodes /\ s \in 0 .. MaxRotate
  BY DEF Slots, FilesTyped
<1>3. Gap(p)' = Gap(p)
  BY <1>1 DEF Gap, Running
<1>4. \A i \in Inodes : Size(i) > MaxSize => Size(i)' > MaxSize
  <2>1. MaxSize \in Nat /\ \A i \in Inodes : Size(i) \in Nat
    BY ConfigFacts DEF Size, FilesTyped
  <2>2. QED BY <2>1
<1>5. \A s \in Slots : s > 0 => Size(dir[s])' > MaxSize
  BY <1>2, <1>4 DEF Rotation, Size
<1>6. pc'[p] = "shift" => /\ dir'[0] # None /\ Size(dir[0])' > MaxSize /\ MaxRotate > 0
                          /\ Gap(p)' \notin Slots'
  <2>1. SUFFICES ASSUME pc'[p] = "shift"
                 PROVE  /\ dir[0] # None /\ Size(dir[0])' > MaxSize /\ MaxRotate > 0
                        /\ Gap(p) \notin Slots
    BY <1>1, <1>3
  <2>2. pc[p] = "shift"
    BY <2>1 DEF Running
  <2>3. dir[0] # None /\ Size(dir[0]) > MaxSize /\ MaxRotate > 0 /\ Gap(p) \notin Slots
    BY <2>2 DEF Rotation
  <2>4. dir[0] \in Inodes
    BY <1>2, <2>3 DEF Slots
  <2>5. QED BY <1>4, <2>3, <2>4 DEF Size
<1>7. (fd'[p] = None \/ fd'[p] = dir'[0])
      /\ (fd'[p] = None <=> pc'[p] \in {"off", "shift", "reopen"})
  BY DEF Rotation, Running
<1>8. \A s \in Slots : \A t \in 0 .. s - 1 : t # Gap(p) => dir[t] # None
  BY DEF Rotation
<1>9. pc'[p] # "dead" /\ (pc'[p] = "off" => Slots = {})
  BY DEF Rotation, Running
<1>10. pc'[p] = "off" => \A c \in Procs : pc'[c] = "off"
  BY DEF Running
<1>11. QED BY <1>1, <1>3, <1>5, <1>6, <1>7, <1>8, <1>9, <1>10 DEF Rotation, Size

LEMMA SizesTyped ==
    ASSUME Typed, Typed', config' = config
    PROVE  \A i \in Inodes : Size(i) \in Nat /\ Size(i)' \in Nat
<1>1. \A i \in Inodes : file'[i] \in Seq(Line')
  BY SameConfig DEF Typed, TypeOK, Line
<1>2. \A i \in Inodes : file[i] \in Seq(Line)
  BY TypedFacts DEF FilesTyped
<1>3. QED BY <1>1, <1>2 DEF Size

LEMMA OpenRotation ==
    ASSUME Typed, Typed', config.mishaps = {}, NEW p \in Procs, Programs = {p}, Rotation(p),
           NEW q \in Procs, LogFileCreate(q) \/ Reopen(q)
    PROVE  Rotation(p)'
<1> USE TypedFacts
<1>1. /\ config' = config /\ UNCHANGED slot /\ LogFileOpen(q)
      /\ Slots' = {s \in 0 .. MaxRotate : dir'[s] # None} /\ MaxRotate' = MaxRotate
  BY SameConfig DEF LogFileCreate, Reopen, Slots
<1>2. ~May("failure")
  BY DEF May
<1>3. \A i \in Inodes : Size(i) \in Nat /\ Size(i)' \in Nat
  BY <1>1, SizesTyped
<1>4. /\ (pc[q] = "off" /\ q = p) \/ pc[q] = "reopen"
      /\ fd'[q] # None => pc'[q] \in Running
      /\ \A r \in Procs \ {q} : pc'[r] = pc[r]
      /\ owner' \subseteq {p}
  <2>1. CASE LogFileCreate(q)
    BY <2>1 DEF LogFileCreate, Goto, StepsTyped, Running, Rotation
  <2>2. CASE Reopen(q)
    BY <2>2 DEF Reopen, Rotated, Goto, StepsTyped, Running, Rotation
  <2>3. QED BY <2>1, <2>2
<1>5. CASE dir[0] \in Inodes /\ fd' = [fd EXCEPT ![q] = dir[0]] /\ UNCHANGED files
  <2>1. /\ dir' = dir /\ file' = file /\ Slots' = Slots /\ 0 \in Slots
        /\ fd'[q] = dir[0] /\ fd'[q] # None /\ \A r \in Procs \ {q} : fd'[r] = fd[r]
    BY <1>1, <1>5 DEF files, FilesTyped, Slots, Inodes, None
  <2>2. \A i \in Inodes : Size(i)' = Size(i)
    BY <2>1 DEF Size
  <2>3. pc[p] # "off" /\ pc'[q] \in Running /\ pc[q] = "reopen"
    BY <1>4, <2>1 DEF Rotation
  <2>4. CASE q # p
    <3>1. \A c \in Procs \ {p} : pc'[c] \notin {"recheck", "shift", "dead"}
      <4>1. pc'[q] \in {"idle", "write"}
        BY <1>4, <2>4 DEF LogFileCreate, Reopen, Rotated, Goto, StepsTyped
      <4>2. QED BY <1>4, <4>1 DEF Rotation
    <3>2. QED BY <1>1, <1>3, <1>4, <2>1, <2>2, <2>3, <2>4, <3>1, AsideRotation
  <2>5. CASE q = p
    <3>1. Gap(p)' = MaxRotate + 1 /\ Gap(p) = 0
      BY <1>1, <2>3, <2>5 DEF Gap, Running
    <3>2. \A s \in Slots : \A t \in 0 .. s - 1 : dir[t] # None
      BY <2>1, <3>1 DEF Rotation, Slots
    <3>3. \A s \in Slots : s > 0 => Size(dir[s])' > MaxSize
      BY <2>1 DEF Rotation, Size
    <3>4. \A c \in Procs \ {p} : pc'[c] \notin {"recheck", "shift", "dead"}
      BY <1>4, <2>5 DEF Rotation
    <3>5. QED BY <1>4, <2>1, <2>3, <2>5, <3>2, <3>3, <3>4 DEF Rotation, Running, Size
  <2>6. QED BY <2>4, <2>5
<1>6. CASE /\ dir[0] = None
           /\ NewFile \in Inodes /\ ~Named(NewFile)
           /\ fd' = [fd EXCEPT ![q] = NewFile]
           /\ dir' = [dir EXCEPT ![0] = NewFile]
           /\ file' = [file EXCEPT ![NewFile] = << >>]
  <2>1. /\ NewFile # None
        /\ \A s \in 0 .. MaxRotate : dir'[s] = IF s = 0 THEN NewFile ELSE dir[s]
        /\ \A r \in Procs : fd'[r] = IF r = q THEN NewFile ELSE fd[r]
    BY <1>6 DEF Inodes, None, FilesTyped
  <2>2. pc'[q] \in Running
    BY <1>4, <2>1
  <2>3. pc[p] \in {"off", "reopen"}
    <3>1. fd[p] = None /\ pc[p] # "shift"
      BY <1>6 DEF Rotation
    <3>2. QED BY <3>1 DEF Rotation
  <2>4. Slots' = Slots \union {0} /\ 0 \notin Slots
    BY <1>1, <1>6, <2>1 DEF Slots
  <2>5. \A s \in Slots : dir'[s] = dir[s] /\ s > 0 /\ file'[dir[s]] = file[dir[s]]
    <3>1. \A s \in Slots : dir'[s] = dir[s] /\ s > 0
      BY <2>1, <2>4 DEF Slots
    <3>2. \A s \in Slots : dir[s] # NewFile /\ dir[s] \in Inodes
      BY <1>6 DEF Slots, FilesTyped, Named
    <3>3. \A i \in Inodes : i # NewFile => file'[i] = file[i]
      BY <1>6 DEF FilesTyped
    <3>4. QED BY <3>1, <3>2, <3>3
  <2>6. \A s \in Slots' : s > 0 => Size(dir[s])' > MaxSize
    BY <2>4, <2>5 DEF Rotation, Size
  <2>7. \A s \in Slots' : \A t \in 0 .. s - 1 : dir'[t] # None
    <3>1. Gap(p) = 0 \/ Slots = {}
      BY <2>3 DEF Gap, Rotation
    <3>2. ASSUME NEW s \in Slots', NEW t \in 0 .. s - 1, t # 0 PROVE dir'[t] # None
      <4>1. s \in Slots /\ t \in 0 .. MaxRotate
        BY <2>4, <3>2 DEF Slots
      <4>2. dir[t] # None
        BY <3>1, <3>2, <4>1 DEF Rotation
      <4>3. QED BY <2>1, <3>2, <4>1, <4>2
    <3>3. QED BY <2>1, <3>2
  <2>8. CASE q = p
    <3>1. \A c \in Procs \ {p} : pc'[c] \notin {"recheck", "shift", "dead"}
      BY <1>4, <2>8 DEF Rotation
    <3>2. pc'[p] \in Running /\ fd'[p] = NewFile /\ dir'[0] = NewFile
      BY <2>1, <2>2, <2>8
    <3>3. QED BY <1>4, <2>1, <2>6, <2>7, <3>1, <3>2 DEF Rotation, Running
  <2>9. CASE q # p
    <3>1. pc[p] = "reopen" /\ pc'[p] = "reopen" /\ fd'[p] = None
      BY <1>4, <2>1, <2>3, <2>9 DEF Rotation
    <3>2. \A c \in Procs \ {p} : pc'[c] \notin {"recheck", "shift", "dead"}
      <4>1. pc'[q] \in {"idle", "write"}
        BY <2>9 DEF LogFileCreate, Reopen, Rotated, Goto, StepsTyped
      <4>2. QED BY <1>4, <4>1 DEF Rotation
    <3>3. QED BY <1>4, <2>6, <2>7, <3>1, <3>2 DEF Rotation
  <2>10. QED BY <2>8, <2>9
<1>7. QED BY <1>1, <1>2, <1>5, <1>6, OpenCases

LEMMA ShiftRotation ==
    ASSUME Typed, Typed', NEW p \in Procs, Rotation(p), Shift(p)
    PROVE  Rotation(p)'
<1> USE TypedFacts
<1>1. /\ config' = config /\ UNCHANGED <<file, fd, owner>> /\ pc[p] = "shift"
      /\ slot'[p] = IF slot[p] = 0 THEN 0 ELSE slot[p] - 1
      /\ pc'[p] = IF slot[p] = 0 THEN "reopen" ELSE "shift"
      /\ \A c \in Procs \ {p} : pc'[c] = pc[c]
      /\ Slots' = {s \in 0 .. MaxRotate : dir'[s] # None} /\ MaxRotate' = MaxRotate
  BY SameConfig DEF Shift, NextSlot, AfterShift, Goto, StepsTyped, Slots
<1>2. /\ dir[0] # None /\ Size(dir[0]) > MaxSize /\ MaxRotate > 0
      /\ Gap(p) = slot[p] + 1 /\ slot[p] + 1 \notin Slots
      /\ slot[p] \in 0 .. MaxRotate /\ fd[p] = None
  BY <1>1, ShiftedCases DEF Rotation, Gap
<1>3. /\ \A s \in Slots : s > 0 => Size(dir[s]) > MaxSize
      /\ \A s \in Slots : \A t \in 0 .. s - 1 : t # slot[p] + 1 => dir[t] # None
  BY <1>2 DEF Rotation
<1>4. Gap(p)' = slot[p]
  <2>1. CASE slot[p] = 0
    BY <1>1, <2>1 DEF Gap
  <2>2. CASE slot[p] # 0
    <3>1. pc'[p] = "shift" /\ slot'[p] = slot[p] - 1
      BY <1>1, <2>2
    <3>2. QED BY <1>2, <3>1 DEF Gap
  <2>3. QED BY <2>1, <2>2
<1>5. \A i : Size(i)' = Size(i)
  BY <1>1 DEF Size
<1>6. /\ dir'[slot[p]] = None
      /\ \A s \in 0 .. MaxRotate : s # slot[p] /\ s # slot[p] + 1 => dir'[s] = dir[s]
      /\ slot[p] < MaxRotate => dir'[slot[p] + 1] = dir[slot[p]]
  <2>1. CASE /\ slot[p] = MaxRotate
             /\ \A s \in 0 .. MaxRotate : dir'[s] = IF s = slot[p] THEN None ELSE dir[s]
    BY <1>2, <2>1
  <2>2. CASE slot[p] < MaxRotate /\ dir[slot[p]] = None /\ dir' = dir
    <3>1. dir[slot[p] + 1] = None
      BY <1>2, <2>2 DEF Slots
    <3>2. QED BY <2>2, <3>1
  <2>3. CASE /\ slot[p] < MaxRotate
             /\ \A s \in 0 .. MaxRotate :
                    dir'[s] = IF s = slot[p] THEN None
                              ELSE IF s = slot[p] + 1 THEN dir[slot[p]] ELSE dir[s]
    BY <1>2, <2>3
  <2>4. QED BY <2>1, <2>2, <2>3, ShiftedCases
<1>7. \A s \in Slots' : s > 0 => Size(dir'[s]) > MaxSize
  <2>1. ASSUME NEW s \in Slots', s > 0 PROVE Size(dir'[s]) > MaxSize
    <3>1. CASE s = slot[p] + 1
      <4>1. dir'[s] = dir[slot[p]] /\ slot[p] \in Slots
        BY <1>1, <1>2, <1>6, <2>1, <3>1 DEF Slots
      <4>2. QED BY <1>2, <1>3, <4>1
    <3>2. CASE s # slot[p] + 1
      <4>1. dir'[s] = dir[s] /\ s \in Slots
        BY <1>1, <1>6, <2>1, <3>2 DEF Slots
      <4>2. QED BY <1>3, <2>1, <4>1
    <3>3. QED BY <3>1, <3>2
  <2>2. QED BY <2>1
<1>8. \A s \in Slots' : \A t \in 0 .. s - 1 : t # slot[p] => dir'[t] # None
  <2>1. ASSUME NEW s \in Slots', NEW t \in 0 .. s - 1, t # slot[p], dir'[t] = None
        PROVE  FALSE
    <3>1. s \in 0 .. MaxRotate /\ dir'[s] # None /\ s # slot[p] /\ t \in 0 .. MaxRotate
          /\ slot[p] \in Nat /\ s \in Nat /\ t \in Nat /\ t < s
      BY <1>1, <1>2, <1>6, <2>1
    <3>2. CASE s = slot[p] + 1
      <4>1. dir[slot[p]] # None /\ t < slot[p] /\ dir'[t] = dir[t]
        BY <1>2, <1>6, <2>1, <3>1, <3>2
      <4>2. slot[p] \in Slots /\ t \in 0 .. slot[p] - 1 /\ t # slot[p] + 1
        BY <1>2, <3>1, <4>1 DEF Slots
      <4>3. QED BY <1>3, <2>1, <4>1, <4>2
    <3>3. CASE s # slot[p] + 1 /\ t # slot[p] + 1
      <4>1. dir'[s] = dir[s] /\ dir'[t] = dir[t] /\ s \in Slots
        BY <1>6, <2>1, <3>1, <3>3 DEF Slots
      <4>2. QED BY <1>3, <2>1, <3>3, <4>1
    <3>4. CASE s # slot[p] + 1 /\ t = slot[p] + 1
      <4>1. dir'[s] = dir[s] /\ s \in Slots /\ slot[p] < MaxRotate
        BY <1>6, <3>1, <3>4 DEF Slots
      <4>2. dir[slot[p]] = None
        BY <1>6, <2>1, <3>4, <4>1
      <4>3. slot[p] \in 0 .. s - 1 /\ slot[p] # slot[p] + 1
        BY <3>1, <3>4
      <4>4. QED BY <1>3, <4>1, <4>2, <4>3
    <3>5. QED BY <3>2, <3>3, <3>4
  <2>2. QED BY <2>1
<1>9. slot[p] # 0 => dir'[0] = dir[0]
  BY <1>2, <1>6
<1>10. Rotation(p)'
  <2>1. owner' \subseteq {p} /\ pc'[p] # "dead" /\ pc'[p] # "off"
    BY <1>1 DEF Rotation
  <2>2. \A c \in Procs \ {p} : pc'[c] \notin {"recheck", "shift", "dead"}
    BY <1>1 DEF Rotation
  <2>3. fd'[p] = None /\ pc'[p] \in {"shift", "reopen"}
    BY <1>1, <1>2
  <2>4. pc'[p] = "shift" => /\ dir'[0] # None /\ Size(dir[0])' > MaxSize /\ MaxRotate > 0
                            /\ Gap(p)' \notin Slots'
    <3>1. Gap(p)' \notin Slots'
      BY <1>1, <1>4, <1>6
    <3>2. pc'[p] = "shift" => dir'[0] = dir[0]
      BY <1>1, <1>9
    <3>3. QED BY <1>1, <1>2, <3>1, <3>2 DEF Size
  <2>5. \A s \in Slots' : s > 0 => Size(dir[s])' > MaxSize
    BY <1>1, <1>7 DEF Size
  <2>6. \A s \in Slots' : \A t \in 0 .. s - 1 : t # Gap(p)' => dir'[t] # None
    BY <1>4, <1>8
  <2>7. QED BY <1>1, <2>1, <2>2, <2>3, <2>4, <2>5, <2>6 DEF Rotation
<1>11. QED BY <1>10

LEMMA RecheckRotation ==
    ASSUME Typed, Typed', NEW p \in Procs, Rotation(p), Recheck(p)
    PROVE  Rotation(p)'
<1> USE TypedFacts
<1>1. /\ config' = config /\ UNCHANGED <<dir, owner>> /\ pc[p] = "recheck"
      /\ fd'[p] = None /\ slot'[p] = MaxRotate
      /\ \A c \in Procs \ {p} : pc'[c] = pc[c]
      /\ Slots' = Slots /\ MaxRotate' = MaxRotate
  BY SameConfig DEF Recheck, Goto, StepsTyped, FilesTyped, Slots
<1>2. fd[p] # None /\ dir[0] = fd[p] /\ dir[0] \in Inodes
  BY <1>1 DEF Rotation, FilesTyped
<1>3. /\ \A i \in Inodes : Size(i) \in Nat /\ Size(i)' \in Nat
      /\ MaxSize \in Nat
  BY <1>1, SizesTyped, ConfigFacts
<1>4. \A i \in Inodes : Size(i)' >= Size(i)
  <2>1. << >> \in Seq(Line) /\ Flush(p, << >>)
    BY <1>2 DEF Recheck
  <2>2. QED BY <1>2, <2>1, FlushGrows
<1>5. /\ seen'[p] = Len(file'[dir[0]])
      /\ pc'[p] = IF seen'[p] > MaxSize /\ MaxRotate > 0 THEN "shift" ELSE "reopen"
  BY <1>2 DEF Recheck, SizeAgain, Goto, StepsTyped
<1>6. Gap(p) = MaxRotate + 1 /\ Gap(p)' \in {0, MaxRotate + 1}
  BY <1>1, <1>5 DEF Gap
<1>7. \A s \in Slots : s \in 0 .. MaxRotate /\ dir[s] \in Inodes
  BY DEF Slots, FilesTyped
<1>8. \A s \in Slots : \A t \in 0 .. s - 1 : dir[t] # None
  <2>1. \A s \in Slots : \A t \in 0 .. s - 1 : t # MaxRotate + 1
    BY <1>7
  <2>2. QED BY <1>6, <2>1 DEF Rotation
<1>9. \A s \in Slots : s > 0 => Len(file'[dir[s]]) > MaxSize
  BY <1>3, <1>4, <1>7 DEF Rotation, Size
<1>10. pc'[p] = "shift" => Gap(p)' \notin Slots
  <2>1. pc'[p] = "shift" => Gap(p)' = MaxRotate + 1
    BY <1>1 DEF Gap
  <2>2. MaxRotate + 1 \notin Slots
    BY <1>7
  <2>3. QED BY <2>1, <2>2
<1>11. \A c \in Procs \ {p} : pc'[c] \notin {"recheck", "shift", "dead"}
  BY <1>1 DEF Rotation
<1>12. owner' \subseteq {p} /\ pc'[p] \in {"shift", "reopen"}
  BY <1>1, <1>5 DEF Rotation
<1>13. pc'[p] = "shift" => dir[0] # None /\ Len(file'[dir[0]]) > MaxSize /\ MaxRotate > 0
  BY <1>2, <1>5 DEF Inodes, None
<1>14. QED BY <1>1, <1>8, <1>9, <1>10, <1>11, <1>12, <1>13 DEF Rotation, Size

LEMMA FlushAllRotation ==
    ASSUME Typed, Typed', NEW p \in Procs, Rotation(p), NEW q \in Procs, LogFileFlushAll(q)
    PROVE  Rotation(p)'
<1> USE TypedFacts
<1>1. /\ config' = config /\ UNCHANGED <<dir, owner, slot>> /\ pc[q] = "idle" /\ fd[q] # None
      /\ \A c \in Procs \ {q} : pc'[c] = pc[c] /\ fd'[c] = fd[c]
      /\ \/ pc'[q] = pc[q] /\ fd'[q] = fd[q]
         \/ pc'[q] = "reopen" /\ fd'[q] = None
  BY DEF LogFileFlushAll, Goto, StepsTyped, FilesTyped
<1>2. /\ \A i \in Inodes : Size(i) \in Nat /\ Size(i)' \in Nat
      /\ MaxSize \in Nat
  BY <1>1, SizesTyped, ConfigFacts
<1>3. \A i \in Inodes : Size(i)' >= Size(i)
  <2>1. << >> \in Seq(Line) /\ Flush(q, << >>)
    BY DEF LogFileFlushAll
  <2>2. QED BY <1>1, <2>1, FlushGrows
<1>4. pc[p] # "off"
  BY <1>1 DEF Rotation
<1>5. owner' \subseteq {p} /\ \A c \in Procs \ {p} : pc'[c] \notin {"recheck", "shift", "dead"}
  BY <1>1 DEF Rotation
<1>6. CASE pc'[p] = pc[p] /\ fd'[p] = fd[p]
  BY <1>1, <1>2, <1>3, <1>4, <1>5, <1>6, AsideRotation
<1>7. CASE q = p /\ pc'[p] = "reopen" /\ fd'[p] = None
  <2>1. Slots' = Slots /\ MaxRotate' = MaxRotate
    BY <1>1, SameConfig DEF Slots
  <2>2. \A s \in Slots : s \in 0 .. MaxRotate /\ dir[s] \in Inodes
    BY DEF Slots, FilesTyped
  <2>3. Gap(p) = MaxRotate + 1
    BY <1>1, <1>7 DEF Gap
  <2>4. \A s \in Slots : \A t \in 0 .. s - 1 : dir[t] # None
    <3>1. \A s \in Slots : \A t \in 0 .. s - 1 : t # MaxRotate + 1
      BY <2>2
    <3>2. QED BY <2>3, <3>1 DEF Rotation
  <2>5. \A s \in Slots : s > 0 => Len(file'[dir[s]]) > MaxSize
    BY <1>2, <1>3, <2>2 DEF Rotation, Size
  <2>6. QED BY <1>1, <1>5, <1>7, <2>1, <2>4, <2>5 DEF Rotation, Size
<1>8. QED BY <1>1, <1>6, <1>7

LEMMA OtherRotation ==
    ASSUME Typed, Typed', config.mishaps = {}, NEW p \in Procs, Rotation(p), NEW q \in Procs,
           \/ LogFileSetValues(q) \/ LogFilesHousekeep(q) \/ Check(q) \/ Write(q) \/ Crash(q)
           \/ \E c \in Procs : p \notin Children /\ Fork(q, c)
           \/ \E text \in TextsThatMatter : LogToFile(q, text)
    PROVE  Rotation(p)'
<1> USE TypedFacts
<1>1. ~LogFileSetValues(q) /\ ~Crash(q)
  BY DEF May, LogFileSetValues, Crash
<1>2. /\ config' = config /\ UNCHANGED <<dir, owner, slot>>
      /\ pc[q] \in Running
      /\ \A c \in Procs : \/ pc'[c] = pc[c]
                          \/ c = q /\ pc'[c] \in Running /\ (pc'[c] = "recheck" => q \in owner)
                          \/ pc[c] = "off" /\ c # p /\ pc'[c] = "idle"
      /\ fd'[p] = fd[p]
  <2>1. CASE LogFilesHousekeep(q)
    BY <2>1 DEF LogFilesHousekeep, Goto, StepsTyped, Running, FilesTyped, files
  <2>2. CASE Check(q)
    <3>1. \/ pc' = [pc EXCEPT ![q] = IF todo[q] = << >> THEN "idle" ELSE "write"]
          \/ q \in owner /\ pc' = [pc EXCEPT ![q] = "recheck"]
      BY <2>2 DEF Check, Rotated, Goto
    <3>2. config' = config /\ UNCHANGED <<dir, owner, slot, fd>> /\ pc[q] = "check"
      BY <2>2 DEF Check, files
    <3>3. QED BY <3>1, <3>2 DEF StepsTyped, Running
  <2>3. CASE Write(q)
    BY <2>3 DEF Write, Goto, StepsTyped, Running, FilesTyped
  <2>4. CASE \E c \in Procs : p \notin Children /\ Fork(q, c)
    BY <2>4 DEF Fork, Goto, StepsTyped, Running, FilesTyped, files
  <2>5. CASE \E text \in TextsThatMatter : LogToFile(q, text)
    BY <2>5 DEF LogToFile, Goto, StepsTyped, Running, FilesTyped, files
  <2>6. QED BY <1>1, <2>1, <2>2, <2>3, <2>4, <2>5
<1>3. \A i \in Inodes : Size(i) \in Nat /\ Size(i)' \in Nat
  BY <1>2, SizesTyped
<1>4. \A i \in Inodes : Size(i)' >= Size(i)
  <2>1. CASE file' = file
    BY <1>3, <2>1 DEF Size
  <2>2. CASE Write(q)
    <3>1. todo[q] \in Seq(Line) /\ todo[q] # << >>
      BY <2>2 DEF Write, Calls, LinesTyped
    <3>2. <<Head(todo[q])>> \in Seq(Line)
      BY <3>1, HeadAndTail
    <3>3. CASE fd[q] # None /\ Flush(q, <<Head(todo[q])>>)
      BY <3>2, <3>3, FlushGrows
    <3>4. QED BY <2>1, <2>2, <3>3 DEF Write, WriteThrough
  <2>3. QED BY <1>1, <2>1, <2>2 DEF LogFilesHousekeep, Check, Fork, LogToFile, files
<1>5. pc[p] # "off"
  BY <1>2 DEF Rotation, Running
<1>6. owner' \subseteq {p} /\ \A c \in Procs \ {p} : pc'[c] \notin {"recheck", "shift", "dead"}
  BY <1>2 DEF Rotation, Running
<1>7. pc'[p] = pc[p] \/ (pc[p] \in Running /\ pc'[p] \in Running)
  BY <1>2
<1>8. QED BY <1>2, <1>3, <1>4, <1>5, <1>6, <1>7, AsideRotation

LEMMA InitAlone ==
    ASSUME Init
    PROVE  Alone
BY DEF Init, Alone, Rotation, Slots

LEMMA NextAlone ==
    ASSUME Typed, Typed', Alone, [Next]_vars
    PROVE  Alone'
<1> USE TypedFacts
<1>1. config' = config
  BY DEF vars, Next, Step, Check, Recheck, Shift, Reopen, Write, Crash, LogFileCreate,
         LogFileSetValues, Fork, LogToFile, LogFilesHousekeep, LogFileFlushAll
<1>2. SUFFICES ASSUME config.mishaps = {}, NEW p \in Procs, Programs = {p}
               PROVE  Rotation(p)'
  BY <1>1, SameConfig DEF Alone
<1>3. Rotation(p) /\ p \notin Children
  BY <1>2 DEF Alone
<1>4. CASE UNCHANGED vars
  <2>1. UNCHANGED <<dir, file, fd, pc, slot, owner>>
    BY <1>4 DEF vars, files
  <2>2. \A i \in Inodes : Size(i)' = Size(i) /\ Size(i) \in Nat
    BY <2>1, <1>1, SizesTyped DEF Size
  <2>3. \A i \in Inodes : Size(i)' \in Nat /\ Size(i)' >= Size(i)
    BY <2>2
  <2>4. QED BY <1>1, <1>3, <2>1, <2>3, AsideRotation DEF Rotation
<1>5. ASSUME NEW q \in Procs, Recheck(q) \/ Shift(q)
      PROVE  Rotation(p)'
  <2>1. q = p
    BY <1>3, <1>5 DEF Rotation, Recheck, Shift
  <2>2. QED BY <1>3, <1>5, <2>1, RecheckRotation, ShiftRotation
<1>6. ASSUME NEW q \in Procs, LogFileCreate(q) \/ Reopen(q)
      PROVE  Rotation(p)'
  BY <1>2, <1>3, <1>6, OpenRotation
<1>7. ASSUME NEW q \in Procs, LogFileFlushAll(q)
      PROVE  Rotation(p)'
  BY <1>3, <1>7, FlushAllRotation
<1>8. CASE Next
  <2>1. PICK q \in Procs :
            \/ Step(q) \/ Crash(q)
            \/ LogFileCreate(q) \/ LogFileSetValues(q)
            \/ \E c \in Procs : Fork(q, c)
            \/ \E text \in TextsThatMatter : LogToFile(q, text)
            \/ LogFilesHousekeep(q) \/ LogFileFlushAll(q)
    BY <1>8 DEF Next
  <2>2. CASE \/ LogFileSetValues(q) \/ LogFilesHousekeep(q) \/ Check(q) \/ Write(q) \/ Crash(q)
             \/ \E c \in Procs : p \notin Children /\ Fork(q, c)
             \/ \E text \in TextsThatMatter : LogToFile(q, text)
    BY <1>2, <1>3, <2>2, OtherRotation
  <2>3. QED BY <1>3, <1>5, <1>6, <1>7, <2>1, <2>2 DEF Step
<1>9. QED BY <1>4, <1>8
------------------------------------------------------------------------------
(* The lines that are left of the program's.                               *)
LEMMA SameLeft ==
    ASSUME Typed, NEW p \in Procs, config' = config, UNCHANGED files,
           buf'[p] = buf[p], todo'[p] = todo[p]
    PROVE  Left(p)' = Left(p)
<1>1. Slots' = Slots
  BY SameConfig DEF Slots, files
<1>2. QED BY <1>1 DEF Left, files

(* What is flushed was left already, when the file it goes to has a name.  *)
LEMMA FlushLeft ==
    ASSUME Typed, NEW p \in Procs, Order(p), NEW q \in Procs, Order(q), fd[q] # None,
           q = p => fd[q] = dir[0],
           NEW more \in Seq(Line), NEW rest \in Seq(Line), todo[q] = more \o rest,
           Flush(q, more), config' = config, dir' = dir,
           todo'[q] = rest, q # p => todo'[p] = todo[p]
    PROVE  Left(p)' = Left(p)
<1> USE TypedFacts
<1> DEFINE i == fd[q]
           F(s) == Numbers(p, file[dir[s]])
           G(s) == Numbers(p, file'[dir[s]])
<1>1. /\ \A j \in Inodes \ {i} : file'[j] = file[j]
      /\ i \in Inodes
      /\ Numbers(p, file'[i]) = Numbers(p, file[i]) \union Numbers(p, buf[q])
                                    \union Numbers(p, more)
      /\ buf'[q] = << >> /\ \A r \in Procs \ {q} : buf'[r] = buf[r]
  BY FlushNumbers
<1>2. Numbers(p, todo[q]) = Numbers(p, more) \union Numbers(p, rest)
  BY LinesConcat
<1>3. Slots' = Slots /\ \A s \in Slots : dir[s] \in Inodes
  BY SameConfig DEF Slots, FilesTyped
<1>4. Left(p) = (UNION {F(s) : s \in Slots}) \union Numbers(p, buf[p]) \union Numbers(p, todo[p])
  BY DEF Left
<1>5. Left(p)' = (UNION {G(s) : s \in Slots}) \union Numbers(p, buf'[p])
                    \union Numbers(p, todo'[p])
  BY <1>3 DEF Left
<1>6. Numbers(p, << >>) = {}
  BY NumbersNone
<1>7. CASE q = p
  <2>1. 0 \in Slots /\ dir[0] = i
    BY <1>7 DEF Slots
  <2>2. \A s \in Slots : G(s) = IF dir[s] = i
                                THEN F(s) \union Numbers(p, buf[p]) \union Numbers(p, more)
                                ELSE F(s)
    BY <1>1, <1>3, <1>7
  <2>3. F(0) \union Numbers(p, buf[p]) \union Numbers(p, more) = G(0)
    BY <2>1, <2>2
  <2>4. Numbers(p, buf'[p]) = {} /\ Numbers(p, todo'[p]) = Numbers(p, rest)
        /\ Numbers(p, todo[p]) = Numbers(p, more) \union Numbers(p, rest)
    BY <1>1, <1>2, <1>6, <1>7
  <2> DEFINE B == Numbers(p, buf[p])
             M == Numbers(p, more)
             R == Numbers(p, rest)
  <2>5. /\ \A s \in Slots : F(s) \subseteq G(s) /\ G(s) \subseteq F(s) \union B \union M
        /\ B \subseteq G(0) /\ M \subseteq G(0)
    BY <2>2, <2>3
  <2>6. Left(p) = (UNION {F(s) : s \in Slots}) \union B \union (M \union R)
    BY <1>4, <2>4
  <2>7. Left(p)' = (UNION {G(s) : s \in Slots}) \union {} \union R
    BY <1>5, <2>4
  <2> HIDE DEF F, G, B, M, R
  <2>8. (UNION {G(s) : s \in Slots}) = (UNION {F(s) : s \in Slots}) \union B \union M
    BY <2>1, <2>5
  <2>9. QED BY <2>6, <2>7, <2>8
<1>8. CASE q # p
  <2>1. Numbers(p, buf[q]) = {} /\ Numbers(p, todo[q]) = {}
    BY <1>8 DEF Order
  <2>2. Numbers(p, file'[i]) = Numbers(p, file[i])
    BY <1>1, <1>2, <2>1
  <2>3. \A s \in Slots : G(s) = F(s)
    BY <1>1, <1>3, <2>2
  <2>4. buf'[p] = buf[p] /\ todo'[p] = todo[p]
    BY <1>1, <1>8
  <2>5. (UNION {G(s) : s \in Slots}) = (UNION {F(s) : s \in Slots})
    <3> HIDE DEF F, G
    <3>1. QED BY <2>3
  <2>6. QED BY <1>4, <1>5, <2>4, <2>5
<1>9. QED BY <1>7, <1>8

LEMMA OpenLeft ==
    ASSUME Typed, NEW p \in Procs, NEW q \in Procs, LogFileOpen(q), config' = config,
           UNCHANGED <<buf, todo>>
    PROVE  Left(p)' = Left(p)
<1> USE TypedFacts
<1>1. CASE UNCHANGED files
  BY <1>1, SameLeft
<1>2. CASE /\ dir[0] = None
           /\ NewFile \in Inodes /\ ~Named(NewFile)
           /\ dir' = [dir EXCEPT ![0] = NewFile]
           /\ file' = [file EXCEPT ![NewFile] = << >>]
  <2>1. NewFile # None
    BY <1>2 DEF Inodes, None
  <2>2. Slots' = Slots \union {0} /\ dir'[0] = NewFile /\ file'[dir'[0]] = << >>
        /\ 0 \notin Slots
    BY <1>2, <2>1, SameConfig DEF Slots, FilesTyped
  <2>3. \A s \in Slots : file'[dir'[s]] = file[dir[s]]
    <3>1. \A s \in Slots : dir'[s] = dir[s]
      BY <1>2 DEF Slots, FilesTyped
    <3>2. \A s \in Slots : dir[s] # NewFile /\ dir[s] \in Inodes
      BY <1>2 DEF Slots, FilesTyped, Named
    <3>3. \A i \in Inodes : i # NewFile => file'[i] = file[i]
      BY <1>2 DEF FilesTyped
    <3>4. QED BY <3>1, <3>2, <3>3
  <2> DEFINE F(s) == Numbers(p, file[dir[s]])
             G(s) == Numbers(p, file'[dir'[s]])
  <2>4. G(0) = {} /\ \A s \in Slots : G(s) = F(s)
    BY <2>2, <2>3, NumbersNone
  <2>5. Left(p) = (UNION {F(s) : s \in Slots}) \union Numbers(p, buf[p])
                      \union Numbers(p, todo[p])
    BY DEF Left
  <2>6. Left(p)' = (UNION {G(s) : s \in Slots \union {0}}) \union Numbers(p, buf[p])
                      \union Numbers(p, todo[p])
    BY <2>2 DEF Left
  <2> HIDE DEF F, G
  <2>7. (UNION {G(s) : s \in Slots \union {0}}) = (UNION {F(s) : s \in Slots})
    BY <2>4
  <2>8. QED BY <2>5, <2>6, <2>7
<1>3. QED BY <1>1, <1>2, OpenCases

(* A line that is left is later than those of a file that is dropped.      *)
LEMMA ShiftGaps ==
    ASSUME Typed, NEW p \in Procs, Order(p), Rotation(p), Shift(p),
           \A m \in Left(p) : m .. count[p] \subseteq Left(p)
    PROVE  \A m \in Left(p)' : m .. count'[p] \subseteq Left(p)'
<1> USE TypedFacts
<1>1. /\ config' = config /\ UNCHANGED <<file, buf, todo, count>> /\ pc[p] = "shift"
      /\ Slots' = {s \in 0 .. MaxRotate : dir'[s] # None}
      /\ slot[p] \in 0 .. MaxRotate /\ slot[p] + 1 \notin Slots
  BY SameConfig, ShiftedCases DEF Shift, push, Slots, Rotation, Gap
<1> DEFINE F(s) == Numbers(p, file[dir[s]])
           G(s) == Numbers(p, file[dir'[s]])
           B == Numbers(p, buf[p])
           T == Numbers(p, todo[p])
<1>2. Left(p) = (UNION {F(s) : s \in Slots}) \union B \union T
  BY DEF Left
<1>3. Left(p)' = (UNION {G(s) : s \in Slots'}) \union B \union T
  BY <1>1 DEF Left
<1>4. CASE /\ slot[p] = MaxRotate
           /\ \A s \in 0 .. MaxRotate : dir'[s] = IF s = slot[p] THEN None ELSE dir[s]
  <2>1. Slots' = Slots \ {MaxRotate} /\ \A s \in Slots' : G(s) = F(s)
    BY <1>1, <1>4 DEF Slots
  <2>2. \A s \in Slots' : s \in Slots /\ s < MaxRotate
    BY <2>1 DEF Slots
  <2>3. MaxRotate \in Slots =>
            \A n \in F(MaxRotate) : /\ \A s \in Slots' : \A m \in F(s) : n < m
                                    /\ \A m \in B \union T : n < m
    BY <2>2 DEF Order, Before
  <2>4. (MaxRotate \in Slots => F(MaxRotate) \subseteq Nat) /\ count[p] \in Nat
        /\ B \subseteq Nat /\ T \subseteq Nat /\ \A s \in Slots : F(s) \subseteq Nat
    <3>1. count[p] \in Nat
      BY DEF LinesTyped
    <3>2. 1 .. count[p] \subseteq Nat
      BY <3>1
    <3>3. \A s \in Slots : F(s) \subseteq 1 .. count[p]
      BY DEF Order
    <3>4. B \subseteq 1 .. count[p] /\ T \subseteq 1 .. count[p]
      BY DEF Order
    <3> HIDE DEF F, B, T
    <3>5. QED BY <3>1, <3>2, <3>3, <3>4
  <2> HIDE DEF F, G, B, T
  <2>5. ASSUME NEW m \in Left(p)', NEW n \in m .. count[p] PROVE n \in Left(p)'
    <3>1. m \in Left(p) /\ m \in Nat
      BY <1>2, <1>3, <2>1, <2>2, <2>4, <2>5
    <3>2. n \in Left(p)
      BY <2>5, <3>1
    <3>3. n >= m /\ n \in Nat
      BY <2>4, <2>5, <3>1
    <3>4. CASE MaxRotate \in Slots /\ n \in F(MaxRotate)
      <4>1. m \in B \union T \/ \E s \in Slots' : m \in G(s)
        BY <1>3, <2>5
      <4>2. n < m
        BY <2>1, <2>3, <3>4, <4>1
      <4>3. QED BY <3>1, <3>3, <4>2
    <3>5. CASE ~(MaxRotate \in Slots /\ n \in F(MaxRotate))
      BY <1>2, <1>3, <2>1, <3>2, <3>5
    <3>6. QED BY <3>4, <3>5
  <2>6. QED BY <1>1, <2>5
<1>5. CASE dir' = dir
  <2>1. Slots' = Slots
    BY <1>1, <1>5 DEF Slots
  <2>2. Left(p)' = Left(p)
    BY <1>1, <1>5, <2>1 DEF Left
  <2>3. QED BY <1>1, <2>2
<1>6. CASE /\ slot[p] < MaxRotate /\ dir[slot[p]] \in Inodes
           /\ \A s \in 0 .. MaxRotate :
                  dir'[s] = IF s = slot[p] THEN None
                            ELSE IF s = slot[p] + 1 THEN dir[slot[p]] ELSE dir[s]
  <2>1. /\ slot[p] \in Slots /\ slot[p] + 1 \in Slots'
        /\ G(slot[p] + 1) = F(slot[p])
    BY <1>1, <1>6 DEF Slots, Inodes, None
  <2>2. \A s \in Slots : s # slot[p] => s \in Slots' /\ G(s) = F(s)
    BY <1>1, <1>6 DEF Slots
  <2>3. \A s \in Slots' : s # slot[p] + 1 => s \in Slots /\ G(s) = F(s)
    BY <1>1, <1>6 DEF Slots
  <2> HIDE DEF F, G
  <2>4. (UNION {G(s) : s \in Slots'}) = (UNION {F(s) : s \in Slots})
    <3>1. ASSUME NEW n \in (UNION {G(s) : s \in Slots'}) PROVE n \in (UNION {F(s) : s \in Slots})
      BY <2>1, <2>3
    <3>2. ASSUME NEW n \in (UNION {F(s) : s \in Slots}) PROVE n \in (UNION {G(s) : s \in Slots'})
      BY <2>1, <2>2
    <3>3. QED BY <3>1, <3>2
  <2>5. Left(p)' = Left(p)
    BY <1>2, <1>3, <2>4
  <2>6. QED BY <1>1, <2>5
<1>7. QED BY <1>4, <1>5, <1>6, ShiftedCases

LEMMA PushGaps ==
    ASSUME Typed, NEW p \in Procs, NEW q \in Procs, NEW text \in TextsThatMatter,
           LogToFile(q, text), Order(p),
           \A m \in Left(p) : m .. count[p] \subseteq Left(p)
    PROVE  \A m \in Left(p)' : m .. count'[p] \subseteq Left(p)'
<1> USE TypedFacts
<1>1. config' = config /\ UNCHANGED <<files, buf>> /\ pc[q] = "idle" /\ todo[q] = << >>
  BY DEF LogToFile, Calls, Still
<1> DEFINE n == Written(q, text)
           new == todo'[q]
<1>2. /\ n \in 0 .. 2 /\ new = [k \in 1 .. n |-> <<q, count[q] + k>>] /\ Len(new) = n
      /\ count' = [count EXCEPT ![q] = count[q] + n]
      /\ \A r \in Procs : r # q => todo'[r] = todo[r]
  BY PushEffect
<1> HIDE DEF n, new
<1>3. CASE q # p
  <2>1. count'[p] = count[p] /\ todo'[p] = todo[p]
    BY <1>2, <1>3 DEF LinesTyped
  <2>2. Left(p)' = Left(p)
    BY <1>1, <2>1, SameLeft
  <2>3. QED BY <2>1, <2>2
<1>4. CASE q = p
  <2>1. count[p] \in Nat /\ count'[p] = count[p] + n
    BY <1>2, <1>4 DEF LinesTyped
  <2>2. \A k \in 1 .. Len(new) : new[k][1] = p /\ new[k][2] = count[p] + k
    BY <1>2, <1>4
  <2>3. count[p] + 1 .. count'[p] \subseteq Numbers(p, new)
    <3>1. ASSUME NEW j \in count[p] + 1 .. count'[p] PROVE j \in Numbers(p, new)
      <4>1. j - count[p] \in 1 .. Len(new) /\ j = count[p] + (j - count[p])
        BY <1>2, <2>1
      <4>2. new[j - count[p]][1] = p /\ new[j - count[p]][2] = j
        BY <2>2, <4>1
      <4>3. QED BY <4>1, <4>2 DEF Numbers
    <3>2. QED BY <3>1
  <2>4. Numbers(p, new) \subseteq count[p] + 1 .. count'[p]
    BY <1>2, <2>1, <2>2 DEF Numbers
  <2>5. Slots' = Slots /\ UNCHANGED <<dir, file>>
    BY <1>1, SameConfig DEF Slots, files
  <2>6. Numbers(p, todo[p]) = {}
    BY <1>1, <1>4, NumbersNone
  <2>7. Left(p)' = Left(p) \union Numbers(p, new)
    BY <1>1, <1>4, <2>5, <2>6 DEF Left, new
  <2>8. Left(p) \subseteq Nat
    BY DEF Left, Order
  <2>9. ASSUME NEW m \in Left(p)', NEW j \in m .. count'[p] PROVE j \in Left(p)'
    <3>1. m \in Nat /\ j \in Nat /\ m <= j /\ j <= count'[p] /\ n \in Nat
      BY <1>2, <2>1, <2>4, <2>7, <2>8, <2>9
    <3>2. CASE j <= count[p]
      <4>1. m \notin Numbers(p, new)
        BY <2>1, <2>4, <3>1, <3>2
      <4>2. m \in Left(p) /\ j \in m .. count[p]
        BY <2>1, <2>7, <2>9, <3>1, <3>2, <4>1
      <4>3. QED BY <2>7, <4>2
    <3>3. CASE j > count[p]
      BY <2>1, <2>3, <2>7, <3>1, <3>3
    <3>4. QED BY <2>1, <3>1, <3>2, <3>3
  <2>10. QED BY <2>9
<1>5. QED BY <1>3, <1>4

LEMMA WriteLeft ==
    ASSUME Typed, NEW p \in Procs, \A r \in Procs : Order(r), Rotation(p),
           NEW q \in Procs, Write(q)
    PROVE  Left(p)' = Left(p)
<1> USE TypedFacts
<1> DEFINE one == <<Head(todo[q])>>
           rest == Tail(todo[q])
<1>1. todo[q] \in Seq(Line) /\ todo[q] # << >> /\ pc[q] = "write"
  BY DEF Write, Calls, LinesTyped
<1>2. one \in Seq(Line) /\ rest \in Seq(Line) /\ todo[q] = one \o rest
  BY <1>1, HeadAndTail
<1>3. /\ config' = config /\ dir' = dir
      /\ todo'[q] = rest /\ \A r \in Procs \ {q} : todo'[r] = todo[r]
  BY DEF Write, LinesTyped
<1>4. q = p => fd[q] # None /\ fd[q] = dir[0]
  BY <1>1 DEF Rotation
<1>5. CASE fd[q] # None /\ Flush(q, one)
  <2> HIDE DEF one, rest
  <2>1. Order(p) /\ Order(q)
    OBVIOUS
  <2>2. q # p => todo'[p] = todo[p]
    BY <1>3
  <2>3. QED BY <1>2, <1>3, <1>4, <1>5, <2>1, <2>2, FlushLeft
<1>6. CASE fd[q] # None /\ buf' = [buf EXCEPT ![q] = Append(@, Head(todo[q]))] /\ UNCHANGED file
  <2>1. CASE q # p
    <3>1. buf'[p] = buf[p] /\ todo'[p] = todo[p]
      BY <1>3, <1>6, <2>1 DEF LinesTyped
    <3>2. QED BY <1>3, <1>6, <3>1, SameLeft DEF files
  <2>2. CASE q = p
    <3>1. buf[p] \in Seq(Line) /\ buf'[p] = buf[p] \o one
      BY <1>2, <1>6, <2>2 DEF LinesTyped
    <3> HIDE DEF one, rest
    <3>2. Numbers(p, buf'[p]) = Numbers(p, buf[p]) \union Numbers(p, one)
      BY <1>2, <3>1, LinesConcat
    <3>3. Numbers(p, todo[p]) = Numbers(p, one) \union Numbers(p, todo'[p])
      <4>1. Numbers(p, one \o rest) = Numbers(p, one) \union Numbers(p, rest)
        BY <1>2, LinesConcat
      <4>2. todo'[p] = rest /\ todo[p] = one \o rest
        BY <1>2, <1>3, <2>2
      <4>3. QED BY <4>1, <4>2
    <3>4. Slots' = Slots /\ UNCHANGED <<dir, file>>
      BY <1>3, <1>6, SameConfig DEF Slots
    <3>5. Left(p)' = (UNION {Numbers(p, file[dir[s]]) : s \in Slots})
                        \union Numbers(p, buf'[p]) \union Numbers(p, todo'[p])
      BY <3>4 DEF Left
    <3>6. QED BY <3>2, <3>3, <3>5 DEF Left
  <2>3. QED BY <2>1, <2>2
<1>7. CASE fd[q] = None /\ UNCHANGED <<file, buf>>
  <2>1. q # p
    BY <1>4, <1>7
  <2>2. QED BY <1>3, <1>7, <2>1, SameLeft DEF files
<1>8. QED BY <1>5, <1>6, <1>7 DEF Write, WriteThrough

LEMMA FlushesLeft ==
    ASSUME Typed, NEW p \in Procs, \A r \in Procs : Order(r), Rotation(p),
           NEW q \in Procs, LogFileFlushAll(q) \/ Recheck(q)
    PROVE  Left(p)' = Left(p)
<1> USE TypedFacts
<1>1. /\ << >> \in Seq(Line) /\ todo[q] \in Seq(Line) /\ todo[q] = << >> \o todo[q]
  BY DEF LinesTyped
<1>2. config' = config /\ UNCHANGED <<dir, todo>>
  BY DEF LogFileFlushAll, Recheck, push
<1>3. CASE fd[q] # None
  <2>1. Flush(q, << >>)
    BY <1>3 DEF LogFileFlushAll, Recheck
  <2>2. q = p => fd[q] = dir[0]
    BY <1>3 DEF Rotation
  <2>3. Order(p) /\ Order(q) /\ todo'[q] = todo[q] /\ todo'[p] = todo[p]
    BY <1>2
  <2>4. QED BY <1>1, <1>2, <1>3, <2>1, <2>2, <2>3, FlushLeft
<1>4. CASE fd[q] = None
  <2>1. UNCHANGED <<file, buf>>
    BY <1>4 DEF LogFileFlushAll, Recheck
  <2>2. QED BY <1>2, <2>1, SameLeft DEF files
<1>5. QED BY <1>3, <1>4

LEMMA OtherLeft ==
    ASSUME Typed, config.mishaps = {}, NEW p \in Procs, p \notin Children, NEW q \in Procs,
           \/ LogFileSetValues(q) \/ LogFilesHousekeep(q) \/ Check(q) \/ Crash(q)
           \/ \E c \in Procs : Fork(q, c)
           \/ LogFileCreate(q) \/ Reopen(q)
    PROVE  Left(p)' = Left(p) /\ count'[p] = count[p]
<1> USE TypedFacts
<1>1. ~LogFileSetValues(q) /\ ~Crash(q)
  BY DEF May, LogFileSetValues, Crash
<1>2. CASE LogFilesHousekeep(q) \/ Check(q)
  <2>1. config' = config /\ UNCHANGED <<files, buf, todo, count>>
    BY <1>2 DEF LogFilesHousekeep, Check, push
  <2>2. QED BY <2>1, SameLeft
<1>3. CASE \E c \in Procs : Fork(q, c)
  <2>1. PICK c \in Procs : Fork(q, c)
    BY <1>3
  <2>2. config' = config /\ UNCHANGED <<files, todo, count>> /\ buf'[p] = buf[p]
    BY <2>1 DEF Fork, LinesTyped
  <2>3. QED BY <2>2, SameLeft
<1>4. CASE LogFileCreate(q) \/ Reopen(q)
  <2>1. LogFileOpen(q) /\ config' = config /\ UNCHANGED <<buf, todo, count>>
    BY <1>4 DEF LogFileCreate, Reopen, push
  <2>2. QED BY <2>1, OpenLeft
<1>5. QED BY <1>1, <1>2, <1>3, <1>4

LEMMA InitGaps ==
    ASSUME Init
    PROVE  NoGaps
<1>1. ASSUME NEW p \in Procs PROVE Left(p) = {}
  <2>1. Slots = {} /\ buf[p] = << >> /\ todo[p] = << >>
    BY DEF Init, Slots
  <2>2. QED BY <2>1, NumbersNone DEF Left
<1>2. Programs \subseteq Procs
  BY ConfigFacts DEF Init
<1>3. QED BY <1>1, <1>2 DEF NoGaps

LEMMA NextGaps ==
    ASSUME Typed, InOrder, Alone, NoGaps, [Next]_vars
    PROVE  NoGaps'
<1> USE TypedFacts
<1>1. config' = config
  BY DEF vars, Next, Step, Check, Recheck, Shift, Reopen, Write, Crash, LogFileCreate,
         LogFileSetValues, Fork, LogToFile, LogFilesHousekeep, LogFileFlushAll
<1> DEFINE Whole(p) == \A m \in Left(p) : m .. count[p] \subseteq Left(p)
<1>2. SUFFICES ASSUME OneProgram, EachLineOnce, NEW p \in Programs PROVE Whole(p)'
  <2>1. OneProgram' = OneProgram
    BY <1>1, SameConfig DEF OneProgram
  <2>2. QED BY <1>1, <2>1, SameConfig DEF NoGaps
<1>3. /\ Programs = {p} /\ p \in Procs /\ p \notin Children /\ config.mishaps = {}
      /\ Rotation(p) /\ \A r \in Procs : Order(r)
  BY <1>2 DEF OneProgram, Alone, InOrder
<1>4. Whole(p)
  BY <1>2 DEF NoGaps
<1>5. CASE Left(p)' = Left(p) /\ count'[p] = count[p]
  BY <1>4, <1>5
<1> HIDE DEF Whole
<1>6. CASE UNCHANGED vars
  <2>1. UNCHANGED <<files, buf, todo, count>>
    BY <1>6 DEF vars, push
  <2>2. QED BY <1>1, <1>3, <1>5, <2>1, SameLeft
<1>7. ASSUME NEW q \in Procs, Write(q) \/ LogFileFlushAll(q) \/ Recheck(q)
      PROVE  Whole(p)'
  <2>1. Left(p)' = Left(p)
    BY <1>3, <1>7, WriteLeft, FlushesLeft
  <2>2. count' = count
    BY <1>7 DEF Write, LogFileFlushAll, Recheck, push
  <2>3. QED BY <1>5, <2>1, <2>2
<1>8. ASSUME NEW q \in Procs,
             \/ LogFileSetValues(q) \/ LogFilesHousekeep(q) \/ Check(q) \/ Crash(q)
             \/ \E c \in Procs : Fork(q, c)
             \/ LogFileCreate(q) \/ Reopen(q)
      PROVE  Whole(p)'
  BY <1>3, <1>5, <1>8, OtherLeft
<1>9. ASSUME NEW q \in Procs, Shift(q)
      PROVE  Whole(p)'
  <2>1. q = p
    BY <1>3, <1>9 DEF Rotation, Shift
  <2>2. QED BY <1>3, <1>4, <1>9, <2>1, ShiftGaps DEF Whole
<1>10. ASSUME NEW q \in Procs, NEW text \in TextsThatMatter, LogToFile(q, text)
       PROVE  Whole(p)'
  BY <1>3, <1>4, <1>10, PushGaps DEF Whole
<1>11. CASE Next
  BY <1>7, <1>8, <1>9, <1>10, <1>11 DEF Next, Step
<1>12. QED BY <1>6, <1>11
------------------------------------------------------------------------------
(* What a step may do to the names of a log that one program rotates.      *)
Dropped(i) == Named(i) /\ ~Named(i)'
Outgrown == \A s \in 0 .. MaxRotate - 1 : dir[s] # None /\ Size(dir[s]) > MaxSize

LEMMA ShiftDrops ==
    ASSUME Typed, Typed', NEW p \in Procs, Rotation(p), Shift(p),
           NEW i \in Inodes, Dropped(i)
    PROVE  i = dir[MaxRotate] /\ Outgrown
<1> USE TypedFacts
<1>1. /\ DOMAIN dir = 0 .. MaxRotate /\ DOMAIN dir' = 0 .. MaxRotate
      /\ i # None /\ pc[p] = "shift" /\ slot[p] \in 0 .. MaxRotate
  <2>1. dir \in [0 .. MaxRotate -> Inodes \union {None}]
    BY DEF FilesTyped
  <2>2. dir' \in [0 .. MaxRotate -> Inodes \union {None}] /\ slot[p] \in 0 .. MaxRotate
    BY ShiftedCases
  <2>3. i # None
    BY DEF Inodes, None
  <2>4. pc[p] = "shift"
    BY DEF Shift
  <2>5. QED BY <2>1, <2>2, <2>3, <2>4
<1>2. PICK s \in 0 .. MaxRotate : dir[s] = i
  BY <1>1 DEF Dropped, Named
<1>3. \A t \in 0 .. MaxRotate : dir'[t] # i
  BY <1>1 DEF Dropped, Named
<1>4. slot[p] + 1 \notin Slots /\ dir[0] # None /\ Size(dir[0]) > MaxSize
  BY <1>1 DEF Rotation, Gap
<1>5. slot[p] = MaxRotate /\ s = MaxRotate
  <2>1. slot[p] < MaxRotate => slot[p] + 1 \in 0 .. MaxRotate /\ s # slot[p] + 1
    BY <1>1, <1>2, <1>4 DEF Slots
  <2>2. CASE s # slot[p]
    BY <1>2, <1>3, <2>1, <2>2, ShiftedCases
  <2>3. CASE s = slot[p] /\ slot[p] < MaxRotate
    BY <1>1, <1>2, <1>3, <2>1, <2>3, ShiftedCases
  <2>4. QED BY <1>1, <2>2, <2>3
<1>6. MaxRotate \in Slots
  BY <1>1, <1>2, <1>5 DEF Slots
<1>7. \A t \in 0 .. MaxRotate - 1 : dir[t] # None
  <2>1. Gap(p) = MaxRotate + 1
    BY <1>1, <1>5 DEF Gap
  <2>2. \A t \in 0 .. MaxRotate - 1 : t # Gap(p)
    BY <2>1
  <2>3. QED BY <1>6, <2>2 DEF Rotation
<1>8. \A t \in 0 .. MaxRotate - 1 : Size(dir[t]) > MaxSize
  <2>1. \A t \in 0 .. MaxRotate - 1 : t \in Slots
    BY <1>7 DEF Slots
  <2>2. \A t \in Slots : t > 0 => Size(dir[t]) > MaxSize
    BY DEF Rotation
  <2>3. \A t \in 0 .. MaxRotate - 1 : t = 0 \/ t > 0
    OBVIOUS
  <2>4. QED BY <1>4, <2>1, <2>2, <2>3
<1>9. QED BY <1>2, <1>5, <1>7, <1>8 DEF Outgrown

LEMMA OpenDrops ==
    ASSUME Typed, Typed', NEW p \in Procs, LogFileOpen(p), config' = config,
           NEW i \in Inodes
    PROVE  ~Dropped(i)
<1> USE TypedFacts
<1>1. SUFFICES ASSUME Dropped(i) PROVE FALSE
  OBVIOUS
<1>2. dir \in [0 .. MaxRotate -> Inodes \union {None}] /\ i # None
  BY DEF FilesTyped, Inodes, None
<1>3. CASE UNCHANGED files
  BY <1>1, <1>3 DEF Dropped, Named, files
<1>4. CASE dir[0] = None /\ dir' = [dir EXCEPT ![0] = NewFile]
  <2>1. PICK s \in 0 .. MaxRotate : dir[s] = i
    BY <1>1, <1>2 DEF Dropped, Named
  <2>2. s # 0 /\ dir'[s] = i /\ DOMAIN dir' = 0 .. MaxRotate
    BY <1>2, <1>4, <2>1
  <2>3. QED BY <1>1, <2>1, <2>2 DEF Dropped, Named
<1>5. QED BY <1>3, <1>4, OpenCases

LEMMA NextDrops ==
    ASSUME Typed, Typed', Alone, [Next]_vars, OneProgram, NEW i \in Inodes, Dropped(i)
    PROVE  i = dir[MaxRotate] /\ Outgrown
<1> USE TypedFacts
<1>1. PICK p \in Procs : Programs = {p} /\ config.mishaps = {}
  BY DEF OneProgram
<1>2. Rotation(p)
  BY <1>1 DEF Alone
<1>3. dir' # dir
  BY DEF Dropped, Named
<1>4. ASSUME NEW q \in Procs, Shift(q)
      PROVE  i = dir[MaxRotate] /\ Outgrown
  <2>1. q = p
    BY <1>2, <1>4 DEF Rotation, Shift
  <2>2. QED BY <1>2, <1>4, <2>1, ShiftDrops
<1>5. ASSUME NEW q \in Procs
      PROVE  ~LogFileCreate(q) /\ ~Reopen(q)
  BY OpenDrops DEF LogFileCreate, Reopen
<1>6. ASSUME NEW q \in Procs
      PROVE  /\ ~LogFileSetValues(q) /\ ~LogFilesHousekeep(q) /\ ~Check(q) /\ ~Crash(q)
             /\ ~Recheck(q) /\ ~LogFileFlushAll(q) /\ ~Write(q)
             /\ \A c \in Procs : ~Fork(q, c)
             /\ \A text \in TextsThatMatter : ~LogToFile(q, text)
  BY <1>3 DEF LogFileSetValues, LogFilesHousekeep, Check, Crash, Recheck, LogFileFlushAll,
              Write, Fork, LogToFile, files
<1>7. dir' # dir => Next
  BY DEF vars, files
<1>8. QED BY <1>3, <1>4, <1>5, <1>6, <1>7 DEF Next, Step
------------------------------------------------------------------------------
(* THEOREMS.                                                               *)
LEMMA InitIInv ==
    ASSUME Init
    PROVE  IInv
BY InitTyped, InitOrder, InitRoom, InitAlone, InitGaps DEF IInv

LEMMA NextIInv ==
    ASSUME IInv, [Next]_vars
    PROVE  IInv'
<1>1. Typed'
  BY NextTyped DEF IInv
<1>2. InOrder' /\ HasRoom' /\ Alone' /\ NoGaps'
  BY <1>1, NextOrder, NextRoom, NextAlone, NextGaps DEF IInv
<1>3. QED BY <1>1, <1>2 DEF IInv

(* Every reachable state satisfies the inductive invariant.                *)
THEOREM InvariantHolds == Spec => []IInv
<1>1. Init => IInv
  BY InitIInv
<1>2. IInv /\ [Next]_vars => IInv'
  BY NextIInv
<1>3. QED BY <1>1, <1>2, PTL DEF Spec

(* However the rotations, reopenings, failures and deaths of any number of *)
(* processes interleave, the lines of each are in the log in the order it  *)
(* wrote them, each once, and before those it has yet to write out; if one *)
(* program rotates the log and nothing fails, only the oldest lines are    *)
(* missing; and without children and buffering no file has outgrown the    *)
(* maximum size by more than one line of each process.                     *)
THEOREM LinesKept == Spec => []LinesAreKept
<1>1. IInv => LinesAreKept
  BY OrderImpliesInOrder, RoomBounds DEF IInv, Typed, LinesAreKept
<1>2. QED BY <1>1, InvariantHolds, PTL

(* LogFileInternalDoRotate, run by the one program of a log whose children *)
(* only write to it, drops a file when the MaxRotate after it are all over *)
(* the maximum size, and never another.                                    *)
THEOREM OwnerKeeps == Spec => OneOwnerKeeps
<1>1. ASSUME IInv, [Next]_vars, OneProgram, NEW i \in Inodes, Named(i), ~Named(i)'
      PROVE  /\ i = dir[MaxRotate]
             /\ \A s \in 0 .. MaxRotate - 1 : dir[s] # None /\ Size(dir[s]) > MaxSize
  <2>1. Typed' /\ Dropped(i)
    BY <1>1, NextIInv DEF IInv, Dropped
  <2>2. QED BY <1>1, <2>1, NextDrops DEF IInv, Outgrown
<1>2. IInv /\ [Next]_vars =>
          [OneProgram =>
              \A i \in Inodes :
                  Named(i) /\ ~Named(i)' =>
                      /\ i = dir[MaxRotate]
                      /\ \A s \in 0 .. MaxRotate - 1 :
                             dir[s] # None /\ Size(dir[s]) > MaxSize]_vars
  BY <1>1
<1>3. QED BY <1>2, InvariantHolds, PTL DEF Spec, OneOwnerKeeps
=============================================================================
