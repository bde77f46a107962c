----------------------------- MODULE SeqLemmas -----------------------------
(***************************************************************************)
(* Facts about cutting sequences of bytes in two, used by the proofs about *)
(* the buffers of a STREAM, and what follows for the order of the bytes in *)
(* a pipe; and the least element of a set of naturals, which a search from *)
(* the front of a buffer finds, with the induction that follows from it;   *)
(* sequences put together from others; and a text looked for in what is    *)
(* read, a character at a time.                                            *)
(***************************************************************************)
EXTENDS Integers, Sequences, SequenceTheorems, FiniteSetTheorems, TLAPS

(* Cutting a sequence in two loses nothing: the buffer and what a write()  *)
(* or a STREAMTransferBytesOut took from it.                               *)
LEMMA CutSeq ==
    ASSUME NEW S, NEW s \in Seq(S), NEW k \in 0..Len(s)
    PROVE  /\ SubSeq(s, 1, k) \in Seq(S) /\ Len(SubSeq(s, 1, k)) = k
           /\ SubSeq(s, k + 1, Len(s)) \in Seq(S)
           /\ Len(SubSeq(s, k + 1, Len(s))) = Len(s) - k
           /\ SubSeq(s, 1, k) \o SubSeq(s, k + 1, Len(s)) = s
<1>1. Len(s) \in Nat /\ \A i \in 1..Len(s) : s[i] \in S
  BY LenProperties, ElementOfSeq
<1>2. /\ SubSeq(s, 1, k) \in Seq(S) /\ Len(SubSeq(s, 1, k)) = k
  <2>1. \A i \in 1..k : s[i] \in S
    BY <1>1
  <2>2. QED
    BY <1>1, <2>1, SubSeqProperties
<1>3. /\ SubSeq(s, k + 1, Len(s)) \in Seq(S)
      /\ Len(SubSeq(s, k + 1, Len(s))) = Len(s) - k
  <2>1. \A i \in k + 1 .. Len(s) : s[i] \in S
    BY <1>1
  <2>2. QED
    BY <1>1, <2>1, SubSeqProperties
<1>4. SubSeq(s, 1, k) \o SubSeq(s, k + 1, Len(s)) = s
  <2>1. 1 \in 1 .. Len(s) + 1 /\ k \in 1 - 1 .. Len(s) /\ Len(s) \in k .. Len(s)
    BY <1>1
  <2>2. SubSeq(s, 1, k) \o SubSeq(s, k + 1, Len(s)) = SubSeq(s, 1, Len(s))
    BY <2>1, ConcatAdjacentSubSeq
  <2>3. QED
    BY <2>2, SubSeqFull
<1>5. QED
  BY <1>2, <1>3, <1>4

(* What two sequences hold is cut inside the first: the buffer and the     *)
(* bytes behind it.                                                        *)
LEMMA CutConcat ==
    ASSUME NEW S, NEW s \in Seq(S), NEW t \in Seq(S), NEW k \in 0..Len(s)
    PROVE  /\ SubSeq(s \o t, 1, k) = SubSeq(s, 1, k)
           /\ SubSeq(s \o t, k + 1, Len(s \o t)) = SubSeq(s, k + 1, Len(s)) \o t
<1> DEFINE u == SubSeq(s \o t, k + 1, Len(s \o t))
           r == SubSeq(s, k + 1, Len(s))
           v == r \o t
<1>1. /\ s \o t \in Seq(S) /\ Len(s \o t) = Len(s) + Len(t)
      /\ \A i \in 1 .. Len(s) + Len(t) :
            (s \o t)[i] = IF i <= Len(s) THEN s[i] ELSE t[i - Len(s)]
      /\ Len(s) \in Nat /\ Len(t) \in Nat
  BY ConcatProperties, LenProperties
<1>2. k \in 0 .. Len(s \o t)
  BY <1>1
<1>3. /\ SubSeq(s \o t, 1, k) \in Seq(S) /\ Len(SubSeq(s \o t, 1, k)) = k
      /\ u \in Seq(S) /\ Len(u) = Len(s) + Len(t) - k
  BY <1>1, <1>2, CutSeq
<1>4. /\ SubSeq(s, 1, k) \in Seq(S) /\ Len(SubSeq(s, 1, k)) = k
      /\ r \in Seq(S)
      /\ Len(r) = Len(s) - k
  BY CutSeq
<1>5. SubSeq(s \o t, 1, k) = SubSeq(s, 1, k)
  <2>1. ASSUME NEW i \in 1..k
        PROVE  SubSeq(s \o t, 1, k)[i] = SubSeq(s, 1, k)[i]
    BY <1>1, <1>2, SubSeqProperties
  <2>2. QED
    BY <1>3, <1>4, <2>1, SeqEqual
<1>6. /\ v \in Seq(S) /\ Len(v) = Len(s) + Len(t) - k
      /\ \A i \in 1 .. Len(s) + Len(t) - k :
            v[i] = IF i <= Len(s) - k THEN r[i] ELSE t[i - (Len(s) - k)]
  <2> HIDE DEF r
  <2>1. /\ r \o t \in Seq(S) /\ Len(r \o t) = Len(r) + Len(t)
        /\ \A i \in 1 .. Len(r) + Len(t) :
              (r \o t)[i] = IF i <= Len(r) THEN r[i] ELSE t[i - Len(r)]
    BY <1>4, ConcatProperties
  <2>2. QED
    BY <1>1, <1>4, <2>1
<1>7. ASSUME NEW i \in 1 .. Len(s) + Len(t) - k
      PROVE  u[i] = v[i]
  <2>1. u[i] = (s \o t)[k + i]
    <3>1. \A j \in k + 1 .. Len(s \o t) : (s \o t)[j] \in S
      BY <1>1, ElementOfSeq
    <3>2. \A j \in 1 .. Len(s \o t) - (k + 1) + 1 : u[j] = (s \o t)[(k + 1) + j - 1]
      BY <1>1, <3>1, SubSeqProperties
    <3>3. QED
      BY <1>1, <3>2
  <2>2. CASE k + i <= Len(s)
    <3>1. r[i] = s[k + i]
      BY <1>1, <2>2, SubSeqProperties, ElementOfSeq
    <3>2. v[i] = r[i]
      BY <1>1, <1>6, <2>2
    <3>3. (s \o t)[k + i] = s[k + i]
      BY <1>1, <2>2
    <3> HIDE DEF u, v, r
    <3>4. QED
      BY <2>1, <3>1, <3>2, <3>3
  <2>3. CASE k + i > Len(s)
    <3>1. v[i] = t[i - (Len(s) - k)]
      BY <1>1, <1>6, <2>3
    <3>2. (s \o t)[k + i] = t[k + i - Len(s)]
      BY <1>1, <2>3
    <3>3. i - (Len(s) - k) = k + i - Len(s)
      BY <1>1
    <3> HIDE DEF u, v
    <3>4. QED
      BY <2>1, <3>1, <3>2, <3>3
  <2>4. QED
    BY <1>1, <2>2, <2>3
<1>8. u = v
  <2> HIDE DEF u, v
  <2>1. QED
    BY <1>1, <1>3, <1>6, <1>7, SeqEqual
<1>9. QED
  BY <1>5, <1>8

(* Cutting off k bytes and then j more is cutting off k + j: two write()s  *)
(* of one buffer.                                                          *)
LEMMA CutTwice ==
    ASSUME NEW S, NEW s \in Seq(S), NEW k \in 0..Len(s), NEW j \in 0 .. Len(s) - k
    PROVE  LET r == SubSeq(s, k + 1, Len(s))
           IN  SubSeq(r, j + 1, Len(r)) = SubSeq(s, k + j + 1, Len(s))
<1> DEFINE r == SubSeq(s, k + 1, Len(s))
           u == SubSeq(r, j + 1, Len(r))
           v == SubSeq(s, k + j + 1, Len(s))
<1>1. Len(s) \in Nat /\ \A i \in 1..Len(s) : s[i] \in S
  BY LenProperties, ElementOfSeq
<1>2. r \in Seq(S) /\ Len(r) = Len(s) - k
  BY CutSeq
<1>3. \A i \in 1 .. Len(s) - k : r[i] = s[k + i]
  BY <1>1, SubSeqProperties
<1>4. u \in Seq(S) /\ Len(u) = Len(s) - k - j
  BY <1>1, <1>2, CutSeq
<1>5. v \in Seq(S) /\ Len(v) = Len(s) - (k + j)
  BY <1>1, CutSeq
<1>6. ASSUME NEW i \in 1 .. Len(s) - k - j
      PROVE  u[i] = v[i]
  <2>1. u[i] = r[j + i]
    <3>1. \A m \in j + 1 .. Len(r) : r[m] \in S
      BY <1>1, <1>2, ElementOfSeq
    <3>2. \A m \in 1 .. Len(r) - (j + 1) + 1 : u[m] = r[(j + 1) + m - 1]
      BY <1>1, <1>2, <3>1, SubSeqProperties
    <3>3. QED
      BY <1>1, <1>2, <3>2
  <2>2. v[i] = s[k + j + i]
    BY <1>1, SubSeqProperties
  <2>3. QED
    BY <1>1, <1>3, <2>1, <2>2
<1>7. QED
  BY <1>1, <1>4, <1>5, <1>6, SeqEqual

(* Appending the first part of t and then the rest appends t: what         *)
(* STREAMInternalQueueBytes copies now and what it copies later.           *)
LEMMA ConcatCut ==
    ASSUME NEW S, NEW s \in Seq(S), NEW t \in Seq(S), NEW k \in 0..Len(t)
    PROVE  (s \o SubSeq(t, 1, k)) \o SubSeq(t, k + 1, Len(t)) = s \o t
<1>1. /\ SubSeq(t, 1, k) \in Seq(S) /\ SubSeq(t, k + 1, Len(t)) \in Seq(S)
      /\ SubSeq(t, 1, k) \o SubSeq(t, k + 1, Len(t)) = t
  BY CutSeq
<1>2. \A u, v \in Seq(S) : (s \o u) \o v = s \o (u \o v)
  BY ConcatAssociative, SMTT(30)
<1>3. (s \o SubSeq(t, 1, k)) \o SubSeq(t, k + 1, Len(t))
          = s \o (SubSeq(t, 1, k) \o SubSeq(t, k + 1, Len(t)))
  BY <1>1, <1>2, Zenon
<1>4. QED
  BY <1>1, <1>3, Zenon

(* A sequence that is cut and put back in front of another.                *)
LEMMA CutBack ==
    ASSUME NEW S, NEW s \in Seq(S), NEW t \in Seq(S), NEW k \in 0..Len(s)
    PROVE  SubSeq(s, 1, k) \o (SubSeq(s, k + 1, Len(s)) \o t) = s \o t
<1>1. /\ SubSeq(s, 1, k) \in Seq(S) /\ SubSeq(s, k + 1, Len(s)) \in Seq(S)
      /\ SubSeq(s, 1, k) \o SubSeq(s, k + 1, Len(s)) = s
  BY CutSeq
<1>2. \A u, v \in Seq(S) : (u \o v) \o t = u \o (v \o t)
  BY ConcatAssociative, SMTT(30)
<1>3. (SubSeq(s, 1, k) \o SubSeq(s, k + 1, Len(s))) \o t
          = SubSeq(s, 1, k) \o (SubSeq(s, k + 1, Len(s)) \o t)
  BY <1>1, <1>2, Zenon
<1>4. QED
  BY <1>1, <1>3, Zenon
------------------------------------------------------------------------------
LEMMA FirstNumbers ==
    ASSUME NEW n \in Nat
    PROVE  1..n \in FiniteSubsetsOf(Nat)
BY FS_Interval DEF FiniteSubsetsOf

(* A set of naturals has a least element: the intervals 1..n of its        *)
(* elements n are finite sets, and one of them is within all the others.   *)
LEMMA LeastElement ==
    ASSUME NEW S, S \subseteq Nat, S # {}
    PROVE  \E n \in S : \A m \in S : n <= m
<1> DEFINE T == {1..n : n \in S}
           R == StrictSubsetOrdering(Nat)
<1>1. T \subseteq FiniteSubsetsOf(Nat) /\ T # {}
  BY FirstNumbers
<1>2. IsWellFoundedOn(R, FiniteSubsetsOf(Nat))
  BY FS_StrictSubsetOrderingWellFounded
<1>3. \E x \in T : \A y \in T : ~(<<y, x>> \in R)
  <2> HIDE DEF T, R
  <2>1. QED
    BY <1>1, <1>2, WFMin
<1>4. PICK n \in S : \A m \in S : ~(<<1..m, 1..n>> \in R)
  <2>1. PICK x \in T : \A y \in T : ~(<<y, x>> \in R)
    BY <1>3
  <2>2. PICK n \in S : x = 1..n
    OBVIOUS
  <2>3. QED
    BY <2>1, <2>2
<1>5. ASSUME NEW m \in S, m < n
      PROVE  FALSE
  <2>1. 1..m \subseteq 1..n /\ 1..m # 1..n /\ 1..m \subseteq Nat /\ 1..n \subseteq Nat
    <3>1. n \in 1..n /\ n \notin 1..m
      BY <1>5
    <3>2. QED
      BY <1>5, <3>1
  <2>2. <<1..m, 1..n>> \in R
    BY <2>1 DEF StrictSubsetOrdering
  <2>3. QED
    BY <1>4, <2>2
<1>6. QED
  BY <1>4, <1>5

(* Induction, for a set of naturals instead of a predicate.                *)
LEMMA SetInduction ==
    ASSUME NEW S, 0 \in S, \A n \in Nat : n \in S => n + 1 \in S
    PROVE  Nat \subseteq S
<1> SUFFICES ASSUME Nat \ S # {} PROVE FALSE
  OBVIOUS
<1>1. PICK n \in Nat \ S : \A m \in Nat \ S : n <= m
  <2> DEFINE T == Nat \ S
  <2>1. T \subseteq Nat /\ T # {}
    OBVIOUS
  <2> HIDE DEF T
  <2>2. \E n \in T : \A m \in T : n <= m
    BY <2>1, LeastElement
  <2>3. QED
    BY <2>2 DEF T
<1>2. n # 0 /\ n - 1 \in Nat /\ n - 1 \in S
  BY <1>1
<1>3. n \in S
  <2>1. (n - 1) + 1 = n
    BY <1>2
  <2>2. QED
    BY <1>2, <2>1
<1>4. QED
  BY <1>1, <1>3

(* A function whose value at each number follows from the one before it,   *)
(* by any step: it exists.                                                 *)
Stepwise(f, n, base, step) == f[0] = base /\ \A i \in 1..n : f[i] = step[<<i, f[i - 1]>>]

LEMMA StepsExist ==
    ASSUME NEW n \in Nat, NEW R, NEW base \in R, NEW step \in [(1..n) \X R -> R]
    PROVE  \E f \in [0..n -> R] : Stepwise(f, n, base, step)
<1> DEFINE Upto(f, k) == f[0] = base /\ \A i \in 1..k : f[i] = step[<<i, f[i - 1]>>]
           T == {k \in Nat : k <= n => \E f \in [0..k -> R] : Upto(f, k)}
<1>1. 0 \in T
  <2>1. [i \in 0..0 |-> base] \in [0..0 -> R] /\ Upto([i \in 0..0 |-> base], 0)
    OBVIOUS
  <2>2. QED
    BY <2>1
<1>2. ASSUME NEW k \in Nat, k \in T PROVE k + 1 \in T
  <2> SUFFICES ASSUME k + 1 <= n PROVE \E f \in [0..k+1 -> R] : Upto(f, k + 1)
    OBVIOUS
  <2>1. PICK f \in [0..k -> R] : Upto(f, k)
    BY <1>2
  <2> DEFINE g == [i \in 0..k+1 |-> IF i = k + 1 THEN step[<<k + 1, f[k]>>] ELSE f[i]]
  <2>2. k \in 0..k /\ k + 1 \in 1..n /\ step[<<k + 1, f[k]>>] \in R
    <3>1. k \in 0..k /\ k + 1 \in 1..n /\ f[k] \in R
      OBVIOUS
    <3>2. QED
      BY <3>1
  <2>3. g \in [0..k+1 -> R]
    <3>1. \A i \in 0..k+1 : i = k + 1 \/ i \in 0..k
      OBVIOUS
    <3>2. QED
      BY <2>2, <3>1
  <2>4. g[0] = base
    BY <2>1
  <2>5. ASSUME NEW i \in 1..(k+1) PROVE g[i] = step[<<i, g[i - 1]>>]
    <3>1. CASE i = k + 1
      <4>1. i - 1 = k /\ k # k + 1 /\ k \in 0..k+1 /\ i \in 0..k+1
        BY <3>1
      <4>2. g[k] = f[k]
        BY <4>1
      <4>3. QED
        BY <3>1, <4>1, <4>2
    <3>2. CASE i # k + 1
      <4>1. i \in 1..k /\ i - 1 \in 0..k+1 /\ i - 1 # k + 1 /\ i \in 0..k+1
        BY <3>2
      <4>2. g[i - 1] = f[i - 1] /\ g[i] = f[i]
        BY <3>2, <4>1
      <4>3. QED
        BY <2>1, <4>1, <4>2
    <3>3. QED
      BY <3>1, <3>2
  <2>6. Upto(g, k + 1)
    BY <2>4, <2>5
  <2>7. QED
    BY <2>3, <2>6
<1>3. n \in T
  <2> HIDE DEF T
  <2>1. QED
    BY <1>1, <1>2, SetInduction
<1>4. QED
  BY <1>3 DEF Stepwise
------------------------------------------------------------------------------
(* A pipe keeps its bytes in order.  What is put in is numbered on.        *)
(* The bytes of s were put in, and each was put in after those before it.  *)
Rising(s, n) ==
    /\ \A i \in 1..Len(s) : s[i] \in 1..n
    /\ \A i, j \in 1..Len(s) : i < j => s[i] < s[j]

LEMMA RisingLonger ==
    ASSUME NEW m \in Nat, NEW n \in Nat, NEW s \in Seq(Nat), NEW u \in Seq(Nat),
           Rising(s, m), Len(u) = n, \A i \in 1..n : u[i] = m + i
    PROVE  Rising(s \o u, m + n)
<1> DEFINE t == s \o u
<1>1. Len(s) \in Nat /\ \A i \in 1..Len(s) : s[i] \in Nat
  BY LenProperties, ElementOfSeq
<1>2. /\ Len(t) = Len(s) + n
      /\ \A i \in 1 .. Len(s) + n : t[i] = IF i <= Len(s) THEN s[i] ELSE u[i - Len(s)]
  BY ConcatProperties
<1>3. \A i \in 1 .. Len(s) + n : t[i] = IF i <= Len(s) THEN s[i] ELSE m + (i - Len(s))
  BY <1>1, <1>2
<1> HIDE DEF t
<1>9. /\ \A i \in 1..Len(s) : s[i] \in 1..m
      /\ \A i, j \in 1..Len(s) : i < j => s[i] < s[j]
  BY DEF Rising
<1>4. \A i \in 1..Len(t) : t[i] \in 1 .. m + n
  <2> SUFFICES ASSUME NEW i \in 1..Len(t) PROVE t[i] \in 1 .. m + n
    OBVIOUS
  <2>1. i \in 1 .. Len(s) + n /\ Len(s) \in Nat
    BY <1>1, <1>2
  <2>2. CASE i <= Len(s)
    <3>1. i \in 1..Len(s) /\ t[i] = s[i]
      BY <1>3, <2>1, <2>2
    <3>2. s[i] \in 1..m
      BY <1>9, <3>1
    <3>3. QED
      BY <3>1, <3>2
  <2>3. CASE ~(i <= Len(s))
    BY <1>3, <2>1, <2>3
  <2>4. QED
    BY <2>2, <2>3
<1>5. ASSUME NEW i \in 1..Len(t), NEW j \in 1..Len(t), i < j
      PROVE  t[i] < t[j]
  <2>1. /\ i \in 1 .. Len(s) + n /\ j \in 1 .. Len(s) + n
        /\ Len(s) \in Nat
    BY <1>1, <1>2
  <2>2. CASE j <= Len(s)
    <3>1. /\ i \in 1..Len(s) /\ j \in 1..Len(s)
          /\ t[i] = s[i] /\ t[j] = s[j]
      BY <1>3, <1>5, <2>1, <2>2
    <3>2. QED
      BY <1>9, <1>5, <3>1
  <2>3. CASE i <= Len(s) /\ Len(s) < j
    <3>1. i \in 1..Len(s) /\ t[i] = s[i]
      BY <1>3, <2>1, <2>3
    <3>2. s[i] \in 1..m
      BY <1>9, <3>1
    <3>3. t[j] = m + (j - Len(s))
      BY <1>3, <2>1, <2>3
    <3>4. QED
      BY <2>1, <2>3, <3>1, <3>2, <3>3, SMTT(30)
  <2>4. CASE Len(s) < i
    BY <1>3, <1>5, <2>1, <2>4
  <2>5. QED
    BY <2>1, <2>2, <2>3, <2>4
<1>10. QED
  BY <1>4, <1>5 DEF Rising, t

LEMMA RisingShorter ==
    ASSUME NEW m \in Nat, NEW s \in Seq(Nat), NEW t \in Seq(Nat),
           NEW k \in 0..Len(t), Rising(s \o t, m)
    PROVE  Rising(s \o SubSeq(t, 1, k), m)
<1> DEFINE u == SubSeq(t, 1, k)
           v == s \o u
           w == s \o t
<1>1. Len(s) \in Nat /\ Len(t) \in Nat
  BY LenProperties
<1>2. u \in Seq(Nat) /\ Len(u) = k
  BY CutSeq
<1>3. \A i \in 1..k : u[i] = t[i]
  BY <1>1
<1>4. /\ Len(w) = Len(s) + Len(t)
      /\ \A i \in 1 .. Len(s) + Len(t) : w[i] = IF i <= Len(s) THEN s[i] ELSE t[i - Len(s)]
  BY ConcatProperties
<1> HIDE DEF u
<1>5. /\ Len(v) = Len(s) + k
      /\ \A i \in 1 .. Len(s) + k : v[i] = IF i <= Len(s) THEN s[i] ELSE u[i - Len(s)]
  BY <1>2, ConcatProperties
<1> HIDE DEF v, w
<1>6. \A i \in 1..Len(v) : i \in 1..Len(w) /\ v[i] = w[i]
  <2> SUFFICES ASSUME NEW i \in 1..Len(v) PROVE i \in 1..Len(w) /\ v[i] = w[i]
    OBVIOUS
  <2>1. i \in 1 .. Len(s) + k /\ i \in 1 .. Len(s) + Len(t)
    BY <1>1, <1>5
  <2>2. v[i] = IF i <= Len(s) THEN s[i] ELSE u[i - Len(s)]
    BY <1>5, <2>1
  <2>3. w[i] = IF i <= Len(s) THEN s[i] ELSE t[i - Len(s)]
    BY <1>4, <2>1
  <2>4. ~(i <= Len(s)) => i - Len(s) \in 1..k
    BY <1>1, <2>1
  <2>5. QED
    BY <1>3, <1>4, <2>1, <2>2, <2>3, <2>4
<1>7. Rising(w, m)
  BY DEF w
<1>8. Rising(v, m)
  BY <1>6, <1>7 DEF Rising
<1>9. QED
  BY <1>8 DEF v, u

(* A step of a pipe, from put bytes put in, of which it holds some and gave *)
(* some: bytes go in, come out, go back or are lost.                       *)
PipeStep(put, held, got, put2, held2, got2) ==
    \/ /\ put2 \in Nat /\ put2 > put /\ got2 = got
       /\ held2 = held \o [i \in 1 .. put2 - put |-> put + i]
    \/ \E k \in 1..Len(held) :
          /\ put2 = put /\ got2 = got \o SubSeq(held, 1, k)
          /\ held2 = SubSeq(held, k + 1, Len(held))
    \/ \E k \in 1..Len(got) :
          /\ put2 = put /\ got2 = SubSeq(got, 1, Len(got) - k)
          /\ held2 = SubSeq(got, Len(got) - k + 1, Len(got)) \o held
    \/ \E k \in 0 .. Len(held) - 1 :
          put2 = put /\ got2 = got /\ held2 = SubSeq(held, 1, k)

(* What came out of it and what it holds was put in, in that order.        *)
InTurn(put, held, got) ==
    /\ put \in Nat /\ held \in Seq(Nat) /\ got \in Seq(Nat)
    /\ Rising(got \o held, put)

LEMMA EmptyIsOrderly == InTurn(0, << >>, << >>)
BY EmptySeq, ConcatEmptySeq DEF InTurn, Rising

(* No byte comes out of a pipe, or waits in it, twice or out of order.     *)
LEMMA PipeIsOrderly ==
    ASSUME NEW put, NEW held, NEW got, InTurn(put, held, got),
           NEW put2, NEW held2, NEW got2, PipeStep(put, held, got, put2, held2, got2)
    PROVE  InTurn(put2, held2, got2)
<1>1. put \in Nat /\ held \in Seq(Nat) /\ got \in Seq(Nat) /\ Rising(got \o held, put)
  BY DEF InTurn
<1>2. ASSUME put2 \in Nat, put2 > put, got2 = got,
             held2 = held \o [i \in 1 .. put2 - put |-> put + i]
      PROVE  InTurn(put2, held2, got2)
  <2> DEFINE n == put2 - put
             new == [i \in 1..n |-> put + i]
  <2>1. n \in Nat /\ put2 = put + n
    BY <1>1, <1>2
  <2>2. held2 = held \o new
    BY <1>2
  <2> HIDE DEF n
  <2>3. new \in Seq(Nat) /\ Len(new) = n /\ \A i \in 1..n : new[i] = put + i
    <3>1. \A i \in 1..n : put + i \in Nat
      BY <1>1
    <3>2. new \in Seq(Nat)
      BY <2>1, <3>1, IsASeq
    <3>3. QED
      BY <2>1, <3>2, LenProperties
  <2> HIDE DEF new
  <2>4. got \o held \in Seq(Nat) /\ held2 \in Seq(Nat)
    BY <1>1, <2>2, <2>3, ConcatProperties
  <2>5. (got \o held) \o new = got \o held2
    BY <1>1, <2>2, <2>3, ConcatAssociative, SMTT(30)
  <2>6. Rising((got \o held) \o new, put + n)
    BY <1>1, <2>1, <2>3, <2>4, RisingLonger
  <2>7. QED
    BY <1>1, <1>2, <2>1, <2>4, <2>5, <2>6 DEF InTurn
<1>3. ASSUME NEW k \in 1..Len(held), put2 = put, got2 = got \o SubSeq(held, 1, k),
             held2 = SubSeq(held, k + 1, Len(held))
      PROVE  InTurn(put2, held2, got2)
  <2>1. k \in 0..Len(held)
    BY <1>1, LenProperties
  <2>2. SubSeq(held, 1, k) \in Seq(Nat) /\ held2 \in Seq(Nat)
    BY <1>1, <1>3, <2>1, CutSeq
  <2>3. got2 \o held2 = got \o held
    BY <1>1, <1>3, <2>1, ConcatCut
  <2>4. got2 \in Seq(Nat)
    BY <1>1, <1>3, <2>2, ConcatProperties
  <2>5. QED
    BY <1>1, <1>3, <2>2, <2>3, <2>4 DEF InTurn
<1>4. ASSUME NEW k \in 1..Len(got), put2 = put, got2 = SubSeq(got, 1, Len(got) - k),
             held2 = SubSeq(got, Len(got) - k + 1, Len(got)) \o held
      PROVE  InTurn(put2, held2, got2)
  <2> DEFINE m == Len(got) - k
  <2>1. m \in 0..Len(got)
    BY <1>1, LenProperties
  <2>2. got2 = SubSeq(got, 1, m) /\ held2 = SubSeq(got, m + 1, Len(got)) \o held
    BY <1>4
  <2> HIDE DEF m
  <2>3. got2 \in Seq(Nat) /\ SubSeq(got, m + 1, Len(got)) \in Seq(Nat)
    BY <1>1, <2>1, <2>2, CutSeq
  <2>4. held2 \in Seq(Nat)
    BY <1>1, <2>2, <2>3, ConcatProperties
  <2>5. got2 \o held2 = got \o held
    BY <1>1, <2>1, <2>2, CutBack
  <2>6. QED
    BY <1>1, <1>4, <2>3, <2>4, <2>5 DEF InTurn
<1>5. ASSUME NEW k \in 0 .. Len(held) - 1, put2 = put, got2 = got, held2 = SubSeq(held, 1, k)
      PROVE  InTurn(put2, held2, got2)
  <2>1. k \in 0..Len(held)
    BY <1>1, LenProperties
  <2>2. held2 \in Seq(Nat)
    BY <1>1, <1>5, <2>1, CutSeq
  <2>3. Rising(got \o held2, put)
    BY <1>1, <1>5, <2>1, RisingShorter
  <2>4. QED
    BY <1>1, <1>5, <2>2, <2>3 DEF InTurn
<1>6. QED
  BY <1>2, <1>3, <1>4, <1>5 DEF PipeStep

(* The greatest of some numbers.                                           *)
LEMMA GreatestElement ==
    ASSUME NEW k \in Nat, NEW S, S \subseteq 0 .. k, S # {}
    PROVE  \E n \in S : \A m \in S : n >= m
<1> DEFINE T == {k - n : n \in S}
<1>1. T \subseteq Nat /\ T # {}
  <2>1. \A n \in S : n \in 0 .. k /\ k - n \in Nat
    OBVIOUS
  <2>2. QED
    BY <2>1
<1> HIDE DEF T
<1>2. PICK t \in T : \A u \in T : t <= u
  BY <1>1, LeastElement
<1>3. PICK n \in S : t = k - n
  BY DEF T
<1>4. ASSUME NEW m \in S PROVE n >= m
  <2>1. k - m \in T
    BY DEF T
  <2>2. k - n <= k - m
    BY <1>2, <1>3, <2>1
  <2>3. n \in Nat /\ m \in Nat
    OBVIOUS
  <2>4. QED
    BY <2>2, <2>3
<1>5. QED
  BY <1>4

-----------------------------------------------------------------------------
(* What FlattenSeq computes, a sequence at a time.                         *)
Flattens(f, seqs) ==
    f[0] = << >> /\ \A i \in 1 .. Len(seqs) : f[i] = f[i - 1] \o seqs[i]

(* FlattenSeq of the community modules, as each instance has it.           *)
Flat(seqs) ==
    IF Len(seqs) = 0 THEN seqs
    ELSE LET flatten[i \in 1 .. Len(seqs)] ==
                 IF i = 1 THEN seqs[i] ELSE flatten[i - 1] \o seqs[i]
         IN  flatten[Len(seqs)]

(* What is flattened is put together a sequence at a time.                 *)
LEMMA FlatSteps ==
    ASSUME NEW S, NEW seqs \in Seq(Seq(S))
    PROVE  \E f \in [0 .. Len(seqs) -> Seq(S)] :
              Flattens(f, seqs) /\ Flat(seqs) = f[Len(seqs)]
<1> DEFINE N == Len(seqs)
           R == Seq(S)
           step == [x \in (1 .. N) \X R |-> x[2] \o seqs[x[1]]]
           F(g) == g = [i \in 1 .. N |-> IF i = 1 THEN seqs[i] ELSE g[i - 1] \o seqs[i]]
           e == CHOOSE g : F(g)
<1>1. N \in Nat /\ DOMAIN seqs = 1 .. N /\ \A i \in 1 .. N : seqs[i] \in R
  BY LenProperties, ElementOfSeq
<1>2. \A i \in 1 .. N, q \in R : q \o seqs[i] \in R
  BY <1>1, ConcatProperties
<1>3. << >> \in R
  OBVIOUS
<1>4. \A q \in R : << >> \o q = q
  BY ConcatEmptySeq
<1>5. Flat(seqs) = IF N = 0 THEN seqs ELSE e[N]
  BY DEF Flat
<1>6. seqs \in Seq(R)
  OBVIOUS
<1> HIDE DEF R, N
<1>7. /\ step \in [(1 .. N) \X R -> R]
      /\ \A i \in 1 .. N, q \in R : step[<<i, q>>] = q \o seqs[i]
  BY <1>2
<1> HIDE DEF step
<1>8. PICK f \in [0 .. N -> R] : Stepwise(f, N, << >>, step)
  BY <1>1, <1>3, <1>7, StepsExist
<1>9. f[0] = << >> /\ \A i \in 1 .. N : f[i - 1] \in R /\ f[i] = f[i - 1] \o seqs[i]
  <2>1. \A i \in 1 .. N : f[i - 1] \in R
    BY <1>1
  <2>2. QED
    BY <1>7, <1>8, <2>1 DEF Stepwise
<1>10. CASE N = 0
  <2>1. seqs = << >>
    BY <1>1, <1>6, <1>10, EmptySeq DEF N
  <2>2. QED
    BY <1>5, <1>9, <1>10, <2>1 DEF Flattens, N, R
<1>11. CASE N # 0
  <2> DEFINE g == [i \in 1 .. N |-> f[i]]
  <2>1. F(g)
    <3>1. \A i \in 1 .. N : i = 1 => f[i] = seqs[i]
      <4>1. \A i \in 1 .. N : i = 1 => i - 1 = 0
        OBVIOUS
      <4>2. QED
        BY <1>1, <1>4, <1>9, <4>1
    <3>2. \A i \in 1 .. N : i # 1 => i - 1 \in 1 .. N /\ g[i - 1] = f[i - 1]
      BY <1>1
    <3>3. QED
      BY <1>9, <3>1, <3>2
  <2>2. F(e)
    <3> HIDE DEF F
    <3>1. QED
      BY <2>1
  <2> HIDE DEF e, g
  <2>3. e[1] = seqs[1] /\ \A i \in 1 .. N : i # 1 => e[i] = e[i - 1] \o seqs[i]
    <3>1. \A i \in 1 .. N : e[i] = IF i = 1 THEN seqs[i] ELSE e[i - 1] \o seqs[i]
      BY <2>2
    <3>2. 1 \in 1 .. N
      BY <1>1, <1>11
    <3>3. QED
      BY <3>1, <3>2
  <2> DEFINE T == {i \in Nat : i + 1 <= N => e[i + 1] = f[i + 1]}
  <2>4. 0 \in T
    <3>1. 1 \in 1 .. N /\ f[1] = f[1 - 1] \o seqs[1] /\ seqs[1] \in R
      BY <1>1, <1>9, <1>11
    <3>2. 1 - 1 = 0 /\ 0 + 1 = 1
      OBVIOUS
    <3>3. QED
      BY <1>4, <1>9, <2>3, <3>1, <3>2
  <2>5. ASSUME NEW i \in Nat, i \in T PROVE i + 1 \in T
    <3> SUFFICES ASSUME (i + 1) + 1 <= N PROVE e[(i + 1) + 1] = f[(i + 1) + 1]
      OBVIOUS
    <3>1. i + 1 <= N /\ (i + 1) + 1 \in 1 .. N /\ (i + 1) + 1 # 1 /\ ((i + 1) + 1) - 1 = i + 1
      BY <1>1
    <3>2. e[i + 1] = f[i + 1]
      BY <2>5, <3>1
    <3>3. QED
      BY <1>9, <2>3, <3>1, <3>2
  <2>6. N - 1 \in T
    <3> HIDE DEF T
    <3>1. N - 1 \in Nat
      BY <1>1, <1>11
    <3>2. QED
      BY <2>4, <2>5, <3>1, SetInduction
  <2>7. e[N] = f[N]
    <3>1. (N - 1) + 1 = N /\ N <= N
      BY <1>1
    <3>2. QED
      BY <2>6, <3>1
  <2>8. QED
    BY <1>5, <1>9, <1>11, <2>7 DEF Flattens, N, R
<1>12. QED
  BY <1>10, <1>11

(* Of sequences that are not empty, the result is none, unless there were  *)
(* none.                                                                   *)
LEMMA FlatNotEmpty ==
    ASSUME NEW S, NEW seqs \in Seq(Seq(S) \ {<< >>})
    PROVE  Flat(seqs) \in Seq(S) /\ (seqs # << >> => Flat(seqs) # << >>)
<1> DEFINE N == Len(seqs)
<1>1. seqs \in Seq(Seq(S)) /\ N \in Nat /\ (seqs # << >> => N # 0)
      /\ \A i \in 1 .. N : seqs[i] \in Seq(S) /\ seqs[i] # << >>
  <2>1. N \in Nat /\ \A i \in 1 .. N : seqs[i] \in Seq(S) \ {<< >>}
    BY LenProperties, ElementOfSeq
  <2>2. seqs # << >> => N # 0
    BY EmptySeq
  <2>3. seqs \in Seq(Seq(S))
    BY SeqMonotonic
  <2>4. QED
    BY <2>1, <2>2, <2>3
<1>2. PICK f \in [0 .. N -> Seq(S)] : Flattens(f, seqs) /\ Flat(seqs) = f[N]
  BY <1>1, FlatSteps
<1>3. f[N] \in Seq(S)
  BY <1>1
<1>4. ASSUME seqs # << >> PROVE f[N] # << >>
  <2>1. N \in 1 .. N /\ N - 1 \in 0 .. N
    BY <1>1, <1>4
  <2>2. f[N - 1] \in Seq(S) /\ seqs[N] \in Seq(S) /\ seqs[N] # << >>
        /\ f[N] = f[N - 1] \o seqs[N]
    BY <1>1, <1>2, <2>1 DEF Flattens
  <2>3. QED
    BY <2>2, ConcatEqualIffEmpty
<1>5. QED
  BY <1>2, <1>3, <1>4

(* One sequence begins with the other.                                     *)
Begins(a, b) == Len(a) <= Len(b) /\ \A q \in 1 .. Len(a) : a[q] = b[q]

-----------------------------------------------------------------------------
(* A place in the input, from which on a text is looked for, and the text  *)
(* at the end of the input, a part of it, or at another place.             *)
Beyond(B, start) == start >= 0 /\ \A b \in B : start >= b
EndsWith(in, text, k) == k <= Len(in) /\ \A q \in 1 .. k : in[Len(in) - k + q] = text[q]
Stands(B, in, text, end) ==
    /\ Beyond(B, end - Len(text))
    /\ \A q \in 1 .. Len(text) : in[end - Len(text) + q] = text[q]
Simple(text) == \A k \in 2 .. Len(text) : text[k] # text[1]

(* So much of the text was matched: it is at the end, and no more of it is,*)
(* and it was nowhere before.                                              *)
Follows(B, in, text, m) ==
    /\ EndsWith(in, text, m) /\ Beyond(B, Len(in) - m)
    /\ Simple(text) =>
          /\ \A k \in 1 .. Len(text) : EndsWith(in, text, k) /\ Beyond(B, Len(in) - k) => m = k
          /\ \A end \in 1 .. Len(in) : ~Stands(B, in, text, end)
Going(text, m, c) ==
    IF text[m + 1] = c THEN m + 1 ELSE IF text[1] = c THEN 1 ELSE 0

(* Where a text stands it stands when more comes.                          *)
LEMMA StandsOn ==
    ASSUME NEW C, NEW B, NEW in \in Seq(C), NEW c \in C,
           NEW text \in Seq(C), NEW end \in 1 .. Len(in)
    PROVE  Stands(B, in, text, end) <=> Stands(B, Append(in, c), text, end)
<1>1. Len(text) \in Nat /\ Len(in) \in Nat
  OBVIOUS
<1>2. ASSUME Beyond(B, end - Len(text)), NEW q \in 1 .. Len(text)
      PROVE  Append(in, c)[end - Len(text) + q] = in[end - Len(text) + q]
  <2>1. end - Len(text) + q \in 1 .. Len(in)
    BY <1>1, <1>2 DEF Beyond
  <2>2. QED
    BY <2>1
<1>3. QED
  BY <1>2 DEF Stands

(* What was matched is matched on, by the rule of the code.                *)
LEMMA FollowsOn ==
    ASSUME NEW C, NEW B \in SUBSET Nat, NEW in \in Seq(C), NEW c \in C,
           NEW text \in Seq(C), NEW m \in Nat, m < Len(text),
           Follows(B, in, text, m)
    PROVE  /\ Going(text, m, c) \in 0 .. Len(text)
           /\ Going(text, m, c) # Len(text)
              => Follows(B, Append(in, c), text, Going(text, m, c))
           /\ Going(text, m, c) = Len(text)
              => Stands(B, Append(in, c), text, Len(in) + 1)
<1> DEFINE new == Append(in, c)
           n == Going(text, m, c)
           N == Len(in)
<1>1. /\ N \in Nat /\ Len(text) \in Nat /\ Len(new) = N + 1 /\ new[N + 1] = c
      /\ \A q \in 1 .. N : new[q] = in[q]
  OBVIOUS
<1>2. n \in 0 .. Len(text) /\ n \in {0, 1, m + 1}
  BY <1>1 DEF Going
<1>3. m <= N /\ (\A q \in 1 .. m : in[N - m + q] = text[q]) /\ Beyond(B, N - m)
  BY DEF Follows, EndsWith
<1>4. EndsWith(new, text, n)
  <2>1. CASE text[m + 1] = c
    <3>1. n = m + 1 /\ n <= N + 1
      BY <1>1, <1>3, <2>1 DEF Going
    <3>2. ASSUME NEW q \in 1 .. n PROVE new[(N + 1) - n + q] = text[q]
      <4>1. CASE q = m + 1
        <5>1. (N + 1) - n + q = N + 1
          BY <1>1, <3>1, <4>1
        <5>2. QED
          BY <1>1, <2>1, <4>1, <5>1
      <4>2. CASE q # m + 1
        <5>1. q \in 1 .. m /\ (N + 1) - n + q = N - m + q /\ N - m + q \in 1 .. N
          BY <1>1, <1>3, <3>1, <4>2
        <5>2. QED
          BY <1>1, <1>3, <5>1
      <4>3. QED
        BY <4>1, <4>2
    <3> HIDE DEF new, n
    <3>3. QED
      BY <1>1, <3>1, <3>2 DEF EndsWith
  <2>2. CASE text[m + 1] # c /\ text[1] = c
    <3>1. n = 1
      BY <2>2 DEF Going
    <3> HIDE DEF new, n
    <3>2. QED
      BY <1>1, <2>2, <3>1 DEF EndsWith
  <2>3. CASE text[m + 1] # c /\ text[1] # c
    <3>1. n = 0
      BY <2>3 DEF Going
    <3> HIDE DEF new, n
    <3>2. QED
      BY <1>1, <3>1 DEF EndsWith
  <2>4. QED
    BY <2>1, <2>2, <2>3
<1>5. Beyond(B, (N + 1) - n)
  <2> HIDE DEF n
  <2>1. \A b \in B : b \in Nat /\ N - m >= b
    BY <1>3 DEF Beyond
  <2>2. N - m >= 0 /\ (N + 1) - n \in Int /\ (N + 1) - n >= N - m
    BY <1>1, <1>2, <1>3
  <2>3. QED
    BY <1>1, <2>1, <2>2 DEF Beyond
<1>6. ASSUME Simple(text), NEW k \in 1 .. Len(text), EndsWith(new, text, k),
             Beyond(B, (N + 1) - k)
      PROVE  n = k
  <2>1. text[k] = c
    <3>1. k \in 1 .. k /\ Len(new) - k + k = N + 1
      BY <1>1
    <3>2. new[Len(new) - k + k] = text[k]
      BY <1>6, <3>1 DEF EndsWith
    <3>3. QED
      BY <1>1, <3>1, <3>2
  <2>2. CASE k = 1
    <3>1. text[m + 1] = c => m = 0
      <4>1. m # 0 => m + 1 \in 2 .. Len(text)
        BY <1>1
      <4>2. QED
        BY <1>6, <2>1, <2>2, <4>1 DEF Simple
    <3>2. QED
      BY <2>1, <2>2, <3>1 DEF Going
  <2>3. CASE k # 1
    <3>1. /\ k - 1 \in 1 .. Len(text) /\ k <= N + 1
          /\ \A q \in 1 .. k : new[(N + 1) - k + q] = text[q]
      <4>1. k <= Len(new) /\ \A q \in 1 .. k : new[Len(new) - k + q] = text[q]
        BY <1>6 DEF EndsWith
      <4> HIDE DEF new
      <4>2. QED
        BY <1>1, <2>3, <4>1
    <3>2. ASSUME NEW q \in 1 .. k - 1 PROVE in[N - (k - 1) + q] = text[q]
      <4>1. q \in 1 .. k /\ (N + 1) - k + q = N - (k - 1) + q /\ N - (k - 1) + q \in 1 .. N
        BY <1>1, <3>1
      <4>2. QED
        BY <1>1, <3>1, <4>1
    <3>3. EndsWith(in, text, k - 1)
      BY <1>1, <3>1, <3>2 DEF EndsWith
    <3>4. Beyond(B, N - (k - 1))
      <4>1. N - (k - 1) = (N + 1) - k
        BY <1>1
      <4>2. QED
        BY <1>6, <4>1
    <3>5. m = k - 1
      BY <1>6, <3>1, <3>3, <3>4 DEF Follows
    <3>6. m + 1 = k
      BY <3>5
    <3>7. QED
      BY <2>1, <3>6 DEF Going
  <2>4. QED
    BY <2>2, <2>3
<1>7. ASSUME n # Len(text) PROVE Follows(B, new, text, n)
  <2>1. ASSUME Simple(text), NEW end \in 1 .. N + 1, Stands(B, new, text, end) PROVE FALSE
    <3>1. CASE end \in 1 .. N
      <4>1. Stands(B, in, text, end)
        BY <2>1, <3>1, StandsOn
      <4>2. QED
        BY <2>1, <3>1, <4>1 DEF Follows
    <3>2. CASE end = N + 1
      <4>1. Beyond(B, (N + 1) - Len(text)) /\ EndsWith(new, text, Len(text))
        <5>1. Beyond(B, (N + 1) - Len(text))
          BY <2>1, <3>2 DEF Stands
        <5>2. Len(text) <= N + 1
          BY <1>1, <5>1 DEF Beyond
        <5>3. \A q \in 1 .. Len(text) : new[(N + 1) - Len(text) + q] = text[q]
          BY <2>1, <3>2 DEF Stands
        <5> HIDE DEF new
        <5>4. QED
          BY <1>1, <5>1, <5>2, <5>3 DEF EndsWith
      <4>2. Len(text) \in 1 .. Len(text)
        BY <1>1
      <4>3. n = Len(text)
        BY <1>6, <2>1, <4>1, <4>2
      <4>4. QED
        BY <1>7, <4>3
    <3>3. end \in 1 .. N \/ end = N + 1
      BY <1>1
    <3>4. QED
      BY <3>1, <3>2, <3>3
  <2> HIDE DEF new, n
  <2>2. QED
    BY <1>1, <1>4, <1>5, <1>6, <2>1 DEF Follows
<1>8. ASSUME n = Len(text) PROVE Stands(B, new, text, N + 1)
  <2> HIDE DEF new, n
  <2>1. QED
    BY <1>1, <1>4, <1>5, <1>8 DEF Stands, EndsWith
<1>9. QED
  BY <1>2, <1>7, <1>8

(* A text that is looked for from the end of the input on.                 *)
LEMMA FollowsFromHere ==
    ASSUME NEW C, NEW B \in SUBSET Nat, NEW in \in Seq(C), NEW text \in Seq(C),
           text # << >>, Len(in) \in B, \A b \in B : b <= Len(in)
    PROVE  Follows(B, in, text, 0)
<1>1. Len(in) \in Nat /\ Len(text) \in Nat \ {0}
  BY EmptySeq, LenProperties
<1>2. EndsWith(in, text, 0) /\ Beyond(B, Len(in) - 0)
  BY <1>1 DEF EndsWith, Beyond
<1>3. ASSUME NEW k \in 1 .. Len(text) PROVE ~Beyond(B, Len(in) - k)
  BY <1>1 DEF Beyond
<1>4. ASSUME NEW end \in 1 .. Len(in) PROVE ~Stands(B, in, text, end)
  BY <1>1 DEF Beyond, Stands
<1>5. QED
  BY <1>2, <1>3, <1>4 DEF Follows
=============================================================================
