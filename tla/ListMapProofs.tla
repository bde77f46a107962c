---------------------------- MODULE ListMapProofs ----------------------------
(***************************************************************************)
(* The pointers of lists and maps stay as they should be, and what is in   *)
(* them is found, however many items, names and chains there are.          *)
(***************************************************************************)
EXTENDS ListMap, SeqLemmas

(* Nothing swaps neighbours in the list.                                   *)
Straight == "sort" \notin config.calls /\ ~Has("LIST_FLAG_SELFORG")

(* The items on chain c, of the items H.                                   *)
On(m, H, c) == {n \in H : m.head[n] = c}

(* Item n stands at pos[n] of its chain, between the items that stand      *)
(* before and after it.                                                    *)
NodeOK(m, H, pos, n) ==
    /\ m.head[n] \in Heads
    /\ pos[n] \in 1 .. m.hits[m.head[n]]
    /\ \/ pos[n] = 1 /\ m.prev[n] = m.head[n]
       \/ /\ pos[n] > 1
          /\ m.prev[n] \in H /\ m.head[m.prev[n]] = m.head[n]
          /\ pos[m.prev[n]] = pos[n] - 1
    /\ \/ pos[n] = m.hits[m.head[n]] /\ m.next[n] = NULL
       \/ /\ m.next[n] \in H /\ m.head[m.next[n]] = m.head[n]
          /\ pos[m.next[n]] = pos[n] + 1

HeadOK(m, H, pos, c) ==
    /\ \/ m.next[c] = NULL /\ m.hits[c] = 0
       \/ m.next[c] \in H /\ m.head[m.next[c]] = c /\ pos[m.next[c]] = 1
    /\ m.head[c] = IF config.map THEN MapHead ELSE c
    /\ m.side[c] # NULL => m.side[c] \in H /\ m.head[m.side[c]] = c
    /\ m.prev[c] \in {c, NULL} \/ (m.prev[c] \in H /\ m.head[m.prev[c]] = c)
    /\ Straight /\ m.next[c] # NULL => m.prev[c] \in H /\ pos[m.prev[c]] = m.hits[c]

Apart(m, H, pos) ==
    \A n, o \in H : m.head[n] = m.head[o] /\ pos[n] = pos[o] => n = o

Shape(m, H, pos) ==
    /\ \A n \in H : NodeOK(m, H, pos, n)
    /\ \A c \in Heads : HeadOK(m, H, pos, c)
    /\ Apart(m, H, pos)
    /\ config.map => m.hits[MapHead] = Cardinality(H)

(* The items H are on the chains of m.                                     *)
Threaded(m, H) ==
    /\ m \in Memory /\ H \subseteq Nodes
    /\ \E pos \in [Nodes -> Nat] : Shape(m, H, pos)

LEMMA Basics ==
    ASSUME config \in Config
    PROVE  /\ Heads \subseteq Chains /\ Chains \intersect Nodes = {} /\ 1 \in Chains
           /\ MapHead \notin Chains /\ MapHead \notin Nodes
           /\ NULL \notin Chains /\ NULL \notin Nodes /\ NULL \notin Tags /\ NULL # MapHead
           /\ IsFiniteSet(Nodes) /\ Tags \subseteq Nat
           /\ config.max \in Nat
<1>1. config.map \in BOOLEAN
  BY DEF Config
<1>2. QED
  BY <1>1, ListAssumption DEF Heads, Config

LEMMA CountedFields ==
    ASSUME config \in Config, NEW m \in Memory, NEW c \in Chains, NEW by \in Int,
           m.head[c] = IF config.map THEN MapHead ELSE c,
           m.hits[c] + by \in Nat, config.map => m.hits[MapHead] + by \in Nat,
           NEW m2, m2 = Counted(m, c, by)
    PROVE  /\ m2 \in Memory
           /\ m2.next = m.next /\ m2.prev = m.prev /\ m2.head = m.head
           /\ m2.side = m.side /\ m2.tag = m.tag
           /\ m2.wild = m.wild
           /\ \A d \in Chains : m2.hits[d] = IF d = c THEN m.hits[d] + by ELSE m.hits[d]
           /\ m2.hits[MapHead] = IF config.map THEN m.hits[MapHead] + by
                                 ELSE m.hits[MapHead]
<1> DEFINE h1 == [m.hits EXCEPT ![c] = @ + by]
           h2 == [h1 EXCEPT ![MapHead] = @ + by]
<1>1. /\ m.hits \in [Chains \union {MapHead} -> Nat] /\ MapHead \notin Chains
      /\ c # MapHead /\ m.head[c] = MapHead <=> config.map
  BY Basics DEF Memory
<1>2. CASE config.map
  <2>1. m2 = [m EXCEPT !.hits = h2]
    BY <1>1, <1>2 DEF Counted, Memory
  <2>2. h2 \in [Chains \union {MapHead} -> Nat]
    BY <1>1, <1>2
  <2>3. /\ \A d \in Chains : h2[d] = IF d = c THEN m.hits[d] + by ELSE m.hits[d]
        /\ h2[MapHead] = m.hits[MapHead] + by
    BY <1>1
  <2> HIDE DEF h2
  <2>4. m2.hits = h2 /\ m2 \in Memory
    BY <2>1, <2>2 DEF Memory
  <2>5. /\ m2.next = m.next /\ m2.prev = m.prev /\ m2.head = m.head
        /\ m2.side = m.side /\ m2.tag = m.tag
    BY <2>1 DEF Memory
  <2>6. m2.wild = m.wild
    BY <2>1 DEF Memory
  <2>7. QED
    BY <1>2, <2>3, <2>4, <2>5, <2>6
<1>3. CASE ~config.map
  <2>1. m2 = [m EXCEPT !.hits = h1]
    BY <1>1, <1>3 DEF Counted, Memory
  <2>2. h1 \in [Chains \union {MapHead} -> Nat]
    BY <1>1, <1>3
  <2>3. /\ \A d \in Chains : h1[d] = IF d = c THEN m.hits[d] + by ELSE m.hits[d]
        /\ h1[MapHead] = m.hits[MapHead]
    BY <1>1
  <2> HIDE DEF h1
  <2>4. m2.hits = h1 /\ m2 \in Memory
    BY <2>1, <2>2 DEF Memory
  <2>5. /\ m2.next = m.next /\ m2.prev = m.prev /\ m2.head = m.head
        /\ m2.side = m.side /\ m2.tag = m.tag
    BY <2>1 DEF Memory
  <2>6. m2.wild = m.wild
    BY <2>1 DEF Memory
  <2>7. QED
    BY <1>3, <2>3, <2>4, <2>5, <2>6
<1>4. QED
  BY <1>2, <1>3

(* ListThreadNode, pointer by pointer.                                     *)
LEMMA ThreadFields ==
    ASSUME config \in Config, NEW m \in Memory, NEW at \in Chains \union Nodes,
           NEW n \in Nodes, NEW c \in Chains, c = ListGetHead(m, at), at # n,
           m.head[c] = IF config.map THEN MapHead ELSE c,
           NEW m2, m2 = ListThreadNode(m, at, n)
    PROVE  /\ m2 \in Memory
           /\ \A x \in Chains \union Nodes :
                 /\ m2.next[x] = IF x = n THEN m.next[at] ELSE IF x = at THEN n ELSE m.next[x]
                 /\ m2.prev[x] = IF x = (IF m.next[at] # NULL THEN m.next[at] ELSE c) THEN n
                                 ELSE IF x = n THEN at ELSE m.prev[x]
                 /\ m2.head[x] = IF x = n THEN c ELSE m.head[x]
           /\ m2.side = m.side /\ m2.tag = m.tag
           /\ m2.wild = m.wild
           /\ \A d \in Chains : m2.hits[d] = IF d = c THEN m.hits[d] + 1 ELSE m.hits[d]
           /\ m2.hits[MapHead] = IF config.map THEN m.hits[MapHead] + 1
                                 ELSE m.hits[MapHead]
<1> DEFINE after == IF m.next[at] # NULL THEN m.next[at] ELSE c
           next2 == [m.next EXCEPT ![at] = n, ![n] = m.next[at]]
           prev2 == [m.prev EXCEPT ![n] = at, ![after] = n]
           head2 == [m.head EXCEPT ![n] = c]
           m1 == [m EXCEPT !.next = next2, !.prev = prev2, !.head = head2]
<1>1. /\ m.next \in [Chains \union Nodes -> Nodes \union {NULL}]
      /\ m.prev \in [Chains \union Nodes -> Chains \union Nodes \union {NULL}]
      /\ m.head \in [Chains \union Nodes -> Chains \union {MapHead, NULL}]
      /\ m.hits \in [Chains \union {MapHead} -> Nat]
  BY DEF Memory
<1>2. n \notin Chains /\ c # n /\ after \in Chains \union Nodes
  BY <1>1, Basics
<1>3. /\ next2 \in [Chains \union Nodes -> Nodes \union {NULL}]
      /\ prev2 \in [Chains \union Nodes -> Chains \union Nodes \union {NULL}]
      /\ head2 \in [Chains \union Nodes -> Chains \union {MapHead, NULL}]
  BY <1>1, <1>2
<1>4. \A x \in Chains \union Nodes :
          /\ next2[x] = IF x = n THEN m.next[at] ELSE IF x = at THEN n ELSE m.next[x]
          /\ prev2[x] = IF x = after THEN n ELSE IF x = n THEN at ELSE m.prev[x]
          /\ head2[x] = IF x = n THEN c ELSE m.head[x]
  BY <1>1, <1>2
<1>5. m2 = Counted(m1, c, 1)
  BY DEF ListThreadNode, Memory
<1> HIDE DEF next2, prev2, head2
<1>6. m1 \in Memory
  BY <1>3 DEF Memory
<1>7. m1.next = next2 /\ m1.prev = prev2 /\ m1.head = head2
  BY DEF Memory
<1>8. m1.side = m.side /\ m1.tag = m.tag /\ m1.hits = m.hits
  BY DEF Memory
<1>9. m1.wild = m.wild
  BY DEF Memory
<1> HIDE DEF m1
<1>10. /\ m1.head[c] = IF config.map THEN MapHead ELSE c
       /\ m1.hits[c] + 1 \in Nat /\ m1.hits[MapHead] + 1 \in Nat
  BY <1>1, <1>2, <1>4, <1>7, <1>8
<1>11. /\ m2 \in Memory
       /\ m2.next = m1.next /\ m2.prev = m1.prev /\ m2.head = m1.head
       /\ m2.side = m1.side /\ m2.tag = m1.tag
       /\ m2.wild = m1.wild
       /\ \A d \in Chains : m2.hits[d] = IF d = c THEN m1.hits[d] + 1 ELSE m1.hits[d]
       /\ m2.hits[MapHead] = IF config.map THEN m1.hits[MapHead] + 1
                             ELSE m1.hits[MapHead]
  BY <1>5, <1>6, <1>10, CountedFields
<1>12. QED
  BY <1>4, <1>7, <1>8, <1>9, <1>11

(* What is threaded onto a chain after an item of it, or at its head, is   *)
(* on the chain; the items after it move up.                               *)
LEMMA ThreadKeeps ==
    ASSUME config \in Config, NEW m, NEW H, Threaded(m, H),
           NEW at \in Heads \union H, NEW n \in Nodes \ H,
           NEW c, c = IF at \in H THEN m.head[at] ELSE at,
           NEW m2, m2 = ListThreadNode(m, at, n)
    PROVE  /\ Threaded(m2, H \union {n})
           /\ \A x \in H : m2.head[x] = m.head[x]
           /\ m2.head[n] = c /\ c \in Heads
           /\ m2.tag = m.tag
           /\ m2.wild = m.wild
           /\ \A d \in Heads : m2.hits[d] = IF d = c THEN m.hits[d] + 1 ELSE m.hits[d]
<1> DEFINE G == H \union {n}
<1>1. /\ m \in Memory /\ H \subseteq Nodes
      /\ m.hits \in [Chains \union {MapHead} -> Nat]
      /\ m.next \in [Chains \union Nodes -> Nodes \union {NULL}]
  BY DEF Threaded, Memory
<1>2. PICK pos \in [Nodes -> Nat] : Shape(m, H, pos)
  BY DEF Threaded
<1>3. /\ Heads \subseteq Chains /\ Chains \intersect Nodes = {}
      /\ NULL \notin Chains /\ NULL \notin Nodes
  BY Basics
<1>4. /\ \A x \in H : NodeOK(m, H, pos, x)
      /\ \A d \in Heads : HeadOK(m, H, pos, d)
      /\ Apart(m, H, pos)
  BY <1>2 DEF Shape
<1>5. /\ c \in Heads /\ c = ListGetHead(m, at) /\ at # n /\ at \in Chains \union Nodes
      /\ m.head[c] = IF config.map THEN MapHead ELSE c
  BY <1>1, <1>3, <1>4 DEF NodeOK, HeadOK, ListGetHead
<1>6. /\ m2 \in Memory
      /\ \A x \in Chains \union Nodes :
            /\ m2.next[x] = IF x = n THEN m.next[at] ELSE IF x = at THEN n ELSE m.next[x]
            /\ m2.prev[x] = IF x = (IF m.next[at] # NULL THEN m.next[at] ELSE c) THEN n
                            ELSE IF x = n THEN at ELSE m.prev[x]
            /\ m2.head[x] = IF x = n THEN c ELSE m.head[x]
      /\ m2.side = m.side /\ m2.tag = m.tag
      /\ m2.wild = m.wild
      /\ \A d \in Chains : m2.hits[d] = IF d = c THEN m.hits[d] + 1 ELSE m.hits[d]
      /\ m2.hits[MapHead] = IF config.map THEN m.hits[MapHead] + 1
                            ELSE m.hits[MapHead]
  BY <1>1, <1>3, <1>5, ThreadFields
<1> DEFINE k == IF at \in H THEN pos[at] ELSE 0
           pos2 == [x \in Nodes |-> IF x = n THEN k + 1
                                    ELSE IF m.head[x] = c /\ pos[x] > k THEN pos[x] + 1
                                    ELSE pos[x]]
<1>7. /\ k \in Nat /\ k <= m.hits[c]
      /\ pos2 \in [Nodes -> Nat]
      /\ \A x \in Nodes : pos2[x] = IF x = n THEN k + 1
                                    ELSE IF m.head[x] = c /\ pos[x] > k THEN pos[x] + 1
                                    ELSE pos[x]
  BY <1>1, <1>3, <1>4, <1>5 DEF NodeOK
(* What is after the place, if anything is, stands at k + 1.               *)
<1>8. \/ m.next[at] = NULL /\ k = m.hits[c]
      \/ /\ m.next[at] \in H /\ m.head[m.next[at]] = c
         /\ pos[m.next[at]] = k + 1
  BY <1>3, <1>4, <1>5 DEF NodeOK, HeadOK
<1> HIDE DEF k, pos2
<1>9. ASSUME NEW x \in H PROVE NodeOK(m2, G, pos2, x)
  <2>1. x \in Nodes /\ x # n /\ x \notin Chains /\ NodeOK(m, H, pos, x)
        /\ m2.head[x] = m.head[x] /\ m.head[x] \in Chains
        /\ pos2[x] = (IF m.head[x] = c /\ pos[x] > k THEN pos[x] + 1 ELSE pos[x])
    BY <1>1, <1>3, <1>4, <1>6, <1>7 DEF NodeOK
  <2>2. m2.head[x] \in Heads /\ pos2[x] \in 1 .. m2.hits[m2.head[x]]
    BY <1>1, <1>3, <1>6, <1>7, <2>1 DEF NodeOK
  <2>3. \/ pos2[x] = 1 /\ m2.prev[x] = m2.head[x]
        \/ /\ pos2[x] > 1
           /\ m2.prev[x] \in G /\ m2.head[m2.prev[x]] = m2.head[x]
           /\ pos2[m2.prev[x]] = pos2[x] - 1
    <3>1. CASE x = m.next[at]
      BY <1>1, <1>3, <1>6, <1>7, <1>8, <2>1, <3>1
    <3>2. CASE x # m.next[at]
      <4>1. m2.prev[x] = m.prev[x]
        BY <1>3, <1>5, <1>6, <2>1, <3>2
      <4>2. m.head[x] = c => pos[x] # k + 1
        <5>1. m.head[x] = c => pos[x] <= m.hits[c] /\ pos[x] \in Nat /\ m.hits[c] \in Nat
          BY <1>1, <1>3, <1>5, <2>1 DEF NodeOK
        <5>2. CASE m.next[at] = NULL /\ k = m.hits[c]
          BY <1>7, <5>1, <5>2
        <5>3. CASE /\ m.next[at] \in H /\ m.head[m.next[at]] = c
                   /\ pos[m.next[at]] = k + 1
          BY <1>4, <3>2, <5>3 DEF Apart
        <5>4. QED
          BY <1>8, <5>2, <5>3
      <4>3. CASE pos[x] = 1 /\ m.prev[x] = m.head[x]
        BY <1>7, <2>1, <4>1, <4>2, <4>3
      <4>4. CASE /\ pos[x] > 1
                 /\ m.prev[x] \in H /\ m.head[m.prev[x]] = m.head[x]
                 /\ pos[m.prev[x]] = pos[x] - 1
        <5>1. m.prev[x] \in Nodes /\ m.prev[x] # n /\ m2.head[m.prev[x]] = m.head[x]
          BY <1>1, <1>6, <4>4
        <5>2. pos2[m.prev[x]] = pos2[x] - 1
          BY <1>1, <1>7, <2>1, <4>2, <4>4, <5>1
        <5>3. pos2[x] > 1
          BY <1>7, <2>1, <4>4
        <5>4. QED
          BY <2>1, <4>1, <4>4, <5>1, <5>2, <5>3
      <4>5. QED
        BY <2>1, <4>3, <4>4 DEF NodeOK
    <3>3. QED
      BY <3>1, <3>2
  <2>4. \/ pos2[x] = m2.hits[m2.head[x]] /\ m2.next[x] = NULL
        \/ /\ m2.next[x] \in G /\ m2.head[m2.next[x]] = m2.head[x]
           /\ pos2[m2.next[x]] = pos2[x] + 1
    <3>1. CASE x = at
      BY <1>1, <1>3, <1>5, <1>6, <1>7, <2>1, <3>1 DEF k
    <3>2. CASE x # at
      <4>1. m2.next[x] = m.next[x]
        BY <1>3, <1>6, <2>1, <3>2
      <4>2. m.head[x] = c => pos[x] # k
        BY <1>1, <1>3, <1>4, <1>5, <2>1, <3>2 DEF Apart, NodeOK, k
      <4>3. CASE pos[x] = m.hits[m.head[x]] /\ m.next[x] = NULL
        BY <1>1, <1>6, <1>7, <2>1, <4>1, <4>2, <4>3
      <4>4. CASE /\ m.next[x] \in H /\ m.head[m.next[x]] = m.head[x]
                 /\ pos[m.next[x]] = pos[x] + 1
        BY <1>1, <1>6, <1>7, <2>1, <4>1, <4>2, <4>4
      <4>5. QED
        BY <2>1, <4>3, <4>4 DEF NodeOK
    <3>3. QED
      BY <3>1, <3>2
  <2>5. QED
    BY <2>2, <2>3, <2>4 DEF NodeOK
<1>10. NodeOK(m2, G, pos2, n)
  <2>1. m2.head[n] = c /\ m2.next[n] = m.next[at] /\ pos2[n] = k + 1
    BY <1>6, <1>7
  <2>2. m2.prev[n] = at
    BY <1>1, <1>3, <1>5, <1>6, <1>8
  <2>3. m2.hits[c] = m.hits[c] + 1
    BY <1>3, <1>5, <1>6
  <2>4. \/ pos2[n] = 1 /\ m2.prev[n] = m2.head[n]
        \/ /\ pos2[n] > 1
           /\ m2.prev[n] \in G /\ m2.head[m2.prev[n]] = m2.head[n]
           /\ pos2[m2.prev[n]] = pos2[n] - 1
    <3>1. CASE at \in H
      BY <1>1, <1>4, <1>6, <1>7, <2>1, <2>2, <3>1 DEF k, NodeOK
    <3>2. CASE at \notin H
      <4>1. at = c /\ k = 0
        BY <3>2 DEF k
      <4>2. QED
        BY <2>1, <2>2, <4>1
    <3>3. QED
      BY <3>1, <3>2
  <2>5. \/ pos2[n] = m2.hits[m2.head[n]] /\ m2.next[n] = NULL
        \/ /\ m2.next[n] \in G /\ m2.head[m2.next[n]] = m2.head[n]
           /\ pos2[m2.next[n]] = pos2[n] + 1
    BY <1>1, <1>6, <1>7, <1>8, <2>1, <2>3
  <2>6. QED
    BY <1>1, <1>3, <1>5, <1>7, <2>1, <2>3, <2>4, <2>5 DEF NodeOK
<1>11. ASSUME NEW d \in Heads PROVE HeadOK(m2, G, pos2, d)
  <2>1. d \in Chains /\ d # n /\ HeadOK(m, H, pos, d) /\ m2.head[d] = m.head[d]
    BY <1>3, <1>4, <1>6
  <2>2. \/ m2.next[d] = NULL /\ m2.hits[d] = 0
        \/ m2.next[d] \in G /\ m2.head[m2.next[d]] = d /\ pos2[m2.next[d]] = 1
    <3>1. CASE d = at
      BY <1>1, <1>3, <1>5, <1>6, <1>7, <3>1 DEF k
    <3>2. CASE d # at
      <4>1. m2.next[d] = m.next[d]
        BY <1>6, <2>1, <3>2
      <4>2. d = c => m.next[d] \in H /\ k >= 1
        BY <1>1, <1>3, <1>4, <1>5, <3>2 DEF k, NodeOK, HeadOK
      <4>3. CASE m.next[d] = NULL /\ m.hits[d] = 0
        BY <1>1, <1>3, <1>6, <2>1, <4>1, <4>2, <4>3
      <4>4. CASE m.next[d] \in H /\ m.head[m.next[d]] = d /\ pos[m.next[d]] = 1
        BY <1>1, <1>6, <1>7, <2>1, <4>1, <4>2, <4>4
      <4>5. QED
        BY <2>1, <4>3, <4>4 DEF HeadOK
    <3>3. QED
      BY <3>1, <3>2
  <2>3. m2.side[d] # NULL => m2.side[d] \in G /\ m2.head[m2.side[d]] = d
    BY <1>1, <1>6, <2>1 DEF HeadOK
  <2>4. m2.prev[d] = IF d = c /\ m.next[at] = NULL THEN n ELSE m.prev[d]
    BY <1>1, <1>3, <1>6, <1>8, <2>1
  <2>5. m2.prev[d] \in {d, NULL} \/ (m2.prev[d] \in G /\ m2.head[m2.prev[d]] = d)
    <3>1. CASE d = c /\ m.next[at] = NULL
      BY <1>6, <2>4, <3>1
    <3>2. CASE ~(d = c /\ m.next[at] = NULL)
      BY <1>1, <1>6, <2>1, <2>4, <3>2 DEF HeadOK
    <3>3. QED
      BY <3>1, <3>2
  <2>6. Straight /\ m2.next[d] # NULL => m2.prev[d] \in G /\ pos2[m2.prev[d]] = m2.hits[d]
    <3> SUFFICES ASSUME Straight, m2.next[d] # NULL
                 PROVE  m2.prev[d] \in G /\ pos2[m2.prev[d]] = m2.hits[d]
      OBVIOUS
    <3>1. CASE d = c /\ m.next[at] = NULL
      BY <1>1, <1>3, <1>5, <1>6, <1>7, <1>8, <2>4, <3>1
    <3>2. CASE d = c /\ m.next[at] # NULL
      <4>1. m.next[d] # NULL
        <5>1. m.hits[d] # 0
          BY <1>1, <1>3, <1>4, <1>8, <3>2 DEF NodeOK
        <5>2. QED
          BY <1>1, <1>3, <2>1, <5>1 DEF HeadOK
      <4>2. m.prev[d] \in H /\ pos[m.prev[d]] = m.hits[d]
        BY <2>1, <4>1 DEF HeadOK
      <4>3. m.head[m.prev[d]] = d /\ m.prev[d] \in Nodes /\ m.prev[d] # n
        BY <1>1, <1>3, <2>1, <4>2 DEF HeadOK
      <4>4. pos[m.next[at]] <= m.hits[c]
        BY <1>1, <1>3, <1>4, <1>5, <1>8, <3>2 DEF NodeOK
      <4>5. m.hits[d] > k /\ m2.hits[d] = m.hits[d] + 1
        BY <1>1, <1>3, <1>5, <1>6, <1>7, <1>8, <3>2, <4>4
      <4>6. QED
        BY <1>7, <2>4, <3>2, <4>2, <4>3, <4>5
    <3>3. CASE d # c
      <4>1. at # d
        BY <1>1, <1>3, <1>5, <3>3
      <4>2. m.next[d] # NULL
        BY <1>6, <2>1, <4>1
      <4>3. m.prev[d] \in H /\ pos[m.prev[d]] = m.hits[d]
        BY <2>1, <4>2 DEF HeadOK
      <4>4. m.head[m.prev[d]] = d /\ m.prev[d] \in Nodes /\ m.prev[d] # n
        BY <1>1, <1>3, <2>1, <4>3 DEF HeadOK
      <4>5. QED
        BY <1>6, <1>7, <2>1, <2>4, <3>3, <4>3, <4>4
    <3>4. QED
      BY <3>1, <3>2, <3>3
  <2>7. m2.head[d] = IF config.map THEN MapHead ELSE d
    BY <2>1 DEF HeadOK
  <2>8. QED
    BY <2>2, <2>3, <2>5, <2>6, <2>7 DEF HeadOK
<1>12. Apart(m2, G, pos2)
  <2> SUFFICES ASSUME NEW x \in G, NEW y \in G, m2.head[x] = m2.head[y], pos2[x] = pos2[y]
               PROVE  x = y
    BY DEF Apart
  <2>1. \A z \in H : /\ z \in Nodes /\ z # n /\ m2.head[z] = m.head[z]
                     /\ pos2[z] = IF m.head[z] = c /\ pos[z] > k THEN pos[z] + 1 ELSE pos[z]
    BY <1>1, <1>6, <1>7
  <2>2. pos2[n] = k + 1 /\ m2.head[n] = c
    BY <1>6, <1>7
  <2>3. \A z \in H : pos[z] \in Nat
    BY <1>1
  <2>4. \A z \in H : ~(m2.head[z] = c /\ pos2[z] = k + 1)
    BY <1>7, <2>1, <2>3
  <2>5. CASE x \in H /\ y \in H
    <3>1. pos[x] = pos[y] /\ m.head[x] = m.head[y]
      BY <1>7, <2>1, <2>3, <2>5
    <3>2. QED
      BY <1>4, <2>5, <3>1 DEF Apart
  <2>6. QED
    BY <2>2, <2>4, <2>5
<1>13. config.map => m2.hits[MapHead] = Cardinality(G)
  <2>1. IsFiniteSet(H)
    BY <1>1, Basics, FS_Subset
  <2>2. Cardinality(G) = Cardinality(H) + 1
    BY <2>1, FS_AddElement
  <2>3. QED
    BY <1>2, <1>6, <2>2 DEF Shape
<1>14. Shape(m2, G, pos2)
  BY <1>9, <1>10, <1>11, <1>12, <1>13 DEF Shape
<1>15. Threaded(m2, G)
  BY <1>1, <1>6, <1>7, <1>14 DEF Threaded
<1>16. QED
  BY <1>1, <1>3, <1>5, <1>6, <1>15

(* ListUnThreadNode, pointer by pointer.                                   *)
LEMMA UnThreadFields ==
    ASSUME config \in Config, NEW m \in Memory, NEW n \in Nodes,
           NEW c \in Chains, c = m.head[n], NEW at \in Chains \union Nodes, at = m.prev[n],
           NEW next, next = m.next[n], next # n, at # n,
           m.head[c] = IF config.map THEN MapHead ELSE c,
           m.hits[c] > 0, config.map => m.hits[MapHead] > 0,
           NEW m2, m2 = ListUnThreadNode(m, n)
    PROVE  /\ m2 \in Memory
           /\ \A x \in Chains \union Nodes :
                 /\ m2.next[x] = IF x = n THEN NULL ELSE IF x = at THEN next ELSE m.next[x]
                 /\ m2.prev[x] = IF x = n THEN NULL
                                 ELSE IF x = next THEN at
                                 ELSE IF x = c /\ m.prev[c] = n
                                      THEN IF at = c THEN NULL ELSE at
                                 ELSE m.prev[x]
                 /\ m2.head[x] = IF x = n THEN NULL ELSE m.head[x]
           /\ \A d \in Chains : m2.side[d] = IF d = c /\ m.side[d] = n THEN NULL ELSE m.side[d]
           /\ m2.tag = m.tag
           /\ m2.wild = m.wild
           /\ \A d \in Chains : m2.hits[d] = IF d = c THEN m.hits[d] - 1 ELSE m.hits[d]
           /\ m2.hits[MapHead] = IF config.map THEN m.hits[MapHead] - 1
                                 ELSE m.hits[MapHead]
<1> DEFINE last == IF m.prev[c] # n THEN m.prev[c] ELSE IF at = c THEN NULL ELSE at
           next2 == [m.next EXCEPT ![at] = next, ![n] = NULL]
           prev1 == [m.prev EXCEPT ![c] = last]
           prev2 == [(IF next # NULL THEN [prev1 EXCEPT ![next] = at] ELSE prev1)
                        EXCEPT ![n] = NULL]
           head2 == [m.head EXCEPT ![n] = NULL]
           side2 == [m.side EXCEPT ![c] = IF @ = n THEN NULL ELSE @]
           m1 == [m EXCEPT !.next = next2, !.prev = prev2, !.head = head2, !.side = side2]
<1>1. /\ m.next \in [Chains \union Nodes -> Nodes \union {NULL}]
      /\ m.prev \in [Chains \union Nodes -> Chains \union Nodes \union {NULL}]
      /\ m.head \in [Chains \union Nodes -> Chains \union {MapHead, NULL}]
      /\ m.side \in [Chains -> Nodes \union {NULL}]
      /\ m.hits \in [Chains \union {MapHead} -> Nat]
  BY DEF Memory
<1>2. /\ n \notin Chains /\ c # n /\ next \in Nodes \union {NULL} /\ NULL \notin Chains \union Nodes
      /\ c # next /\ Chains \intersect Nodes = {}
  BY <1>1, Basics
<1>3. /\ next2 \in [Chains \union Nodes -> Nodes \union {NULL}]
      /\ prev2 \in [Chains \union Nodes -> Chains \union Nodes \union {NULL}]
      /\ head2 \in [Chains \union Nodes -> Chains \union {MapHead, NULL}]
      /\ side2 \in [Chains -> Nodes \union {NULL}]
  BY <1>1, <1>2
<1>4. \A x \in Chains \union Nodes :
          /\ next2[x] = IF x = n THEN NULL ELSE IF x = at THEN next ELSE m.next[x]
          /\ prev2[x] = IF x = n THEN NULL
                        ELSE IF x = next THEN at
                        ELSE IF x = c /\ m.prev[c] = n
                             THEN IF at = c THEN NULL ELSE at
                        ELSE m.prev[x]
          /\ head2[x] = IF x = n THEN NULL ELSE m.head[x]
  BY <1>1, <1>2
<1>5. \A d \in Chains : side2[d] = IF d = c /\ m.side[d] = n THEN NULL ELSE m.side[d]
  BY <1>1
<1>6. m2 = Counted(m1, c, -1)
  <2> DEFINE gone == [m EXCEPT !.next[at] = next, !.prev[c] = last,
                               !.side[c] = IF @ = n THEN NULL ELSE @]
             joined == IF next # NULL THEN [gone EXCEPT !.prev[next] = at] ELSE gone
             off == [joined EXCEPT !.head[n] = NULL, !.prev[n] = NULL, !.next[n] = NULL]
  <2>1. m2 = Counted(off, c, -1)
    BY DEF ListUnThreadNode
  <2>2. gone = [m EXCEPT !.next = [m.next EXCEPT ![at] = next], !.prev = prev1,
                         !.side = side2]
    BY DEF Memory
  <2>3. CASE next # NULL
    <3>1. joined = [m EXCEPT !.next = [m.next EXCEPT ![at] = next],
                             !.prev = [prev1 EXCEPT ![next] = at], !.side = side2]
      <4> HIDE DEF prev1, side2
      <4>1. QED
        BY <2>2, <2>3 DEF Memory
    <3>2. off = m1
      <4> HIDE DEF side2, joined
      <4>1. QED
        BY <2>3, <3>1 DEF Memory
    <3>3. QED
      BY <2>1, <3>2
  <2>4. CASE next = NULL
    <3>1. joined = [m EXCEPT !.next = [m.next EXCEPT ![at] = next], !.prev = prev1,
                             !.side = side2]
      BY <2>2, <2>4
    <3>2. off = m1
      <4> HIDE DEF side2, joined
      <4>1. QED
        BY <2>4, <3>1 DEF Memory
    <3>3. QED
      BY <2>1, <3>2
  <2>5. QED
    BY <2>3, <2>4
<1> HIDE DEF next2, prev2, head2, side2
<1>7. m1 \in Memory
  BY <1>3 DEF Memory
<1>8. m1.next = next2 /\ m1.prev = prev2 /\ m1.head = head2 /\ m1.side = side2
  BY DEF Memory
<1>9. m1.tag = m.tag /\ m1.hits = m.hits
  BY DEF Memory
<1>10. m1.wild = m.wild
  BY DEF Memory
<1> HIDE DEF m1
<1>11. /\ m1.head[c] = IF config.map THEN MapHead ELSE c
       /\ m1.hits[c] + (-1) \in Nat
       /\ config.map => m1.hits[MapHead] + (-1) \in Nat
  BY <1>1, <1>2, <1>4, <1>8, <1>9
<1>12. /\ m2 \in Memory
       /\ m2.next = m1.next /\ m2.prev = m1.prev /\ m2.head = m1.head
       /\ m2.side = m1.side /\ m2.tag = m1.tag
       /\ m2.wild = m1.wild
       /\ \A d \in Chains : m2.hits[d] = IF d = c THEN m1.hits[d] + (-1) ELSE m1.hits[d]
       /\ m2.hits[MapHead] = IF config.map THEN m1.hits[MapHead] + (-1)
                             ELSE m1.hits[MapHead]
  BY <1>6, <1>7, <1>11, CountedFields
<1>13. \A i \in Nat : i + (-1) = i - 1
  OBVIOUS
<1>14. QED
  BY <1>1, <1>4, <1>5, <1>8, <1>9, <1>10, <1>12, <1>13

(* What is taken off a chain leaves the others on it; those after it move  *)
(* down.                                                                   *)
LEMMA UnThreadKeeps ==
    ASSUME config \in Config, NEW m, NEW H, Threaded(m, H), NEW n \in H,
           NEW m2, m2 = ListUnThreadNode(m, n)
    PROVE  /\ Threaded(m2, H \ {n})
           /\ \A x \in H \ {n} : m2.head[x] = m.head[x]
           /\ m2.tag = m.tag
           /\ m2.wild = m.wild
           /\ m.head[n] \in Heads /\ m.hits[m.head[n]] > 0
           /\ \A d \in Heads : m2.hits[d] = IF d = m.head[n] THEN m.hits[d] - 1
                                            ELSE m.hits[d]
<1> DEFINE G == H \ {n}
           c == m.head[n]
           at == m.prev[n]
           next == m.next[n]
<1>1. /\ m \in Memory /\ H \subseteq Nodes
      /\ m.hits \in [Chains \union {MapHead} -> Nat]
      /\ m.next \in [Chains \union Nodes -> Nodes \union {NULL}]
  BY DEF Threaded, Memory
<1>2. PICK pos \in [Nodes -> Nat] : Shape(m, H, pos)
  BY DEF Threaded
<1>3. /\ Heads \subseteq Chains /\ Chains \intersect Nodes = {}
      /\ NULL \notin Chains /\ NULL \notin Nodes
  BY Basics
<1>4. /\ \A x \in H : NodeOK(m, H, pos, x)
      /\ \A d \in Heads : HeadOK(m, H, pos, d)
      /\ Apart(m, H, pos)
  BY <1>2 DEF Shape
<1> DEFINE k == pos[n]
<1>5. /\ c \in Heads /\ k \in 1 .. m.hits[c] /\ m.hits[c] \in Nat
      /\ \/ k = 1 /\ at = c
         \/ k > 1 /\ at \in H /\ m.head[at] = c /\ pos[at] = k - 1
      /\ \/ k = m.hits[c] /\ next = NULL
         \/ next \in H /\ m.head[next] = c /\ pos[next] = k + 1
  BY <1>1, <1>3, <1>4 DEF NodeOK
<1>6. at # n /\ next # n /\ m.hits[c] > 0 /\ at \in Chains \union Nodes
  BY <1>1, <1>3, <1>5
<1>7. m.head[c] = IF config.map THEN MapHead ELSE c
  BY <1>4, <1>5 DEF HeadOK
<1>8. /\ IsFiniteSet(H) /\ IsFiniteSet(G)
      /\ Cardinality(G) \in Nat /\ Cardinality(H) = Cardinality(G) + 1
  <2>1. IsFiniteSet(H)
    BY <1>1, Basics, FS_Subset
  <2>2. Cardinality(G) = Cardinality(H) - 1 /\ IsFiniteSet(G)
    BY <2>1, FS_RemoveElement
  <2>3. Cardinality(G) \in Nat /\ Cardinality(H) \in Nat
    BY <2>1, <2>2, FS_CardinalityType
  <2>4. QED
    BY <2>1, <2>2, <2>3
<1>9. config.map => m.hits[MapHead] = Cardinality(H)
  BY <1>2 DEF Shape
<1>10. config.map => m.hits[MapHead] > 0
  BY <1>8, <1>9
<1> HIDE DEF c, at, next, k
<1>11. c = m.head[n] /\ at = m.prev[n] /\ next = m.next[n]
  BY DEF c, at, next
<1>12. /\ m2 \in Memory
       /\ \A x \in Chains \union Nodes :
             /\ m2.next[x] = IF x = n THEN NULL ELSE IF x = at THEN next ELSE m.next[x]
             /\ m2.prev[x] = IF x = n THEN NULL
                             ELSE IF x = next THEN at
                             ELSE IF x = c /\ m.prev[c] = n
                                  THEN IF at = c THEN NULL ELSE at
                             ELSE m.prev[x]
             /\ m2.head[x] = IF x = n THEN NULL ELSE m.head[x]
       /\ \A d \in Chains : m2.side[d] = IF d = c /\ m.side[d] = n THEN NULL ELSE m.side[d]
       /\ m2.tag = m.tag
       /\ m2.wild = m.wild
       /\ \A d \in Chains : m2.hits[d] = IF d = c THEN m.hits[d] - 1 ELSE m.hits[d]
       /\ m2.hits[MapHead] = IF config.map THEN m.hits[MapHead] - 1
                             ELSE m.hits[MapHead]
  <2>1. m \in Memory /\ n \in Nodes /\ c \in Chains
    BY <1>1, <1>3, <1>5
  <2>2. QED
    BY <1>6, <1>7, <1>10, <1>11, <2>1, UnThreadFields
<1> DEFINE pos2 == [x \in Nodes |-> IF m.head[x] = c /\ pos[x] > k THEN pos[x] - 1
                                    ELSE pos[x]]
<1>13. /\ k \in Nat /\ k > 0 /\ k = pos[n]
       /\ pos2 \in [Nodes -> Nat]
       /\ \A x \in Nodes : pos2[x] = IF m.head[x] = c /\ pos[x] > k THEN pos[x] - 1
                                     ELSE pos[x]
  BY <1>1, <1>5 DEF k
<1> HIDE DEF pos2
<1>14. \A x \in G : m.head[x] = c => pos[x] # k
  BY <1>4, <1>11, <1>13 DEF Apart
<1>15. ASSUME NEW x \in G PROVE NodeOK(m2, G, pos2, x)
  <2>1. x \in Nodes /\ x # n /\ x \in H /\ x \notin Chains /\ NodeOK(m, H, pos, x)
        /\ m2.head[x] = m.head[x] /\ m.head[x] \in Chains /\ m.head[x] \in Heads
        /\ pos2[x] = (IF m.head[x] = c /\ pos[x] > k THEN pos[x] - 1 ELSE pos[x])
        /\ (m.head[x] = c => pos[x] # k) /\ pos[x] \in Nat
    BY <1>1, <1>3, <1>4, <1>12, <1>13, <1>14 DEF NodeOK
  <2>2. pos2[x] \in 1 .. m2.hits[m2.head[x]]
    <3>1. pos[x] \in 1 .. m.hits[m.head[x]] /\ m.hits[m.head[x]] \in Nat
      BY <1>1, <2>1 DEF NodeOK
    <3>2. QED
      BY <1>5, <1>12, <1>13, <2>1, <3>1
  <2>3. \/ pos2[x] = 1 /\ m2.prev[x] = m2.head[x]
        \/ /\ pos2[x] > 1
           /\ m2.prev[x] \in G /\ m2.head[m2.prev[x]] = m2.head[x]
           /\ pos2[m2.prev[x]] = pos2[x] - 1
    <3>1. CASE x = next
      <4>1. m.head[x] = c /\ pos[x] = k + 1 /\ m2.prev[x] = at /\ pos2[x] = k
        BY <1>3, <1>5, <1>12, <1>13, <2>1, <3>1
      <4>2. CASE k = 1 /\ at = c
        BY <2>1, <4>1, <4>2
      <4>3. CASE k > 1 /\ at \in H /\ m.head[at] = c /\ pos[at] = k - 1
        <5>1. at \in G /\ at \in Nodes /\ m2.head[at] = c /\ pos2[at] = k - 1
          BY <1>1, <1>6, <1>12, <1>13, <4>3
        <5>2. QED
          BY <2>1, <4>1, <4>3, <5>1
      <4>4. QED
        BY <1>5, <4>2, <4>3
    <3>2. CASE x # next
      <4>1. m2.prev[x] = m.prev[x]
        BY <1>3, <1>5, <1>12, <2>1, <3>2
      <4>2. m.head[x] = c => pos[x] # k + 1
        <5>1. CASE next = NULL /\ k = m.hits[c]
          BY <1>5, <1>13, <2>1, <5>1 DEF NodeOK
        <5>2. CASE next \in H /\ m.head[next] = c /\ pos[next] = k + 1
          BY <1>4, <2>1, <3>2, <5>2 DEF Apart
        <5>3. QED
          BY <1>5, <5>1, <5>2
      <4>3. CASE pos[x] = 1 /\ m.prev[x] = m.head[x]
        BY <1>13, <2>1, <4>1, <4>3
      <4>4. CASE /\ pos[x] > 1
                 /\ m.prev[x] \in H /\ m.head[m.prev[x]] = m.head[x]
                 /\ pos[m.prev[x]] = pos[x] - 1
        <5>1. m.prev[x] # n
          BY <1>11, <1>13, <2>1, <4>2, <4>4
        <5>2. m.prev[x] \in G /\ m.prev[x] \in Nodes /\ m2.head[m.prev[x]] = m.head[x]
          BY <1>1, <1>12, <4>4, <5>1
        <5>3. pos2[m.prev[x]] = IF m.head[x] = c /\ pos[x] - 1 > k THEN pos[x] - 1 - 1
                                ELSE pos[x] - 1
          BY <1>13, <4>4, <5>2
        <5>4. pos2[m.prev[x]] = pos2[x] - 1 /\ pos2[x] > 1
          BY <1>13, <2>1, <4>2, <4>4, <5>3
        <5>5. QED
          BY <2>1, <4>1, <4>4, <5>2, <5>4
      <4>5. QED
        BY <2>1, <4>3, <4>4 DEF NodeOK
    <3>3. QED
      BY <3>1, <3>2
  <2>4. \/ pos2[x] = m2.hits[m2.head[x]] /\ m2.next[x] = NULL
        \/ /\ m2.next[x] \in G /\ m2.head[m2.next[x]] = m2.head[x]
           /\ pos2[m2.next[x]] = pos2[x] + 1
    <3>1. CASE x = at
      <4>1. m.head[x] = c /\ pos[x] = k - 1 /\ m2.next[x] = next /\ pos2[x] = k - 1
        BY <1>3, <1>5, <1>12, <1>13, <2>1, <3>1
      <4>2. CASE k = m.hits[c] /\ next = NULL
        BY <1>3, <1>5, <1>12, <2>1, <4>1, <4>2
      <4>3. CASE next \in H /\ m.head[next] = c /\ pos[next] = k + 1
        <5>1. next \in G /\ next \in Nodes /\ m2.head[next] = c /\ pos2[next] = k
          BY <1>1, <1>6, <1>12, <1>13, <4>3
        <5>2. QED
          BY <1>13, <2>1, <4>1, <4>3, <5>1
      <4>4. QED
        BY <1>5, <4>2, <4>3
    <3>2. CASE x # at
      <4>1. m2.next[x] = m.next[x]
        BY <1>3, <1>12, <2>1, <3>2
      <4>2. m.head[x] = c => pos[x] + 1 # k
        BY <1>4, <1>5, <1>13, <2>1, <3>2 DEF Apart, NodeOK
      <4>3. CASE pos[x] = m.hits[m.head[x]] /\ m.next[x] = NULL
        <5>1. m.head[x] = c => pos[x] > k
          BY <1>5, <1>13, <2>1, <4>3
        <5>2. QED
          BY <1>5, <1>12, <1>13, <2>1, <4>1, <4>3, <5>1
      <4>4. CASE /\ m.next[x] \in H /\ m.head[m.next[x]] = m.head[x]
                 /\ pos[m.next[x]] = pos[x] + 1
        <5>1. m.next[x] # n
          BY <1>11, <1>13, <2>1, <4>2, <4>4
        <5>2. m.next[x] \in G /\ m.next[x] \in Nodes /\ m2.head[m.next[x]] = m.head[x]
          BY <1>1, <1>12, <4>4, <5>1
        <5>3. pos2[m.next[x]] = pos2[x] + 1
          BY <1>13, <2>1, <4>2, <4>4, <5>2
        <5>4. QED
          BY <2>1, <4>1, <5>2, <5>3
      <4>5. QED
        BY <2>1, <4>3, <4>4 DEF NodeOK
    <3>3. QED
      BY <3>1, <3>2
  <2>5. QED
    BY <2>1, <2>2, <2>3, <2>4 DEF NodeOK
<1>16. ASSUME NEW d \in Heads PROVE HeadOK(m2, G, pos2, d)
  <2>1. d \in Chains /\ d # n /\ HeadOK(m, H, pos, d) /\ m2.head[d] = m.head[d]
        /\ d # next
    BY <1>1, <1>3, <1>4, <1>5, <1>12
  <2>2. \/ m2.next[d] = NULL /\ m2.hits[d] = 0
        \/ m2.next[d] \in G /\ m2.head[m2.next[d]] = d /\ pos2[m2.next[d]] = 1
    <3>1. CASE d = at
      <4>1. d = c /\ k = 1 /\ m2.next[d] = next
        BY <1>1, <1>3, <1>5, <1>12, <2>1, <3>1
      <4>2. CASE k = m.hits[c] /\ next = NULL
        BY <1>12, <2>1, <4>1, <4>2
      <4>3. CASE next \in H /\ m.head[next] = c /\ pos[next] = k + 1
        BY <1>1, <1>6, <1>12, <1>13, <4>1, <4>3
      <4>4. QED
        BY <1>5, <4>2, <4>3
    <3>2. CASE d # at
      <4>1. m2.next[d] = m.next[d]
        BY <1>12, <2>1, <3>2
      <4>2. CASE m.next[d] = NULL /\ m.hits[d] = 0
        BY <1>5, <1>12, <2>1, <4>1, <4>2
      <4>3. CASE m.next[d] \in H /\ m.head[m.next[d]] = d /\ pos[m.next[d]] = 1
        <5>1. d = c => k # 1
          BY <1>5, <3>2
        <5>2. m.next[d] # n
          BY <1>11, <1>13, <4>3, <5>1
        <5>3. m.next[d] \in G /\ m.next[d] \in Nodes /\ m2.head[m.next[d]] = d
          BY <1>1, <1>12, <4>3, <5>2
        <5>4. pos2[m.next[d]] = 1
          BY <1>13, <4>3, <5>3
        <5>5. QED
          BY <4>1, <5>3, <5>4
      <4>4. QED
        BY <2>1, <4>2, <4>3 DEF HeadOK
    <3>3. QED
      BY <3>1, <3>2
  <2>3. m2.side[d] # NULL => m2.side[d] \in G /\ m2.head[m2.side[d]] = d
    <3>1. CASE d = c /\ m.side[d] = n
      BY <1>12, <2>1, <3>1
    <3>2. CASE ~(d = c /\ m.side[d] = n)
      <4>1. m2.side[d] = m.side[d]
        BY <1>12, <2>1, <3>2
      <4>2. m.side[d] # NULL => m.side[d] \in G /\ m.head[m.side[d]] = d
        BY <1>11, <2>1, <3>2 DEF HeadOK
      <4>3. QED
        BY <1>1, <1>12, <4>1, <4>2
    <3>3. QED
      BY <3>1, <3>2
  <2>4. m2.prev[d] = IF d = c /\ m.prev[d] = n THEN IF at = c THEN NULL ELSE at
                     ELSE m.prev[d]
    BY <1>12, <2>1
  <2>5. m2.prev[d] \in {d, NULL} \/ (m2.prev[d] \in G /\ m2.head[m2.prev[d]] = d)
    <3>1. CASE d = c /\ m.prev[d] = n
      BY <1>1, <1>5, <1>6, <1>12, <2>4, <3>1
    <3>2. CASE ~(d = c /\ m.prev[d] = n)
      <4>1. m2.prev[d] = m.prev[d]
        BY <2>4, <3>2
      <4>2. m.prev[d] \in {d, NULL} \/ (m.prev[d] \in G /\ m.head[m.prev[d]] = d)
        BY <1>11, <2>1, <3>2 DEF HeadOK
      <4>3. QED
        BY <1>1, <1>12, <4>1, <4>2
    <3>3. QED
      BY <3>1, <3>2
  <2>6. Straight /\ m2.next[d] # NULL => m2.prev[d] \in G /\ pos2[m2.prev[d]] = m2.hits[d]
    <3> SUFFICES ASSUME Straight, m2.next[d] # NULL
                 PROVE  m2.prev[d] \in G /\ pos2[m2.prev[d]] = m2.hits[d]
      OBVIOUS
    <3>1. m.next[d] # NULL
      <4>1. d = at => m.next[d] = n
        <5> SUFFICES ASSUME d = at PROVE m.next[d] = n
          OBVIOUS
        <5>1. d = c /\ k = 1
          BY <1>1, <1>3, <1>5, <2>1
        <5>2. m.next[d] \in H /\ m.head[m.next[d]] = c /\ pos[m.next[d]] = 1
          BY <1>5, <2>1, <5>1 DEF HeadOK
        <5>3. QED
          BY <1>4, <1>11, <1>13, <5>1, <5>2 DEF Apart
      <4>2. n # NULL
        BY <1>1, <1>3
      <4>3. QED
        BY <1>12, <2>1, <4>1, <4>2
    <3>2. m.prev[d] \in H /\ pos[m.prev[d]] = m.hits[d] /\ m.head[m.prev[d]] = d
      BY <1>1, <1>3, <2>1, <3>1 DEF HeadOK
    <3>3. CASE m.prev[d] = n
      <4>1. d = c /\ k = m.hits[c] /\ next = NULL
        <5>1. d = c /\ k = m.hits[c]
          BY <1>11, <1>13, <3>2, <3>3
        <5>2. ~(next \in H /\ m.head[next] = c /\ pos[next] = k + 1)
          BY <1>4, <1>5, <5>1 DEF NodeOK
        <5>3. QED
          BY <1>5, <5>1, <5>2
      <4>2. at # c
        <5> SUFFICES ASSUME at = c PROVE FALSE
          OBVIOUS
        <5>1. m2.next[d] = NULL
          BY <1>12, <2>1, <4>1
        <5>2. QED
          BY <5>1
      <4>3. m2.prev[d] = at
        BY <2>4, <3>3, <4>1, <4>2
      <4>4. at \in H /\ m.head[at] = c /\ pos[at] = k - 1 /\ at \in Nodes /\ at # n
        BY <1>1, <1>5, <1>6, <4>2
      <4>5. pos2[at] = k - 1 /\ m2.hits[d] = m.hits[c] - 1
        BY <1>12, <1>13, <2>1, <4>1, <4>4
      <4>6. QED
        BY <4>1, <4>3, <4>4, <4>5
    <3>4. CASE m.prev[d] # n
      <4>1. m2.prev[d] = m.prev[d] /\ m.prev[d] \in G /\ m.prev[d] \in Nodes
        BY <1>1, <2>4, <3>2, <3>4
      <4>2. d = c => m.hits[d] > k
        <5>1. d = c => m.hits[d] # k
          BY <1>14, <3>2, <4>1
        <5>2. QED
          BY <1>5, <1>13, <5>1
      <4>3. QED
        BY <1>12, <1>13, <2>1, <3>2, <4>1, <4>2
    <3>5. QED
      BY <3>3, <3>4
  <2>7. m2.head[d] = IF config.map THEN MapHead ELSE d
    BY <2>1 DEF HeadOK
  <2>8. QED
    BY <2>2, <2>3, <2>5, <2>6, <2>7 DEF HeadOK
<1>17. Apart(m2, G, pos2)
  <2> SUFFICES ASSUME NEW x \in G, NEW y \in G, m2.head[x] = m2.head[y], pos2[x] = pos2[y]
               PROVE  x = y
    BY DEF Apart
  <2>1. \A z \in G : /\ z \in Nodes /\ z # n /\ m2.head[z] = m.head[z]
                     /\ pos2[z] = IF m.head[z] = c /\ pos[z] > k THEN pos[z] - 1 ELSE pos[z]
                     /\ pos[z] \in Nat
    BY <1>1, <1>12, <1>13
  <2>2. pos[x] = pos[y] /\ m.head[x] = m.head[y]
    BY <1>13, <1>14, <2>1
  <2>3. QED
    BY <1>4, <2>2 DEF Apart
<1>18. config.map => m2.hits[MapHead] = Cardinality(G)
  BY <1>8, <1>9, <1>12
<1>19. Shape(m2, G, pos2)
  BY <1>15, <1>16, <1>17, <1>18 DEF Shape
<1>20. Threaded(m2, G)
  BY <1>1, <1>12, <1>13, <1>19 DEF Threaded
<1>21. QED
  BY <1>1, <1>3, <1>5, <1>6, <1>11, <1>12, <1>20

(* ListSwapItems, pointer by pointer.                                      *)
LEMMA SwapFields ==
    ASSUME config \in Config, NEW m \in Memory, NEW a \in Nodes, NEW b \in Nodes,
           NEW c \in Chains, c = m.head[a],
           NEW at \in Chains \union Nodes, at = m.prev[a],
           NEW next, next = m.next[b],
           a # b, at # a, at # b, next # a, next # b,
           NEW m2, m2 = ListSwapItems(m, a, b)
    PROVE  /\ m2 \in Memory
           /\ \A x \in Chains \union Nodes :
                 /\ m2.next[x] = IF x = b THEN a ELSE IF x = a THEN next
                                 ELSE IF x = at THEN b ELSE m.next[x]
                 /\ m2.prev[x] = IF x = a THEN b ELSE IF x = b THEN at
                                 ELSE IF x = next THEN a
                                 ELSE IF x = c /\ m.prev[c] = a THEN b
                                 ELSE m.prev[x]
           /\ m2.head = m.head /\ m2.side = m.side /\ m2.tag = m.tag /\ m2.hits = m.hits
           /\ m2.wild = m.wild
<1> DEFINE prev1 == IF m.prev[c] = a THEN [m.prev EXCEPT ![c] = b] ELSE m.prev
           prev2 == [prev1 EXCEPT ![a] = b, ![b] = at]
           prev3 == IF next # NULL THEN [prev2 EXCEPT ![next] = a] ELSE prev2
           next2 == [m.next EXCEPT ![at] = b, ![a] = next, ![b] = a]
           m1 == [m EXCEPT !.next = next2, !.prev = prev3]
<1>1. /\ m.next \in [Chains \union Nodes -> Nodes \union {NULL}]
      /\ m.prev \in [Chains \union Nodes -> Chains \union Nodes \union {NULL}]
  BY DEF Memory
<1>2. /\ a \notin Chains /\ c # a /\ c # b /\ next \in Nodes \union {NULL}
      /\ NULL \notin Chains \union Nodes /\ c # next /\ Chains \intersect Nodes = {}
  BY <1>1, Basics
<1>3. /\ next2 \in [Chains \union Nodes -> Nodes \union {NULL}]
      /\ prev3 \in [Chains \union Nodes -> Chains \union Nodes \union {NULL}]
  BY <1>1, <1>2
<1>4. \A x \in Chains \union Nodes :
          /\ next2[x] = IF x = b THEN a ELSE IF x = a THEN next
                        ELSE IF x = at THEN b ELSE m.next[x]
          /\ prev3[x] = IF x = a THEN b ELSE IF x = b THEN at
                        ELSE IF x = next THEN a
                        ELSE IF x = c /\ m.prev[c] = a THEN b
                        ELSE m.prev[x]
  BY <1>1, <1>2
<1>5. m2 = m1
  <2> DEFINE tail == IF m.prev[c] = a THEN [m EXCEPT !.prev[c] = b] ELSE m
             swapped == [tail EXCEPT !.next[at] = b, !.prev[a] = b, !.next[a] = next,
                                     !.prev[b] = at, !.next[b] = a]
  <2>1. m2 = IF next # NULL THEN [swapped EXCEPT !.prev[next] = a] ELSE swapped
    BY <1>2 DEF ListSwapItems, ListGetHead
  <2>2. tail = [m EXCEPT !.prev = prev1]
    <3>1. CASE m.prev[c] = a
      BY <3>1
    <3>2. CASE m.prev[c] # a
      BY <3>2 DEF Memory
    <3>3. QED
      BY <3>1, <3>2
  <2>3. swapped = [m EXCEPT !.next = next2, !.prev = prev2]
    <3> HIDE DEF prev1, tail
    <3>1. QED
      BY <2>2 DEF Memory
  <2>4. CASE next # NULL
    <3> HIDE DEF prev2, swapped, next2
    <3>1. m2 = [swapped EXCEPT !.prev[next] = a]
      BY <2>1, <2>4
    <3>2. prev3 = [prev2 EXCEPT ![next] = a]
      BY <2>4
    <3>3. QED
      BY <2>3, <3>1, <3>2 DEF Memory
  <2>5. CASE next = NULL
    <3> HIDE DEF prev2, swapped
    <3>1. QED
      BY <2>1, <2>3, <2>5
  <2>6. QED
    BY <2>4, <2>5
<1> HIDE DEF next2, prev3
<1>6. m1 \in Memory
  BY <1>3 DEF Memory
<1>7. m1.next = next2 /\ m1.prev = prev3
  BY DEF Memory
<1>8. m1.head = m.head /\ m1.side = m.side /\ m1.tag = m.tag /\ m1.hits = m.hits
  BY DEF Memory
<1>9. m1.wild = m.wild
  BY DEF Memory
<1> HIDE DEF m1
<1>10. QED
  BY <1>4, <1>5, <1>6, <1>7, <1>8, <1>9

(* Neighbours that are swapped stay on their chain, but the head may not   *)
(* know the last item then.                                                *)
LEMMA SwapKeeps ==
    ASSUME config \in Config, NEW m, NEW H, Threaded(m, H), ~Straight,
           NEW a \in H, NEW b \in H, m.next[a] = b,
           NEW m2, m2 = ListSwapItems(m, a, b)
    PROVE  /\ Threaded(m2, H)
           /\ m2.head = m.head /\ m2.tag = m.tag /\ m2.hits = m.hits
           /\ m2.wild = m.wild
           /\ m2.next[b] = a
<1> DEFINE c == m.head[a]
           at == m.prev[a]
           next == m.next[b]
<1>1. /\ m \in Memory /\ H \subseteq Nodes
      /\ m.hits \in [Chains \union {MapHead} -> Nat]
      /\ m.next \in [Chains \union Nodes -> Nodes \union {NULL}]
  BY DEF Threaded, Memory
<1>2. PICK pos \in [Nodes -> Nat] : Shape(m, H, pos)
  BY DEF Threaded
<1>3. /\ Heads \subseteq Chains /\ Chains \intersect Nodes = {}
      /\ NULL \notin Chains /\ NULL \notin Nodes
  BY Basics
<1>4. /\ \A x \in H : NodeOK(m, H, pos, x)
      /\ \A d \in Heads : HeadOK(m, H, pos, d)
      /\ Apart(m, H, pos)
  BY <1>2 DEF Shape
<1> DEFINE k == pos[a]
<1>5. /\ c \in Heads /\ k \in 1 .. m.hits[c] /\ m.hits[c] \in Nat
      /\ m.head[b] = c /\ pos[b] = k + 1
      /\ \/ k = 1 /\ at = c
         \/ k > 1 /\ at \in H /\ m.head[at] = c /\ pos[at] = k - 1
      /\ \/ k + 1 = m.hits[c] /\ next = NULL
         \/ next \in H /\ m.head[next] = c /\ pos[next] = k + 2
  <2>1. /\ c \in Heads /\ k \in 1 .. m.hits[c] /\ m.hits[c] \in Nat
        /\ \/ k = 1 /\ at = c
           \/ k > 1 /\ at \in H /\ m.head[at] = c /\ pos[at] = k - 1
    BY <1>1, <1>3, <1>4 DEF NodeOK
  <2>2. m.head[b] = c /\ pos[b] = k + 1
    BY <1>1, <1>3, <1>4 DEF NodeOK
  <2>3. \/ k + 1 = m.hits[c] /\ next = NULL
        \/ next \in H /\ m.head[next] = c /\ pos[next] = pos[b] + 1
    BY <1>4, <2>2 DEF NodeOK
  <2>4. QED
    BY <2>1, <2>2, <2>3
<1>6. /\ a # b /\ at # a /\ at # b /\ next # a /\ next # b
      /\ at \in Chains \union Nodes /\ c \in Chains /\ a \in Nodes /\ b \in Nodes
  BY <1>1, <1>3, <1>5
<1> HIDE DEF c, at, next, k
<1>7. c = m.head[a] /\ at = m.prev[a] /\ next = m.next[b] /\ k = pos[a]
  BY DEF c, at, next, k
<1>8. /\ m2 \in Memory
      /\ \A x \in Chains \union Nodes :
            /\ m2.next[x] = IF x = b THEN a ELSE IF x = a THEN next
                            ELSE IF x = at THEN b ELSE m.next[x]
            /\ m2.prev[x] = IF x = a THEN b ELSE IF x = b THEN at
                            ELSE IF x = next THEN a
                            ELSE IF x = c /\ m.prev[c] = a THEN b
                            ELSE m.prev[x]
      /\ m2.head = m.head /\ m2.side = m.side /\ m2.tag = m.tag /\ m2.hits = m.hits
      /\ m2.wild = m.wild
  BY <1>1, <1>6, <1>7, SwapFields
<1> DEFINE pos2 == [pos EXCEPT ![a] = k + 1, ![b] = k]
<1>9. /\ k \in Nat /\ k > 0
      /\ pos2 \in [Nodes -> Nat]
      /\ \A x \in Nodes : pos2[x] = IF x = b THEN k ELSE IF x = a THEN k + 1 ELSE pos[x]
  BY <1>5, <1>6
<1> HIDE DEF pos2
<1>10. \A x \in H : m.head[x] = c => /\ pos[x] = k => x = a
                                     /\ pos[x] = k + 1 => x = b
  BY <1>4, <1>5, <1>7 DEF Apart
<1>11. ASSUME NEW x \in H PROVE NodeOK(m2, H, pos2, x)
  <2>1. /\ x \in Nodes /\ x \notin Chains /\ NodeOK(m, H, pos, x) /\ m.head[x] \in Heads
        /\ pos[x] \in Nat
    BY <1>1, <1>3, <1>4 DEF NodeOK
  <2>2. m2.head[x] \in Heads /\ pos2[x] \in 1 .. m2.hits[m2.head[x]]
    <3>1. CASE x = a
      BY <1>1, <1>3, <1>4, <1>5, <1>6, <1>8, <1>9, <2>1, <3>1 DEF NodeOK
    <3>2. CASE x = b
      BY <1>1, <1>3, <1>5, <1>8, <1>9, <2>1, <3>2
    <3>3. CASE x # a /\ x # b
      BY <1>8, <1>9, <2>1, <3>3 DEF NodeOK
    <3>4. QED
      BY <3>1, <3>2, <3>3
  <2>3. \/ pos2[x] = 1 /\ m2.prev[x] = m2.head[x]
        \/ /\ pos2[x] > 1
           /\ m2.prev[x] \in H /\ m2.head[m2.prev[x]] = m2.head[x]
           /\ pos2[m2.prev[x]] = pos2[x] - 1
    <3>1. CASE x = a
      <4>1. m2.prev[x] = b
        BY <1>8, <2>1, <3>1
      <4>2. QED
        BY <1>5, <1>6, <1>7, <1>8, <1>9, <3>1, <4>1
    <3>2. CASE x = b
      <4>1. m2.prev[x] = at /\ pos2[x] = k /\ m2.head[x] = c
        BY <1>5, <1>6, <1>8, <1>9, <2>1, <3>2
      <4>2. CASE k = 1 /\ at = c
        BY <4>1, <4>2
      <4>3. CASE k > 1 /\ at \in H /\ m.head[at] = c /\ pos[at] = k - 1
        BY <1>1, <1>6, <1>8, <1>9, <4>1, <4>3
      <4>4. QED
        BY <1>5, <4>2, <4>3
    <3>3. CASE x = next
      <4>1. m2.prev[x] = a /\ pos2[x] = k + 2 /\ m2.head[x] = c
        BY <1>3, <1>5, <1>6, <1>8, <1>9, <2>1, <3>3
      <4>2. m2.head[a] = c /\ pos2[a] = k + 1
        BY <1>6, <1>7, <1>8, <1>9
      <4>3. QED
        BY <1>9, <4>1, <4>2
    <3>4. CASE x # a /\ x # b /\ x # next
      <4>1. m2.prev[x] = m.prev[x] /\ pos2[x] = pos[x] /\ m2.head[x] = m.head[x]
        BY <1>3, <1>6, <1>8, <1>9, <2>1, <3>4
      <4>2. m.prev[x] \in H /\ m.head[m.prev[x]] = m.head[x] /\ pos[m.prev[x]] = pos[x] - 1
            => m.prev[x] # a /\ m.prev[x] # b
        <5> SUFFICES ASSUME m.prev[x] \in H, m.head[m.prev[x]] = m.head[x],
                            pos[m.prev[x]] = pos[x] - 1
                     PROVE  m.prev[x] # a /\ m.prev[x] # b
          OBVIOUS
        <5>1. m.prev[x] = a => m.head[x] = c /\ pos[x] = k + 1
          BY <1>7, <1>9, <2>1
        <5>2. m.prev[x] = b => m.head[x] = c /\ pos[x] = k + 2
          BY <1>5, <1>9, <2>1
        <5>3. m.head[x] = c => pos[x] # k + 2
          <6>1. CASE k + 1 = m.hits[c] /\ next = NULL
            BY <1>5, <1>9, <2>1, <6>1 DEF NodeOK
          <6>2. CASE next \in H /\ m.head[next] = c /\ pos[next] = k + 2
            BY <1>4, <3>4, <6>2 DEF Apart
          <6>3. QED
            BY <1>5, <6>1, <6>2
        <5>4. QED
          BY <1>10, <3>4, <5>1, <5>2, <5>3
      <4>3. QED
        BY <1>1, <1>8, <1>9, <2>1, <4>1, <4>2 DEF NodeOK
    <3>5. QED
      BY <3>1, <3>2, <3>3, <3>4
  <2>4. \/ pos2[x] = m2.hits[m2.head[x]] /\ m2.next[x] = NULL
        \/ /\ m2.next[x] \in H /\ m2.head[m2.next[x]] = m2.head[x]
           /\ pos2[m2.next[x]] = pos2[x] + 1
    <3>1. CASE x = b
      BY <1>5, <1>6, <1>7, <1>8, <1>9, <2>1, <3>1
    <3>2. CASE x = a
      <4>1. m2.next[x] = next /\ pos2[x] = k + 1 /\ m2.head[x] = c
        BY <1>6, <1>7, <1>8, <1>9, <2>1, <3>2
      <4>2. CASE k + 1 = m.hits[c] /\ next = NULL
        BY <1>8, <4>1, <4>2
      <4>3. CASE next \in H /\ m.head[next] = c /\ pos[next] = k + 2
        <5>1. next \in Nodes /\ m2.head[next] = c /\ pos2[next] = k + 2
          BY <1>1, <1>6, <1>8, <1>9, <4>3
        <5>2. QED
          BY <1>9, <4>1, <4>3, <5>1
      <4>4. QED
        BY <1>5, <4>2, <4>3
    <3>3. CASE x = at
      <4>1. m2.next[x] = b /\ pos2[x] = k - 1 /\ m2.head[x] = c
        BY <1>3, <1>5, <1>6, <1>8, <1>9, <2>1, <3>3
      <4>2. QED
        BY <1>5, <1>6, <1>8, <1>9, <4>1
    <3>4. CASE x # a /\ x # b /\ x # at
      <4>1. m2.next[x] = m.next[x] /\ pos2[x] = pos[x] /\ m2.head[x] = m.head[x]
        BY <1>8, <1>9, <2>1, <3>4
      <4>2. m.next[x] \in H /\ m.head[m.next[x]] = m.head[x] /\ pos[m.next[x]] = pos[x] + 1
            => m.next[x] # a /\ m.next[x] # b
        <5> SUFFICES ASSUME m.next[x] \in H, m.head[m.next[x]] = m.head[x],
                            pos[m.next[x]] = pos[x] + 1
                     PROVE  m.next[x] # a /\ m.next[x] # b
          OBVIOUS
        <5>1. m.next[x] = b => m.head[x] = c /\ pos[x] = k
          BY <1>5, <1>9, <2>1
        <5>2. m.next[x] = a => m.head[x] = c /\ pos[x] = k - 1
          BY <1>7, <1>9, <2>1
        <5>3. m.head[x] = c => pos[x] # k - 1
          <6>1. CASE k = 1 /\ at = c
            BY <2>1, <6>1 DEF NodeOK
          <6>2. CASE k > 1 /\ at \in H /\ m.head[at] = c /\ pos[at] = k - 1
            BY <1>4, <3>4, <6>2 DEF Apart
          <6>3. QED
            BY <1>5, <6>1, <6>2
        <5>4. QED
          BY <1>10, <3>4, <5>1, <5>2, <5>3
      <4>3. QED
        BY <1>1, <1>8, <1>9, <2>1, <4>1, <4>2 DEF NodeOK
    <3>5. QED
      BY <3>1, <3>2, <3>3, <3>4
  <2>5. QED
    BY <2>2, <2>3, <2>4 DEF NodeOK
<1>12. ASSUME NEW d \in Heads PROVE HeadOK(m2, H, pos2, d)
  <2>1. d \in Chains /\ d # a /\ d # b /\ HeadOK(m, H, pos, d) /\ d # next
    BY <1>1, <1>3, <1>4, <1>5, <1>6
  <2>2. \/ m2.next[d] = NULL /\ m2.hits[d] = 0
        \/ m2.next[d] \in H /\ m2.head[m2.next[d]] = d /\ pos2[m2.next[d]] = 1
    <3>1. CASE d = at
      <4>1. k = 1 /\ d = c
        BY <1>1, <1>3, <1>5, <2>1, <3>1
      <4>2. QED
        BY <1>5, <1>6, <1>8, <1>9, <2>1, <3>1, <4>1
    <3>2. CASE d # at
      <4>1. m2.next[d] = m.next[d]
        BY <1>8, <2>1, <3>2
      <4>2. CASE m.next[d] = NULL /\ m.hits[d] = 0
        BY <1>8, <4>1, <4>2
      <4>3. CASE m.next[d] \in H /\ m.head[m.next[d]] = d /\ pos[m.next[d]] = 1
        <5>1. d = c => k # 1
          BY <1>5, <3>2
        <5>2. m.next[d] # a /\ m.next[d] # b
          BY <1>5, <1>7, <1>9, <4>3, <5>1
        <5>3. QED
          BY <1>1, <1>8, <1>9, <4>1, <4>3, <5>2
      <4>4. QED
        BY <2>1, <4>2, <4>3 DEF HeadOK
    <3>3. QED
      BY <3>1, <3>2
  <2>3. m2.side[d] # NULL => m2.side[d] \in H /\ m2.head[m2.side[d]] = d
    BY <1>8, <2>1 DEF HeadOK
  <2>4. m2.prev[d] \in {d, NULL} \/ (m2.prev[d] \in H /\ m2.head[m2.prev[d]] = d)
    <3>1. m2.prev[d] = IF d = c /\ m.prev[c] = a THEN b ELSE m.prev[d]
      BY <1>8, <2>1
    <3>2. QED
      BY <1>5, <1>8, <2>1, <3>1 DEF HeadOK
  <2>5. m2.head[d] = IF config.map THEN MapHead ELSE d
    BY <1>8, <2>1 DEF HeadOK
  <2>6. QED
    BY <2>2, <2>3, <2>4, <2>5 DEF HeadOK
<1>13. Apart(m2, H, pos2)
  <2> SUFFICES ASSUME NEW x \in H, NEW y \in H, m2.head[x] = m2.head[y], pos2[x] = pos2[y]
               PROVE  x = y
    BY DEF Apart
  <2>1. \A z \in H : /\ z \in Nodes /\ m2.head[z] = m.head[z]
                     /\ pos2[z] = IF z = b THEN k ELSE IF z = a THEN k + 1 ELSE pos[z]
    BY <1>1, <1>8, <1>9
  <2>2. m.head[x] = m.head[y] /\ m.head[a] = c /\ m.head[b] = c
    BY <1>5, <1>7, <2>1
  <2>3. CASE x \notin {a, b} /\ y \notin {a, b}
    BY <1>4, <2>1, <2>2, <2>3 DEF Apart
  <2>4. CASE x \in {a, b} /\ y \in {a, b}
    BY <1>9, <2>1, <2>4
  <2>5. CASE x \in {a, b} /\ y \notin {a, b}
    BY <1>10, <2>1, <2>2, <2>5
  <2>6. CASE x \notin {a, b} /\ y \in {a, b}
    BY <1>10, <2>1, <2>2, <2>6
  <2>7. QED
    BY <2>3, <2>4, <2>5, <2>6
<1>14. config.map => m2.hits[MapHead] = Cardinality(H)
  BY <1>2, <1>8 DEF Shape
<1>15. Shape(m2, H, pos2)
  BY <1>11, <1>12, <1>13, <1>14 DEF Shape
<1>16. Threaded(m2, H)
  BY <1>1, <1>8, <1>9, <1>15 DEF Threaded
<1>17. QED
  BY <1>6, <1>8, <1>16
------------------------------------------------------------------------------
(* From a node of a chain one walks over the rest of its chain, in order,  *)
(* and stops at the end: the chain is never longer than the nodes are many. *)
Along(m, H, pos, c, k, w) ==
    /\ w \in Seq(H) /\ Len(w) = m.hits[c] - k + 1
    /\ \A i \in 1..Len(w) : m.head[w[i]] = c /\ pos[w[i]] = k + i - 1

LEMMA WalkSteps ==
    ASSUME config \in Config, NEW m \in Memory, NEW n \in Nodes \union {NULL},
           NEW N, N = Cardinality(Nodes)
    PROVE  \E e \in [0..N -> Seq(Nodes)] :
              /\ N \in Nat /\ Walk(m, n) = e[N]
              /\ e[0] = IF n = NULL THEN << >> ELSE <<n>>
              /\ \A k \in 1..N :
                    e[k] = IF e[k - 1] = << >> \/ m.next[e[k - 1][Len(e[k - 1])]] = NULL
                           THEN e[k - 1]
                           ELSE Append(e[k - 1], m.next[e[k - 1][Len(e[k - 1])]])
<1> DEFINE Q == Seq(Nodes)
           More(p) == IF p = << >> \/ m.next[p[Len(p)]] = NULL THEN p
                      ELSE Append(p, m.next[p[Len(p)]])
           base == IF n = NULL THEN << >> ELSE <<n>>
           step == [p \in (1..N) \X Q |-> More(p[2])]
<1>1. N \in Nat /\ m.next \in [Chains \union Nodes -> Nodes \union {NULL}]
  BY Basics, FS_CardinalityType DEF Memory
<1>2. \A p \in Q : More(p) \in Q
  <2> SUFFICES ASSUME NEW p \in Q PROVE More(p) \in Q
    OBVIOUS
  <2>1. CASE p = << >>
    BY <2>1
  <2>2. CASE p # << >>
    <3>1. Len(p) \in 1..Len(p)
      BY <2>2, EmptySeq, LenProperties
    <3>2. p[Len(p)] \in Nodes
      BY <3>1, ElementOfSeq
    <3>3. m.next[p[Len(p)]] \in Nodes \union {NULL}
      BY <1>1, <3>2
    <3>4. QED
      BY <3>3
  <2>3. QED
    BY <2>1, <2>2
<1>3. base \in Q
  <2>1. n # NULL => <<n>> \in Seq(Nodes)
    OBVIOUS
  <2>2. << >> \in Seq(Nodes)
    OBVIOUS
  <2>3. QED
    BY <2>1, <2>2
<1> HIDE DEF Q, More, base
<1>4. /\ step \in [(1..N) \X Q -> Q]
      /\ \A i \in 1..N, q \in Q : step[<<i, q>>] = More(q)
  BY <1>2
<1> HIDE DEF step
<1>5. PICK f \in [0..N -> Q] : Stepwise(f, N, base, step)
  <2>1. N \in Nat /\ base \in Q /\ step \in [(1..N) \X Q -> Q]
    BY <1>1, <1>3, <1>4
  <2>2. QED
    BY <2>1, StepsExist
<1> DEFINE F(g) == g = [k \in 0..N |-> IF k = 0 THEN base ELSE More(g[k - 1])]
           e == CHOOSE g : F(g)
<1>6. F(f)
  <2>1. \A i \in 1..N : f[i - 1] \in Q
    BY <1>1
  <2>2. \A i \in 1..N : step[<<i, f[i - 1]>>] = More(f[i - 1])
    BY <1>4, <2>1
  <2>3. \A i \in 0..N : i = 0 \/ i \in 1..N
    BY <1>1
  <2>4. QED
    BY <1>5, <2>2, <2>3 DEF Stepwise
<1>7. F(e)
  BY <1>6
<1>8. Walk(m, n) = e[N]
  BY DEF Walk, Last, base, More
<1> HIDE DEF e
<1>9. e[0] = base
  BY <1>1, <1>7
<1>10. \A k \in 1..N : e[k] = More(e[k - 1])
  <2>1. \A k \in 1..N : k \in 0..N /\ k # 0
    BY <1>1
  <2>2. QED
    BY <1>7, <2>1
<1>11. e = f
  <2> DEFINE T == {k \in Nat : k <= N => e[k] = f[k]}
  <2>1. 0 \in T
    BY <1>5, <1>9 DEF Stepwise
  <2>2. ASSUME NEW k \in Nat, k \in T PROVE k + 1 \in T
    <3> SUFFICES ASSUME k + 1 <= N PROVE e[k + 1] = f[k + 1]
      OBVIOUS
    <3>1. k + 1 \in 1..N /\ (k + 1) - 1 = k /\ k <= N /\ k \in 0..N /\ k + 1 \in 0..N /\ k + 1 # 0
      BY <1>1
    <3>2. e[k + 1] = More(e[k])
      BY <1>10, <3>1
    <3>3. f[k + 1] = More(f[k])
      BY <1>6, <3>1
    <3>4. QED
      BY <2>2, <3>1, <3>2, <3>3
  <2>3. Nat \subseteq T
    <3> HIDE DEF T
    <3>1. QED
      BY <2>1, <2>2, SetInduction
  <2>4. \A k \in 0..N : e[k] = f[k]
    BY <1>1, <2>3
  <2>5. e = [k \in 0..N |-> e[k]]
    BY <1>7
  <2>6. QED
    BY <2>4, <2>5
<1>12. e \in [0..N -> Seq(Nodes)]
  BY <1>11 DEF Q
<1>13. QED
  BY <1>1, <1>8, <1>9, <1>10, <1>12 DEF More, base

LEMMA WalkOfNone ==
    ASSUME config \in Config, NEW m \in Memory
    PROVE  Walk(m, NULL) = << >>
<1> SUFFICES ASSUME NEW n \in Nodes \union {NULL} PROVE n = NULL => Walk(m, n) = << >>
  OBVIOUS
<1> DEFINE N == Cardinality(Nodes)
<1>1. PICK e \in [0..N -> Seq(Nodes)] :
              /\ N \in Nat /\ Walk(m, n) = e[N]
              /\ e[0] = IF n = NULL THEN << >> ELSE <<n>>
              /\ \A k \in 1..N :
                    e[k] = IF e[k - 1] = << >> \/ m.next[e[k - 1][Len(e[k - 1])]] = NULL
                           THEN e[k - 1]
                           ELSE Append(e[k - 1], m.next[e[k - 1][Len(e[k - 1])]])
  BY WalkSteps
<1> HIDE DEF N
<1> DEFINE T == {k \in Nat : k <= N => (n = NULL => e[k] = << >>)}
<1>2. 0 \in T
  BY <1>1
<1>3. ASSUME NEW k \in Nat, k \in T PROVE k + 1 \in T
  <2> SUFFICES ASSUME k + 1 <= N, n = NULL PROVE e[k + 1] = << >>
    OBVIOUS
  <2>1. k + 1 \in 1..N /\ (k + 1) - 1 = k /\ k <= N
    BY <1>1
  <2>2. e[k] = << >>
    BY <1>3, <2>1
  <2>3. QED
    BY <1>1, <2>1, <2>2
<1>4. Nat \subseteq T
  <2> HIDE DEF T
  <2>1. QED
    BY <1>2, <1>3, SetInduction
<1>5. QED
  BY <1>1, <1>4

LEMMA WalkIsAlong ==
    ASSUME config \in Config, NEW m \in Memory, NEW H \in SUBSET Nodes,
           NEW pos \in [Nodes -> Nat], Shape(m, H, pos), NEW n \in H
    PROVE  Along(m, H, pos, m.head[n], pos[n], Walk(m, n))
<1> DEFINE N == Cardinality(Nodes)
           c == m.head[n]
           L == m.hits[c] - pos[n] + 1
           Upto(k) == IF k + 1 <= L THEN k + 1 ELSE L
           Good(p, k) == /\ p \in Seq(H) /\ Len(p) = Upto(k)
                         /\ \A i \in 1..Len(p) : m.head[p[i]] = c /\ pos[p[i]] = pos[n] + i - 1
<1>1. PICK e \in [0..N -> Seq(Nodes)] :
              /\ N \in Nat /\ Walk(m, n) = e[N]
              /\ e[0] = IF n = NULL THEN << >> ELSE <<n>>
              /\ \A k \in 1..N :
                    e[k] = IF e[k - 1] = << >> \/ m.next[e[k - 1][Len(e[k - 1])]] = NULL
                           THEN e[k - 1]
                           ELSE Append(e[k - 1], m.next[e[k - 1][Len(e[k - 1])]])
  <2>1. n \in Nodes \union {NULL}
    OBVIOUS
  <2>2. QED
    BY <2>1, WalkSteps
<1>2. /\ \A x \in H : NodeOK(m, H, pos, x)
      /\ Apart(m, H, pos) /\ NULL \notin Nodes /\ Heads \subseteq Chains
  BY Basics DEF Shape
<1>3. c \in Heads /\ m.hits[c] \in Nat /\ pos[n] \in 1..m.hits[c] /\ L \in Nat /\ L >= 1
  <2>1. m.hits \in [Chains \union {MapHead} -> Nat]
    BY DEF Memory
  <2>2. QED
    BY <1>2, <2>1 DEF NodeOK
<1> HIDE DEF N, c
<1> DEFINE T == {k \in Nat : k <= N => Good(e[k], k)}
<1>4. 0 \in T
  <2>1. e[0] = <<n>>
    BY <1>1, <1>2
  <2>2. <<n>> \in Seq(H) /\ Len(<<n>>) = 1 /\ <<n>>[1] = n
    OBVIOUS
  <2>3. Good(e[0], 0)
    BY <1>3, <2>1, <2>2 DEF c
  <2>4. QED
    BY <2>3
<1>5. ASSUME NEW k \in Nat, k \in T PROVE k + 1 \in T
  <2> SUFFICES ASSUME k + 1 <= N PROVE Good(e[k + 1], k + 1)
    OBVIOUS
  <2>1. k + 1 \in 1..N /\ (k + 1) - 1 = k /\ k <= N
    BY <1>1
  <2> DEFINE p == e[k]
             last == p[Len(p)]
  <2>2. Good(p, k)
    BY <1>5, <2>1
  <2>3. Len(p) \in Nat /\ Len(p) >= 1 /\ p # << >> /\ Len(p) \in 1..Len(p)
    BY <1>3, <2>2
  <2>4. last \in H /\ m.head[last] = c /\ pos[last] = pos[n] + Len(p) - 1
    BY <2>2, <2>3
  <2>5. e[k + 1] = IF m.next[last] = NULL THEN p ELSE Append(p, m.next[last])
    BY <1>1, <2>1, <2>3
  <2> HIDE DEF p, last
  <2>6. CASE m.next[last] = NULL
    <3>1. pos[last] = m.hits[c]
      BY <1>2, <2>4, <2>6 DEF NodeOK
    <3>2. Len(p) = L
      BY <1>3, <2>3, <2>4, <3>1
    <3>3. Upto(k + 1) = L
      BY <1>3, <2>2, <3>2
    <3>4. QED
      BY <2>2, <2>5, <2>6, <3>2, <3>3
  <2>7. CASE m.next[last] # NULL
    <3> DEFINE o == m.next[last]
    <3>1. o \in H /\ m.head[o] = c /\ pos[o] = pos[last] + 1
      BY <1>2, <2>4, <2>7 DEF NodeOK
    <3>2. pos[o] <= m.hits[c]
      BY <1>2, <3>1 DEF NodeOK
    <3>3. Len(p) + 1 <= L
      BY <1>3, <2>3, <2>4, <3>1, <3>2
    <3>4. Len(p) = k + 1 /\ Upto(k + 1) = k + 2
      BY <1>3, <2>2, <3>3
    <3> DEFINE q == Append(p, o)
    <3>5. /\ q \in Seq(H) /\ Len(q) = Len(p) + 1
          /\ \A i \in 1 .. Len(p) + 1 : q[i] = IF i = Len(p) + 1 THEN o ELSE p[i]
      BY <2>2, <3>1
    <3> HIDE DEF q, o
    <3>6. \A i \in 1..Len(q) : m.head[q[i]] = c /\ pos[q[i]] = pos[n] + i - 1
      <4> SUFFICES ASSUME NEW i \in 1..Len(q)
                   PROVE  m.head[q[i]] = c /\ pos[q[i]] = pos[n] + i - 1
        OBVIOUS
      <4>1. CASE i = Len(p) + 1
        <5>1. q[i] = o
          BY <2>3, <3>5, <4>1
        <5>2. pos[o] = pos[n] + Len(p) - 1 + 1 /\ m.head[o] = c
          BY <2>4, <3>1
        <5>3. pos[n] + Len(p) - 1 + 1 = pos[n] + i - 1
          BY <1>3, <2>3, <4>1
        <5>4. QED
          BY <5>1, <5>2, <5>3
      <4>2. CASE i # Len(p) + 1
        <5>1. i \in 1..Len(p) /\ q[i] = p[i]
          BY <2>3, <3>5, <4>2
        <5>2. QED
          BY <2>2, <5>1
      <4>3. QED
        BY <4>1, <4>2
    <3>7. Len(q) = Upto(k + 1)
      BY <3>4, <3>5
    <3>8. e[k + 1] = q
      BY <2>5, <2>7 DEF q, o
    <3>9. QED
      BY <3>5, <3>6, <3>7, <3>8
  <2>8. QED
    BY <2>6, <2>7
<1>6. Nat \subseteq T
  <2> HIDE DEF T
  <2>1. QED
    BY <1>4, <1>5, SetInduction
<1> DEFINE w == Walk(m, n)
<1>7. Good(w, N)
  <2>1. N \in T /\ w = e[N]
    <3> HIDE DEF T
    <3>1. QED
      BY <1>1, <1>6
  <2>2. N <= N
    BY <1>1
  <2> HIDE DEF Good, w
  <2>3. QED
    BY <2>1, <2>2
<1>8. Upto(N) = L
  <2> SUFFICES ASSUME N + 1 <= L PROVE FALSE
    BY <1>1, <1>3
  <2>1. Len(w) = N + 1
    BY <1>7
  <2>2. w \in [1 .. N + 1 -> Nodes]
    <3>1. w \in Seq(H)
      BY <1>7
    <3>2. w \in [1 .. Len(w) -> H]
      BY <3>1, LenProperties
    <3>3. QED
      BY <2>1, <3>2
  <2>3. IsFiniteSet(1 .. N + 1) /\ Cardinality(1 .. N + 1) = N + 1 /\ IsFiniteSet(Nodes)
    <3>1. N + 1 \in Int /\ 1 \in Int /\ N + 1 >= 1
      BY <1>1
    <3>2. IsFiniteSet(1 .. N + 1) /\ Cardinality(1 .. N + 1) = N + 1
      BY <1>1, <3>1, FS_Interval
    <3>3. QED
      BY <3>2, Basics
  <2>4. Cardinality(Nodes) < Cardinality(1 .. N + 1)
    BY <1>1, <2>3 DEF N
  <2>5. \E x, y \in 1 .. N + 1 : x # y /\ w[x] = w[y]
    BY <2>2, <2>3, <2>4, FS_PigeonHole
  <2>6. QED
    BY <1>3, <1>7, <2>1, <2>5
<1>9. QED
  BY <1>7, <1>8 DEF Along, c

(* The items of a chain, from its head on.                                 *)
Listed(m, H, pos, c, w) ==
    /\ w \in Seq(H) /\ Len(w) = m.hits[c] /\ Len(w) \in Nat /\ DOMAIN w = 1..Len(w)
    /\ \A i \in 1..Len(w) : w[i] \in H /\ m.head[w[i]] = c /\ pos[w[i]] = i
    /\ \A x \in H : m.head[x] = c => pos[x] \in 1..Len(w) /\ w[pos[x]] = x
    /\ m.next[c] = NULL <=> Len(w) = 0

LEMMA ItemsFacts ==
    ASSUME config \in Config, NEW m \in Memory, NEW H \in SUBSET Nodes,
           NEW pos \in [Nodes -> Nat], Shape(m, H, pos), NEW c \in Heads
    PROVE  Listed(m, H, pos, c, Items(m, c))
<1> DEFINE w == Items(m, c)
<1>0. w = Items(m, c)
  OBVIOUS
<1> HIDE DEF w
<1>1. /\ \A x \in H : NodeOK(m, H, pos, x)
      /\ Apart(m, H, pos) /\ HeadOK(m, H, pos, c)
      /\ NULL \notin Nodes /\ Heads \subseteq Chains
      /\ m.hits \in [Chains \union {MapHead} -> Nat] /\ m.hits[c] \in Nat
  BY Basics DEF Shape, Memory
<1>2. /\ w \in Seq(H) /\ Len(w) = m.hits[c]
      /\ \A i \in 1..Len(w) : m.head[w[i]] = c /\ pos[w[i]] = i
      /\ m.next[c] = NULL <=> m.hits[c] = 0
  <2>1. CASE m.next[c] = NULL /\ m.hits[c] = 0
    <3>1. w = << >>
      BY <1>0, <2>1, WalkOfNone DEF Items
    <3>2. << >> \in Seq(H) /\ Len(<< >>) = 0
      OBVIOUS
    <3>3. QED
      BY <2>1, <3>1, <3>2
  <2>2. CASE m.next[c] \in H /\ m.head[m.next[c]] = c /\ pos[m.next[c]] = 1
    <3> DEFINE n == m.next[c]
    <3>1. Along(m, H, pos, m.head[n], pos[n], Walk(m, n))
      <4> HIDE DEF n
      <4>1. n \in H
        BY <2>2 DEF n
      <4>2. QED
        BY <4>1, WalkIsAlong
    <3>2. Along(m, H, pos, c, 1, w)
      BY <1>0, <2>2, <3>1 DEF Items
    <3>3. m.hits[c] - 1 + 1 = m.hits[c] /\ \A i \in 1..m.hits[c] : 1 + i - 1 = i
      BY <1>1
    <3>4. m.hits[c] # 0 /\ m.next[c] # NULL
      BY <1>1, <2>2 DEF NodeOK
    <3>5. QED
      BY <3>2, <3>3, <3>4 DEF Along
  <2>3. QED
    BY <1>1, <2>1, <2>2 DEF HeadOK
<1>3. \A i \in 1..Len(w) : w[i] \in H
  BY <1>2, ElementOfSeq
<1>4. \A x \in H : m.head[x] = c => pos[x] \in 1..Len(w) /\ w[pos[x]] = x
  <2> SUFFICES ASSUME NEW x \in H, m.head[x] = c
               PROVE  pos[x] \in 1..Len(w) /\ w[pos[x]] = x
    OBVIOUS
  <2>1. pos[x] \in 1..Len(w)
    BY <1>1, <1>2 DEF NodeOK
  <2>2. w[pos[x]] \in H /\ m.head[w[pos[x]]] = c /\ pos[w[pos[x]]] = pos[x]
    BY <1>2, <1>3, <2>1
  <2>3. QED
    BY <1>1, <2>1, <2>2 DEF Apart
<1>5. Len(w) \in Nat /\ DOMAIN w = 1..Len(w)
  BY <1>2, LenProperties
<1>6. QED
  BY <1>0, <1>2, <1>3, <1>4, <1>5 DEF Listed

(* Two sequences without repetitions and with nothing in common.           *)
NoRepeats(S) == {s \in Seq(S) : IsInjective(s)}

LEMMA ConcatInjective ==
    ASSUME NEW S, NEW s \in NoRepeats(S), NEW t \in NoRepeats(S),
           Range(s) \intersect Range(t) = {}
    PROVE  s \o t \in NoRepeats(S) /\ Range(s \o t) = Range(s) \union Range(t)
<1> DEFINE u == s \o t
<1>0. s \in Seq(S) /\ t \in Seq(S) /\ IsInjective(s) /\ IsInjective(t)
  BY DEF NoRepeats
<1>1. /\ u \in Seq(S) /\ Len(u) = Len(s) + Len(t) /\ Len(s) \in Nat /\ Len(t) \in Nat
      /\ \A i \in 1 .. Len(s) + Len(t) : u[i] = IF i <= Len(s) THEN s[i] ELSE t[i - Len(s)]
  BY <1>0, ConcatProperties, LenProperties
<1>2. DOMAIN u = 1 .. Len(s) + Len(t) /\ DOMAIN s = 1..Len(s) /\ DOMAIN t = 1..Len(t)
  BY <1>0, <1>1, LenProperties
<1> HIDE DEF u
<1>3. ASSUME NEW i \in DOMAIN u, NEW j \in DOMAIN u, u[i] = u[j]
      PROVE  i = j
  <2>1. CASE i <= Len(s) /\ j <= Len(s)
    <3>1. i \in DOMAIN s /\ j \in DOMAIN s /\ s[i] = s[j]
      BY <1>1, <1>2, <1>3, <2>1
    <3>2. QED
      BY <1>0, <3>1 DEF IsInjective
  <2>2. CASE i > Len(s) /\ j > Len(s)
    <3>1. i - Len(s) \in DOMAIN t /\ j - Len(s) \in DOMAIN t
      BY <1>1, <1>2, <2>2
    <3>2. u[i] = t[i - Len(s)] /\ u[j] = t[j - Len(s)]
      BY <1>1, <1>2, <2>2
    <3>3. i - Len(s) = j - Len(s)
      BY <1>0, <1>3, <3>1, <3>2 DEF IsInjective
    <3>4. QED
      BY <1>1, <1>2, <3>3
  <2>3. CASE i <= Len(s) /\ j > Len(s)
    <3>1. i \in DOMAIN s /\ j - Len(s) \in DOMAIN t
      BY <1>1, <1>2, <2>3
    <3>2. u[i] = s[i] /\ u[j] = t[j - Len(s)]
      BY <1>1, <1>2, <2>3
    <3>3. QED
      BY <1>3, <3>1, <3>2 DEF Range
  <2>4. CASE i > Len(s) /\ j <= Len(s)
    <3>1. j \in DOMAIN s /\ i - Len(s) \in DOMAIN t
      BY <1>1, <1>2, <2>4
    <3>2. u[j] = s[j] /\ u[i] = t[i - Len(s)]
      BY <1>1, <1>2, <2>4
    <3>3. QED
      BY <1>3, <3>1, <3>2 DEF Range
  <2>5. QED
    BY <1>1, <1>2, <2>1, <2>2, <2>3, <2>4
<1>4. Range(u) = Range(s) \union Range(t)
  BY <1>0, RangeConcatenation DEF u
<1>5. QED
  BY <1>1, <1>3, <1>4 DEF IsInjective, NoRepeats, u
------------------------------------------------------------------------------
(* What the runs check of the pointers is what Threaded says, from the     *)
(* heads on.                                                               *)
LEMMA ThreadedIsLinked ==
    ASSUME config \in Config, NEW H, H = Held(mem), Threaded(mem, H)
    PROVE  Linked /\ TailIsLast
<1>1. PICK pos \in [Nodes -> Nat] : Shape(mem, H, pos)
  BY DEF Threaded
<1>2. /\ \A x \in H : NodeOK(mem, H, pos, x)
      /\ \A c \in Heads : HeadOK(mem, H, pos, c)
      /\ mem \in Memory /\ H \in SUBSET Nodes
      /\ Heads \subseteq Chains /\ Chains \intersect Nodes = {}
  BY <1>1, Basics DEF Shape, Threaded
<1>3. ASSUME NEW c \in Heads, NEW w, w = Items(mem, c)
      PROVE  /\ w \in Seq(H) /\ Len(w) = mem.hits[c] /\ Len(w) \in Nat
             /\ \A i \in 1..Len(w) : w[i] \in H /\ mem.head[w[i]] = c /\ pos[w[i]] = i
             /\ \A x \in H : mem.head[x] = c => pos[x] \in 1..Len(w) /\ w[pos[x]] = x
             /\ mem.next[c] = NULL <=> Len(w) = 0
             /\ DOMAIN w = 1..Len(w)
  <2>1. Listed(mem, H, pos, c, Items(mem, c))
    BY <1>1, <1>2, ItemsFacts
  <2>2. QED
    BY <1>3, <2>1 DEF Listed
<1>4. ASSUME NEW c \in Heads, NEW w, w = Items(mem, c)
      PROVE  /\ \A i \in 1..Len(w) :
                  /\ mem.prev[w[i]] = IF i = 1 THEN c ELSE w[i - 1]
                  /\ mem.head[w[i]] = c
             /\ mem.hits[c] = Len(w) /\ IsInjective(w)
  <2>1. ASSUME NEW i \in 1..Len(w) PROVE mem.prev[w[i]] = IF i = 1 THEN c ELSE w[i - 1]
    <3>1. NodeOK(mem, H, pos, w[i]) /\ mem.head[w[i]] = c /\ pos[w[i]] = i
      BY <1>2, <1>3, <1>4
    <3>2. CASE i = 1
      BY <3>1, <3>2 DEF NodeOK
    <3>3. CASE i # 1
      <4>1. /\ mem.prev[w[i]] \in H /\ mem.head[mem.prev[w[i]]] = c
            /\ pos[mem.prev[w[i]]] = i - 1
        BY <3>1, <3>3 DEF NodeOK
      <4>2. w[i - 1] = mem.prev[w[i]]
        BY <1>3, <1>4, <4>1
      <4>3. QED
        BY <3>3, <4>2
    <3>4. QED
      BY <3>2, <3>3
  <2>2. IsInjective(w)
    BY <1>3, <1>4 DEF IsInjective
  <2>3. QED
    BY <1>3, <1>4, <2>1, <2>2
<1>5. H = UNION {Range(Items(mem, c)) : c \in Heads}
  <2>1. ASSUME NEW x \in H PROVE \E c \in Heads : x \in Range(Items(mem, c))
    <3> DEFINE c == mem.head[x]
    <3>1. c \in Heads
      BY <1>2 DEF NodeOK
    <3> DEFINE w == Items(mem, c)
    <3>2. pos[x] \in 1..Len(w) /\ w[pos[x]] = x /\ DOMAIN w = 1..Len(w)
      <4> HIDE DEF w
      <4>1. w = Items(mem, c)
        BY DEF w
      <4>2. QED
        BY <1>3, <3>1, <4>1
    <3>3. x \in Range(w)
      BY <3>2 DEF Range
    <3>4. QED
      BY <3>1, <3>3
  <2>2. ASSUME NEW c \in Heads, NEW w, w = Items(mem, c), NEW x \in Range(w) PROVE x \in H
    BY <1>3, <2>2 DEF Range
  <2>3. QED
    BY <2>1, <2>2
<1>6. Linked
  <2>1. config.map => mem.hits[MapHead] = Cardinality(Held(mem))
    BY <1>1 DEF Shape
  <2>2. \A c \in Heads :
            LET items == Items(mem, c)
            IN  /\ \A i \in 1..Len(items) :
                      /\ mem.prev[items[i]] = IF i = 1 THEN c ELSE items[i - 1]
                      /\ mem.head[items[i]] = c
                /\ mem.hits[c] = Len(items) /\ IsInjective(items)
    BY <1>4
  <2>3. QED
    BY <1>5, <2>1, <2>2 DEF Linked
<1>7. TailIsLast
  <2> SUFFICES ASSUME Straight, NEW c \in Heads
               PROVE  mem.prev[c] \in IF mem.next[c] = NULL THEN {c, NULL}
                                      ELSE {Last(Items(mem, c))}
    BY DEF TailIsLast, Straight
  <2> DEFINE w == Items(mem, c)
  <2>1. w = Items(mem, c)
    OBVIOUS
  <2> HIDE DEF w
  <2>2. CASE mem.next[c] = NULL
    <3>1. Len(w) = 0
      BY <1>3, <2>1, <2>2
    <3>2. ~(mem.prev[c] \in H /\ mem.head[mem.prev[c]] = c)
      BY <1>3, <2>1, <3>1
    <3>3. QED
      BY <1>2, <2>2, <3>2 DEF HeadOK
  <2>3. CASE mem.next[c] # NULL
    <3>1. mem.prev[c] \in H /\ pos[mem.prev[c]] = mem.hits[c]
      BY <1>2, <2>3 DEF HeadOK
    <3>2. mem.head[mem.prev[c]] = c
      <4>1. mem.prev[c] \notin {c, NULL}
        BY <1>2, <3>1, Basics
      <4>2. QED
        BY <1>2, <4>1 DEF HeadOK
    <3>3. mem.prev[c] = w[Len(w)]
      BY <1>3, <2>1, <3>1, <3>2
    <3>4. QED
      BY <2>1, <2>3, <3>3 DEF Last
  <2>4. QED
    BY <2>2, <2>3
<1>8. QED
  BY <1>6, <1>7

LEMMA ThreadedIsSafe ==
    ASSUME config \in Config, NEW H, H = Held(mem), Threaded(mem, H)
    PROVE  \A c \in Heads : ~Freed(mem, mem.side[c]) /\ ~Freed(mem, mem.prev[c])
<1>1. PICK pos \in [Nodes -> Nat] : Shape(mem, H, pos)
  BY DEF Threaded
<1>2. \A c \in Heads : HeadOK(mem, H, pos, c)
  BY <1>1 DEF Shape
<1>3. Heads \subseteq Chains /\ Chains \intersect Nodes = {} /\ NULL \notin Nodes
  BY Basics
<1>4. \A c \in Heads : /\ mem.side[c] = NULL \/ mem.side[c] \in H
                       /\ mem.prev[c] \in {c, NULL} \/ mem.prev[c] \in H
  BY <1>2 DEF HeadOK
<1>5. \A x : Freed(mem, x) => x \in Nodes /\ x \notin H
  BY DEF Freed, Held
<1>6. QED
  BY <1>3, <1>4, <1>5

LEMMA ThreadedIsShort ==
    ASSUME config \in Config, NEW H, H = Held(mem), Threaded(mem, H)
    PROVE  \A c \in Heads : Len(Items(mem, c)) = mem.hits[c]
BY ThreadedIsLinked DEF Linked

(* From the top of a map one comes to every chain.                         *)
LEMMA ThreadedIsComplete ==
    ASSUME config \in Config, NEW H, H = Held(mem), Threaded(mem, H)
    PROVE  TraversalIsComplete
<1>1. PICK pos \in [Nodes -> Nat] : Shape(mem, H, pos)
  BY DEF Threaded
<1>2. /\ \A x \in H : mem.head[x] \in Heads
      /\ \A c \in Heads : mem.head[c] = IF config.map THEN MapHead ELSE c
      /\ mem \in Memory /\ H \in SUBSET Nodes /\ Heads \subseteq Chains
  BY <1>1, Basics DEF Shape, Threaded, NodeOK, HeadOK
<1>3. ASSUME NEW c \in Heads, NEW w, w = Items(mem, c)
      PROVE  /\ w \in Seq(H) /\ IsInjective(w)
             /\ \A x : x \in Range(w) <=> x \in H /\ mem.head[x] = c
  <2>1. Listed(mem, H, pos, c, w)
    <3>1. Listed(mem, H, pos, c, Items(mem, c))
      BY <1>1, <1>2, ItemsFacts
    <3>2. QED
      BY <1>3, <3>1
  <2>2. DOMAIN w = 1..Len(w)
    BY <2>1 DEF Listed
  <2>3. IsInjective(w)
    BY <2>1, <2>2 DEF IsInjective, Listed
  <2>4. \A x : x \in Range(w) <=> \E i \in 1..Len(w) : x = w[i]
    BY <2>2 DEF Range
  <2>5. QED
    BY <2>1, <2>3, <2>4 DEF Listed
<1>4. CASE ~config.map
  <2>1. Traversal(mem) = Items(mem, 1) /\ Heads = {1}
    BY <1>4 DEF Traversal, Heads
  <2> DEFINE w == Items(mem, 1)
  <2>2. w = Items(mem, 1)
    OBVIOUS
  <2> HIDE DEF w
  <2>3. IsInjective(w) /\ \A x : x \in Range(w) <=> x \in H /\ mem.head[x] = 1
    BY <1>3, <2>1, <2>2
  <2>4. Range(w) = H
    BY <1>2, <2>1, <2>3
  <2>5. QED
    BY <2>1, <2>2, <2>3, <2>4 DEF TraversalIsComplete
<1>5. CASE config.map
  <2> DEFINE N == Cardinality(Chains)
             broken == {c \in Chains : mem.head[c] # MapHead}
             F(g) == g = [c \in 0..N |->
                            IF c = 0 THEN << >>
                            ELSE IF \E b \in broken : b < c THEN g[c - 1]
                            ELSE g[c - 1] \o Items(mem, c)]
             e == CHOOSE g : F(g)
             Q == Seq(H)
             step == [p \in (1..N) \X Q |-> p[2] \o Items(mem, p[1])]
  <2>1. N \in Nat /\ Chains = 1..N /\ Heads = Chains /\ broken = {}
    <3>1. N \in Nat /\ Chains = 1..N
      BY ListAssumption, FS_CardinalityType
    <3>2. Heads = Chains
      BY <1>5 DEF Heads
    <3>3. broken = {}
      BY <1>2, <1>5, <3>2
    <3>4. QED
      BY <3>1, <3>2, <3>3
  <2>2. Traversal(mem) = e[N]
    BY <1>5 DEF Traversal
  <2> HIDE DEF N
  <2>3. \A c \in 1..N, q \in Q : q \o Items(mem, c) \in Q
    BY <1>3, <2>1, ConcatProperties
  <2>4. /\ step \in [(1..N) \X Q -> Q]
        /\ \A c \in 1..N, q \in Q : step[<<c, q>>] = q \o Items(mem, c)
    <3> HIDE DEF Q
    <3>1. QED
      BY <2>3
  <2> HIDE DEF step
  <2>5. PICK f \in [0..N -> Q] : Stepwise(f, N, << >>, step)
    <3>1. << >> \in Q
      OBVIOUS
    <3> HIDE DEF Q
    <3>2. QED
      BY <2>1, <2>4, <3>1, StepsExist
  <2>6. \A c \in 1..N : f[c] = f[c - 1] \o Items(mem, c)
    <3>1. \A c \in 1..N : f[c - 1] \in Q
      BY <2>1
    <3>2. QED
      BY <2>4, <2>5, <3>1 DEF Stepwise
  <2>7. F(f)
    <3>1. \A c \in 0..N : c = 0 \/ c \in 1..N
      BY <2>1
    <3> HIDE DEF Q, broken
    <3>2. QED
      BY <2>1, <2>5, <2>6, <3>1 DEF Stepwise
  <2>8. F(e)
    <3> HIDE DEF F
    <3>1. QED
      BY <2>7
  <2> HIDE DEF e
  <2>9. e[0] = << >> /\ \A c \in 1..N : e[c] = e[c - 1] \o Items(mem, c)
    <3>1. 0 \in 0..N /\ \A c \in 1..N : c \in 0..N /\ c # 0
      BY <2>1
    <3> HIDE DEF broken
    <3>2. QED
      BY <2>1, <2>8, <3>1
  <2> HIDE DEF F
  <2> DEFINE Good(s, c) == /\ s \in Seq(H) /\ IsInjective(s)
                           /\ \A x : x \in Range(s) <=> x \in H /\ mem.head[x] <= c
             T == {c \in Nat : c <= N => Good(e[c], c)}
  <2>10. 0 \in T
    <3>1. e[0] = << >> /\ << >> \in Seq(H) /\ DOMAIN << >> = {}
      BY <2>9
    <3>2. IsInjective(e[0]) /\ Range(e[0]) = {}
      BY <3>1 DEF IsInjective, Range
    <3>3. \A x \in H : ~(mem.head[x] <= 0)
      BY <1>2, <2>1
    <3>4. Good(e[0], 0)
      BY <3>1, <3>2, <3>3
    <3>5. QED
      BY <3>4
  <2>11. ASSUME NEW c \in Nat, c \in T PROVE c + 1 \in T
    <3> SUFFICES ASSUME c + 1 <= N PROVE Good(e[c + 1], c + 1)
      OBVIOUS
    <3>1. c + 1 \in 1..N /\ (c + 1) - 1 = c /\ c <= N /\ c + 1 \in Heads
      BY <2>1
    <3> DEFINE s == e[c]
               t == Items(mem, c + 1)
               u == e[c + 1]
    <3>2. Good(s, c)
      BY <2>11, <3>1
    <3>3. u = s \o t
      BY <2>9, <3>1
    <3>4. t = Items(mem, c + 1)
      OBVIOUS
    <3> HIDE DEF s, t, u
    <3>5. /\ t \in Seq(H) /\ IsInjective(t)
          /\ \A x : x \in Range(t) <=> x \in H /\ mem.head[x] = c + 1
      BY <1>3, <3>1, <3>4
    <3>6. Range(s) \intersect Range(t) = {}
      BY <3>2, <3>5
    <3>7. u \in Seq(H) /\ IsInjective(u) /\ Range(u) = Range(s) \union Range(t)
      <4>1. s \in NoRepeats(H) /\ t \in NoRepeats(H)
        BY <3>2, <3>5 DEF NoRepeats
      <4>2. u \in NoRepeats(H) /\ Range(u) = Range(s) \union Range(t)
        BY <3>3, <3>6, <4>1, ConcatInjective
      <4>3. QED
        BY <4>2 DEF NoRepeats
    <3>8. \A x \in H : mem.head[x] <= c + 1 <=> mem.head[x] <= c \/ mem.head[x] = c + 1
      BY <1>2, <2>1
    <3>9. \A x : x \in Range(u) <=> x \in H /\ mem.head[x] <= c + 1
      BY <3>2, <3>5, <3>7, <3>8
    <3>10. QED
      BY <3>7, <3>9 DEF u
  <2>12. N \in T
    <3>1. Nat \subseteq T
      <4> HIDE DEF T
      <4>1. QED
        BY <2>10, <2>11, SetInduction
    <3>2. QED
      BY <2>1, <3>1
  <2>13. Good(e[N], N)
    BY <2>1, <2>12
  <2>14. Range(e[N]) = H
    <3>1. \A x \in H : mem.head[x] <= N
      BY <1>2, <2>1
    <3>2. \A x : x \in Range(e[N]) <=> x \in H /\ mem.head[x] <= N
      BY <2>13
    <3>3. QED
      BY <3>1, <3>2
  <2>15. QED
    BY <2>2, <2>13, <2>14 DEF TraversalIsComplete
<1>6. QED
  BY <1>4, <1>5
------------------------------------------------------------------------------
(* A memory as the calls leave it: its items are on their chains, each on  *)
(* the chain of its name, and no more than the maximum allows.             *)
Homed(m) == \A n \in Held(m) : m.head[n] = ChainOf(m.tag[n])

Few(m) == config.max > 0 => \A c \in Heads : m.hits[c] <= config.max + 1

Sane(m) == Threaded(m, Held(m)) /\ Homed(m) /\ Few(m) /\ m.wild = FALSE

(* The tag of a node and the cached item are no links.                     *)
Tagged(m, n, t) == [m EXCEPT !.tag[n] = t]

LEMMA TagKeeps ==
    ASSUME NEW m, NEW H, Threaded(m, H), NEW n \in Nodes, NEW t \in Tags \union {NULL},
           NEW m2, m2 = Tagged(m, n, t)
    PROVE  /\ Threaded(m2, H)
           /\ m2.next = m.next /\ m2.prev = m.prev /\ m2.head = m.head
           /\ m2.side = m.side /\ m2.hits = m.hits
           /\ m2.wild = m.wild
           /\ \A x \in Nodes : m2.tag[x] = IF x = n THEN t ELSE m.tag[x]
<1>1. m \in Memory /\ H \subseteq Nodes
  BY DEF Threaded
<1>2. m.tag \in [Nodes -> Tags \union {NULL}]
  BY <1>1 DEF Memory
<1> DEFINE tag2 == [m.tag EXCEPT ![n] = t]
<1>3. tag2 \in [Nodes -> Tags \union {NULL}]
  BY <1>2
<1>4. m2 = [m EXCEPT !.tag = tag2]
  BY DEF Tagged
<1> HIDE DEF tag2
<1>5. m2 \in Memory
  BY <1>1, <1>3, <1>4 DEF Memory
<1>6. /\ m2.next = m.next /\ m2.prev = m.prev /\ m2.head = m.head
      /\ m2.side = m.side /\ m2.hits = m.hits /\ m2.tag = tag2
  BY <1>1, <1>4 DEF Memory
<1>7. m2.wild = m.wild
  BY <1>1, <1>4 DEF Memory
<1>8. PICK pos \in [Nodes -> Nat] : Shape(m, H, pos)
  BY DEF Threaded
<1>9. Shape(m2, H, pos)
  BY <1>6, <1>8 DEF Shape, NodeOK, HeadOK, Apart
<1>10. Threaded(m2, H)
  BY <1>1, <1>5, <1>9 DEF Threaded
<1>11. QED
  BY <1>2, <1>6, <1>7, <1>10 DEF tag2

Cached(m, n) == [m EXCEPT !.side[m.head[n]] = n]

LEMMA SideKeeps ==
    ASSUME NEW m, NEW H, Threaded(m, H), NEW n \in H, m.head[n] \in Heads,
           Heads \subseteq Chains, NEW m2, m2 = Cached(m, n)
    PROVE  /\ Threaded(m2, H)
           /\ m2.next = m.next /\ m2.prev = m.prev /\ m2.head = m.head
           /\ m2.tag = m.tag /\ m2.hits = m.hits
           /\ m2.wild = m.wild
<1>1. m \in Memory /\ H \subseteq Nodes
  BY DEF Threaded
<1>2. m.side \in [Chains -> Nodes \union {NULL}]
  BY <1>1 DEF Memory
<1> DEFINE c == m.head[n]
           side2 == [m.side EXCEPT ![c] = n]
<1>3. /\ side2 \in [Chains -> Nodes \union {NULL}]
      /\ \A d \in Chains : side2[d] = IF d = c THEN n ELSE m.side[d]
  BY <1>1, <1>2
<1>4. m2 = [m EXCEPT !.side = side2]
  BY DEF Cached
<1> HIDE DEF side2
<1>5. m2 \in Memory
  BY <1>1, <1>3, <1>4 DEF Memory
<1>6. /\ m2.next = m.next /\ m2.prev = m.prev /\ m2.head = m.head
      /\ m2.side = side2 /\ m2.hits = m.hits /\ m2.tag = m.tag
  BY <1>1, <1>4 DEF Memory
<1>7. m2.wild = m.wild
  BY <1>1, <1>4 DEF Memory
<1>8. PICK pos \in [Nodes -> Nat] : Shape(m, H, pos)
  BY DEF Threaded
<1>9. Shape(m2, H, pos)
  <2>1. \A x \in H : NodeOK(m2, H, pos, x)
    BY <1>6, <1>8 DEF Shape, NodeOK
  <2>2. ASSUME NEW d \in Heads PROVE HeadOK(m2, H, pos, d)
    <3>1. HeadOK(m, H, pos, d) /\ m2.side[d] = IF d = c THEN n ELSE m.side[d]
      BY <1>3, <1>6, <1>8 DEF Shape
    <3>2. m2.side[d] # NULL => m2.side[d] \in H /\ m.head[m2.side[d]] = d
      BY <3>1 DEF HeadOK
    <3>3. QED
      BY <1>6, <3>1, <3>2 DEF HeadOK
  <2>3. Apart(m2, H, pos) /\ (config.map => m2.hits[MapHead] = Cardinality(H))
    BY <1>6, <1>8 DEF Shape, Apart
  <2>4. QED
    BY <2>1, <2>2, <2>3 DEF Shape
<1>10. Threaded(m2, H)
  BY <1>1, <1>5, <1>9 DEF Threaded
<1>11. QED
  BY <1>6, <1>7, <1>10

(* Deleting an item.                                                       *)
LEMMA DeleteKeeps ==
    ASSUME config \in Config, NEW m, Sane(m), NEW n \in Held(m),
           NEW m2, m2 = ListDeleteNode(m, n)
    PROVE  /\ Sane(m2) /\ Held(m2) = Held(m) \ {n}
           /\ \A x \in Held(m2) : m2.tag[x] = m.tag[x] /\ m2.head[x] = m.head[x]
           /\ \A d \in Heads : m2.hits[d] = IF d = m.head[n] THEN m.hits[d] - 1
                                            ELSE m.hits[d]
<1> DEFINE m1 == ListUnThreadNode(m, n)
           G == Held(m) \ {n}
<1>1. Threaded(m, Held(m)) /\ m.wild = FALSE /\ Held(m) \subseteq Nodes
  BY DEF Sane, Held
<1>2. /\ Threaded(m1, G)
      /\ \A x \in G : m1.head[x] = m.head[x]
      /\ m1.tag = m.tag
      /\ m1.wild = m.wild
      /\ m.head[n] \in Heads /\ m.hits[m.head[n]] > 0
      /\ \A d \in Heads : m1.hits[d] = IF d = m.head[n] THEN m.hits[d] - 1 ELSE m.hits[d]
  <2> HIDE DEF m1
  <2>1. m1 = ListUnThreadNode(m, n)
    BY DEF m1
  <2>2. QED
    BY <1>1, <2>1, UnThreadKeeps
<1>3. m2 = Tagged(m1, n, NULL)
  BY DEF ListDeleteNode, Tagged
<1> HIDE DEF m1
<1>4. /\ Threaded(m2, G)
      /\ m2.next = m1.next /\ m2.prev = m1.prev /\ m2.head = m1.head
      /\ m2.side = m1.side /\ m2.hits = m1.hits
      /\ m2.wild = m1.wild
      /\ \A x \in Nodes : m2.tag[x] = IF x = n THEN NULL ELSE m1.tag[x]
  <2>1. n \in Nodes /\ NULL \in Tags \union {NULL}
    BY <1>1
  <2> HIDE DEF G
  <2>2. Threaded(m1, G)
    BY <1>2
  <2>3. QED
    BY <1>3, <2>1, <2>2, TagKeeps
<1>5. Held(m2) = G
  BY <1>1, <1>2, <1>4 DEF Held
<1>6. \A x \in G : m2.tag[x] = m.tag[x] /\ m2.head[x] = m.head[x]
  BY <1>1, <1>2, <1>4
<1>7. \A d \in Heads : m2.hits[d] = IF d = m.head[n] THEN m.hits[d] - 1 ELSE m.hits[d]
  BY <1>2, <1>4
<1>8. Homed(m2)
  BY <1>5, <1>6 DEF Homed, Sane
<1>9. Few(m2)
  <2>1. config.max \in Nat /\ \A d \in Heads : m.hits[d] \in Nat
    BY <1>1, Basics DEF Threaded, Memory
  <2>2. QED
    BY <1>7, <2>1 DEF Few, Sane
<1>10. Sane(m2)
  BY <1>1, <1>2, <1>4, <1>5, <1>8, <1>9 DEF Sane
<1>11. QED
  BY <1>5, <1>6, <1>7, <1>10

(* The last item, when the head knows it; any item of the chain otherwise. *)
LEMMA LastFacts ==
    ASSUME config \in Config, NEW m, NEW H, Threaded(m, H), NEW c \in Heads,
           NEW n, n = ListGetLast(m, c)
    PROVE  /\ n = c \/ (n \in H /\ m.head[n] = c)
           /\ Straight /\ m.hits[c] > 1 => n \in H /\ n # m.next[c]
<1>1. PICK pos \in [Nodes -> Nat] : Shape(m, H, pos)
  BY DEF Threaded
<1>2. /\ HeadOK(m, H, pos, c) /\ m.hits[c] \in Nat /\ c # NULL
      /\ NULL \notin H /\ c \notin H
  BY <1>1, Basics DEF Shape, Threaded, Memory
<1>3. n = c \/ (n \in H /\ m.head[n] = c)
  BY <1>2 DEF HeadOK, ListGetLast
<1>4. Straight /\ m.hits[c] > 1 => n \in H /\ n # m.next[c]
  <2> SUFFICES ASSUME Straight, m.hits[c] > 1 PROVE n \in H /\ n # m.next[c]
    OBVIOUS
  <2>1. m.next[c] # NULL /\ pos[m.next[c]] = 1
    BY <1>2 DEF HeadOK
  <2>2. m.prev[c] \in H /\ pos[m.prev[c]] = m.hits[c]
    BY <1>2, <2>1 DEF HeadOK
  <2>3. n = m.prev[c]
    BY <1>2, <2>2 DEF ListGetLast
  <2>4. QED
    BY <2>1, <2>2, <2>3
<1>5. QED
  BY <1>3, <1>4

(* Making room deletes the first item, and the first item only, of a list  *)
(* that is longer than it may be.                                          *)
LEMMA RoomKeeps ==
    ASSUME config \in Config, config.max > 0, NEW m, Sane(m), NEW c \in Heads,
           NEW m2, m2 = ListHandleMaxSize(m, c)
    PROVE  /\ Sane(m2) /\ Held(m2) \subseteq Held(m)
           /\ \A x \in Held(m2) : m2.tag[x] = m.tag[x] /\ m2.head[x] = m.head[x]
           /\ \A x \in Held(m) \ Held(m2) : x = m.next[c] /\ m.hits[c] > 1
           /\ m2.hits[c] <= config.max
           /\ \A d \in Heads : d # c => m2.hits[d] = m.hits[d]
<1> DEFINE Drop(mm) == IF mm.hits[c] > config.max /\ mm.next[c] # NULL
                       THEN ListDeleteNode(mm, mm.next[c]) ELSE mm
<1>1. m2 = Drop(Drop(Drop(m)))
  BY DEF ListHandleMaxSize
<1>2. config.max \in Nat /\ \A d \in Heads : m.hits[d] \in Nat
  BY Basics DEF Sane, Threaded, Memory
<1>3. CASE m.hits[c] <= config.max
  <2>1. m2 = m
    BY <1>1, <1>2, <1>3
  <2>2. QED
    BY <1>3, <2>1
<1>4. CASE ~(m.hits[c] <= config.max)
  <2> DEFINE n == m.next[c]
             m1 == ListDeleteNode(m, n)
  <2>1. m.hits[c] = config.max + 1
    BY <1>2, <1>4 DEF Sane, Few
  <2>2. n \in Held(m) /\ m.head[n] = c /\ n # NULL
    <3>1. PICK pos \in [Nodes -> Nat] : Shape(m, Held(m), pos)
      BY DEF Sane, Threaded
    <3>2. HeadOK(m, Held(m), pos, c) /\ NULL \notin Held(m)
      BY <3>1, Basics DEF Shape, Held
    <3>3. QED
      BY <1>2, <2>1, <3>2 DEF HeadOK
  <2>3. /\ Sane(m1) /\ Held(m1) = Held(m) \ {n}
        /\ \A x \in Held(m1) : m1.tag[x] = m.tag[x] /\ m1.head[x] = m.head[x]
        /\ \A d \in Heads : m1.hits[d] = IF d = m.head[n] THEN m.hits[d] - 1 ELSE m.hits[d]
    <3> HIDE DEF m1, n
    <3>1. m1 = ListDeleteNode(m, n)
      BY DEF m1
    <3>2. QED
      BY <2>2, <3>1, DeleteKeeps
  <2>4. Drop(m) = m1
    BY <1>2, <2>1, <2>2
  <2> HIDE DEF m1
  <2>5. m1.hits[c] = config.max
    BY <1>2, <2>1, <2>2, <2>3
  <2>6. Drop(m1) = m1
    BY <1>2, <2>5
  <2> HIDE DEF Drop
  <2>7. m2 = m1
    BY <1>1, <2>4, <2>6
  <2>8. config.max + 1 > 1
    BY <1>2
  <2>9. QED
    BY <1>2, <2>1, <2>2, <2>3, <2>5, <2>7, <2>8
<1>5. QED
  BY <1>3, <1>4

(* A new item goes in after an item, or the head, of its chain; with a     *)
(* maximum, after the last, which is not the one that makes room.          *)
LEMMA InsertKeeps ==
    ASSUME config \in Config, NEW m, Sane(m), NEW at \in Heads \union Held(m),
           NEW n \in Nodes \ Held(m), NEW t \in Tags,
           ChainOf(t) = IF at \in Held(m) THEN m.head[at] ELSE at,
           config.max > 0 => Straight /\ at = ListGetLast(m, ChainOf(t)),
           NEW m2, m2 = ListInsertTypedItem(m, at, n, t)
    PROVE  /\ Sane(m2) /\ n \in Held(m2) /\ Held(m2) \subseteq Held(m) \union {n}
           /\ m2.tag[n] = t
           /\ \A x \in Held(m2) : x # n => m2.tag[x] = m.tag[x]
<1> DEFINE c == ChainOf(t)
           room == IF config.max > 0 THEN ListHandleMaxSize(m, ListGetHead(m, at)) ELSE m
           m1 == ListThreadNode(room, at, n)
<1>1. /\ Threaded(m, Held(m)) /\ m.wild = FALSE /\ Held(m) \subseteq Nodes
      /\ Heads \subseteq Chains /\ Chains \intersect Nodes = {} /\ NULL \notin Tags
      /\ config.max \in Nat
  BY Basics DEF Sane, Held
<1>2. c \in Heads /\ c = ListGetHead(m, at)
  <2>1. \A x \in Held(m) : m.head[x] \in Heads
    BY <1>1 DEF Threaded, Shape, NodeOK
  <2>2. QED
    BY <1>1, <2>1 DEF ListGetHead
<1>3. /\ Sane(room) /\ Held(room) \subseteq Held(m)
      /\ \A x \in Held(room) : room.tag[x] = m.tag[x] /\ room.head[x] = m.head[x]
      /\ at \in Heads \union Held(room)
      /\ config.max > 0 => room.hits[c] <= config.max
  <2>1. CASE config.max > 0
    <3> HIDE DEF room, c
    <3>1. room = ListHandleMaxSize(m, c)
      BY <1>2, <2>1 DEF room
    <3>2. /\ Sane(room) /\ Held(room) \subseteq Held(m)
          /\ \A x \in Held(room) : room.tag[x] = m.tag[x] /\ room.head[x] = m.head[x]
          /\ \A x \in Held(m) \ Held(room) : x = m.next[c] /\ m.hits[c] > 1
          /\ room.hits[c] <= config.max
          /\ \A d \in Heads : d # c => room.hits[d] = m.hits[d]
      BY <1>2, <2>1, <3>1, RoomKeeps
    <3>3. Straight /\ at = ListGetLast(m, c)
      BY <2>1 DEF c
    <3>4. Straight /\ m.hits[c] > 1 => at \in Held(m) /\ at # m.next[c]
      BY <1>1, <1>2, <3>3, LastFacts
    <3>5. QED
      BY <3>2, <3>3, <3>4
  <2>2. CASE ~(config.max > 0)
    BY <2>2
  <2>3. QED
    BY <2>1, <2>2
<1> HIDE DEF room
<1>4. ~Freed(m, at) /\ ~Freed(room, at)
  <2>1. at \in Nodes => m.tag[at] # NULL
    BY <1>1 DEF Held
  <2>2. at \in Nodes => room.tag[at] # NULL
    BY <1>1, <1>3 DEF Held
  <2>3. QED
    BY <2>1, <2>2 DEF Freed
<1>5. m2 = Tagged(m1, n, t)
  BY <1>4 DEF ListInsertTypedItem, room, Tagged
<1> DEFINE H == Held(room)
<1>6. c = IF at \in H THEN room.head[at] ELSE at
  BY <1>1, <1>3
<1>7. /\ Threaded(m1, H \union {n})
      /\ \A x \in H : m1.head[x] = room.head[x]
      /\ m1.head[n] = c /\ c \in Heads
      /\ m1.tag = room.tag
      /\ m1.wild = room.wild
      /\ \A d \in Heads : m1.hits[d] = IF d = c THEN room.hits[d] + 1 ELSE room.hits[d]
  <2>1. at \in Heads \union H /\ n \in Nodes \ H
    BY <1>3
  <2>2. Threaded(room, H)
    BY <1>3 DEF Sane
  <2> HIDE DEF m1, H, c
  <2>3. m1 = ListThreadNode(room, at, n)
    BY DEF m1
  <2>4. QED
    BY ONLY config \in Config, <1>6, <2>1, <2>2, <2>3, ThreadKeeps
<1> HIDE DEF m1
<1>8. /\ Threaded(m2, H \union {n})
      /\ m2.next = m1.next /\ m2.prev = m1.prev /\ m2.head = m1.head
      /\ m2.side = m1.side /\ m2.hits = m1.hits
      /\ m2.wild = m1.wild
      /\ \A x \in Nodes : m2.tag[x] = IF x = n THEN t ELSE m1.tag[x]
  <2>1. Threaded(m1, H \union {n}) /\ n \in Nodes /\ t \in Tags \union {NULL}
    BY <1>7
  <2> DEFINE G == H \union {n}
  <2> HIDE DEF G, H
  <2>2. Threaded(m1, G)
    BY <2>1 DEF G
  <2>3. /\ Threaded(m2, G)
        /\ m2.next = m1.next /\ m2.prev = m1.prev /\ m2.head = m1.head
        /\ m2.side = m1.side /\ m2.hits = m1.hits
        /\ m2.wild = m1.wild
        /\ \A x \in Nodes : m2.tag[x] = IF x = n THEN t ELSE m1.tag[x]
    BY <1>5, <2>1, <2>2, TagKeeps
  <2>4. QED
    BY <2>3 DEF G
<1>9. /\ \A x \in Nodes : m2.tag[x] = IF x = n THEN t ELSE room.tag[x]
      /\ t # NULL
  BY <1>1, <1>7, <1>8
<1>10. Held(m2) = H \union {n}
  BY <1>9 DEF Held
<1>11. Homed(m2)
  <2>1. \A x \in H : room.head[x] = ChainOf(room.tag[x]) /\ x \in Nodes /\ x # n
    BY <1>1, <1>3 DEF Sane, Homed
  <2>2. \A x \in H : m2.head[x] = room.head[x] /\ m2.tag[x] = room.tag[x]
    BY <1>7, <1>8, <1>9, <2>1
  <2>3. m2.head[n] = c /\ m2.tag[n] = t
    BY <1>7, <1>8, <1>9
  <2>4. QED
    BY <1>10, <2>1, <2>2, <2>3 DEF Homed
<1>12. Few(m2)
  <2>1. \A d \in Heads : room.hits[d] \in Nat
    BY <1>1, <1>3 DEF Sane, Threaded, Memory
  <2>2. config.max > 0 => \A d \in Heads : room.hits[d] <= config.max + 1
    BY <1>3 DEF Sane, Few
  <2> HIDE DEF c
  <2>3. ASSUME config.max > 0, NEW d \in Heads PROVE m2.hits[d] <= config.max + 1
    <3>1. m2.hits[d] = IF d = c THEN room.hits[d] + 1 ELSE room.hits[d]
      BY <1>7, <1>8
    <3>2. CASE d = c
      BY <1>1, <1>3, <2>1, <2>3, <3>1, <3>2
    <3>3. CASE d # c
      BY <2>2, <2>3, <3>1, <3>3
    <3>4. QED
      BY <3>2, <3>3
  <2>4. QED
    BY <2>3 DEF Few
<1>13. m2.wild = FALSE
  BY <1>3, <1>7, <1>8 DEF Sane
<1>14. Sane(m2)
  BY <1>8, <1>10, <1>11, <1>12, <1>13 DEF Sane
<1>15. \A x \in H : x \in Nodes /\ x # n /\ m2.tag[x] = m.tag[x]
  BY <1>1, <1>3, <1>9
<1>16. QED
  BY <1>1, <1>3, <1>9, <1>10, <1>14, <1>15
------------------------------------------------------------------------------
LEMMA MinFacts ==
    ASSUME NEW S, S \subseteq Nat, S # {}
    PROVE  Min(S) \in S /\ \A i \in S : Min(S) <= i
<1>1. \E n \in S : \A i \in S : n <= i
  BY LeastElement
<1>2. QED
  BY <1>1 DEF Min

LEMMA MaxFacts ==
    ASSUME NEW n \in Nat, NEW S, S \subseteq 0..n, S # {}
    PROVE  Max(S) \in S /\ \A i \in S : Max(S) >= i
<1> DEFINE T == {n - i : i \in S}
<1>1. T \subseteq Nat /\ T # {}
  <2>1. \A i \in S : n - i \in Nat
    OBVIOUS
  <2>2. PICK i \in S : TRUE
    OBVIOUS
  <2>3. n - i \in T
    OBVIOUS
  <2>4. QED
    BY <2>1, <2>3
<1>2. PICK k \in T : \A j \in T : k <= j
  <2> HIDE DEF T
  <2>1. QED
    BY <1>1, LeastElement
<1>3. PICK x \in S : k = n - x
  OBVIOUS
<1>4. \A i \in S : x >= i
  <2>1. \A i \in S : n - x <= n - i
    BY <1>2, <1>3
  <2>2. QED
    BY <2>1
<1>5. QED
  BY <1>4 DEF Max

(* What a search looks for is an item of the chain, in a list that is not  *)
(* ordered one with the name.                                              *)
LEMMA ConsiderFacts ==
    ASSUME NEW m, NEW n, NEW t, NEW type, ListConsiderInsertPoint(m, n, t, type)
    PROVE  n \in Nodes
BY DEF ListConsiderInsertPoint

LEMMA ConsiderNamed ==
    ASSUME NEW m, NEW n \in Nodes, NEW t, NEW type, ~Has("LIST_FLAG_ORDERED")
    PROVE  ListConsiderInsertPoint(m, n, t, type) <=> m.tag[n] = t
BY DEF ListConsiderInsertPoint

(* The search starts at the first item, or at one of the name.             *)
Start(m, H, pos, c, t, start) ==
    /\ m.next[c] = NULL => start[1] = c /\ start[2] = NULL
    /\ m.next[c] # NULL =>
         /\ start[2] \in H /\ m.head[start[2]] = c /\ start[1] = m.prev[start[2]]
         /\ ~Has("LIST_FLAG_ORDERED") => m.tag[start[2]] = t \/ pos[start[2]] = 1

LEMMA StartFacts ==
    ASSUME config \in Config, NEW m \in Memory, NEW H \in SUBSET Nodes,
           NEW pos \in [Nodes -> Nat], Shape(m, H, pos), NEW c \in Heads, NEW t \in Tags
    PROVE  Start(m, H, pos, c, t, StartPoint(m, c, t))
<1> SUFFICES ASSUME NEW start, start = StartPoint(m, c, t)
             PROVE  Start(m, H, pos, c, t, start)
  OBVIOUS
<1>1. /\ HeadOK(m, H, pos, c) /\ NULL \notin Nodes /\ \A x \in H : NodeOK(m, H, pos, x)
      /\ Heads \subseteq Chains
  BY Basics DEF Shape
<1> DEFINE s == m.side[c]
           cached == Has("LIST_FLAG_CACHE") /\ ListConsiderInsertPoint(m, s, t, "LIST_FIND_LESSER")
<1>2. m.side \in [Chains -> Nodes \union {NULL}]
  BY DEF Memory
<1>3. CASE cached
  <2>1. s \in Nodes
    BY <1>3, ConsiderFacts
  <2>2. s \in H /\ m.head[s] = c
    BY <1>1, <2>1 DEF HeadOK
  <2>3. start[1] = m.prev[s] /\ start[2] = s
    BY <1>3 DEF StartPoint
  <2>4. m.next[c] # NULL
    <3>1. m.hits[c] # 0
      BY <1>1, <2>2 DEF NodeOK
    <3>2. QED
      BY <1>1, <3>1 DEF HeadOK
  <2>5. ~Has("LIST_FLAG_ORDERED") => m.tag[s] = t
    BY <1>3, <2>1, ConsiderNamed
  <2> HIDE DEF s
  <2>6. QED
    BY <2>2, <2>3, <2>4, <2>5 DEF Start
<1>4. CASE ~cached
  <2>1. start[1] = c /\ start[2] = m.next[c]
    BY <1>4 DEF StartPoint
  <2> DEFINE n == m.next[c]
  <2>2. n # NULL => n \in H /\ m.head[n] = c /\ pos[n] = 1
    BY <1>1 DEF HeadOK
  <2>3. n # NULL => m.prev[n] = c
    BY <1>1, <2>2 DEF NodeOK
  <2>4. QED
    BY <2>1, <2>2, <2>3 DEF Start
<1>5. QED
  BY <1>3, <1>4

(* The name of the place a search gives: an item of the chain, or the head *)
(* of a chain that has none.  Nothing with the name comes before it alone. *)
Place(m, H, pos, c, t, n) ==
    /\ \/ n = c /\ m.next[c] = NULL
       \/ n \in H /\ m.head[n] = c
    /\ ~Has("LIST_FLAG_ORDERED") =>
         \A x \in H : m.head[x] = c /\ m.tag[x] = t =>
             \E y \in H : m.head[y] = c /\ m.tag[y] = t /\ n \in H /\ pos[n] <= pos[y]

LEMMA SearchFacts ==
    ASSUME config \in Config, NEW m \in Memory, NEW H \in SUBSET Nodes,
           NEW pos \in [Nodes -> Nat], Shape(m, H, pos), NEW c \in Heads, NEW t \in Tags
    PROVE  LET p == ListFindNamedItemInsert(m, c, t, {})
           IN  p.mem = m /\ Place(m, H, pos, c, t, p.node)
<1> DEFINE start == StartPoint(m, c, t)
           path == Walk(m, start[2])
           hits == {i \in 1..Len(path) :
                       ListConsiderInsertPoint(m, path[i], t, "LIST_FIND_GREATER")}
           passed == IF hits = {} THEN Len(path) ELSE Min(hits) - 1
           before == IF passed = 0 THEN start[1] ELSE path[passed]
           F(g) == g = [i \in 0..passed |->
                          IF i = 0 THEN m
                          ELSE IF path[i] \in {} THEN ListDeleteNode(g[i - 1], path[i])
                          ELSE g[i - 1]]
           after == CHOOSE g : F(g)
           p == ListFindNamedItemInsert(m, c, t, {})
           node == IF hits # {} /\ before \in Chains THEN path[Min(hits)] ELSE before
           last == ListConsiderInsertPoint(m, m.prev[c], t, "LIST_FIND_LESSER")
<1>1. p = IF last THEN [mem |-> m, node |-> m.prev[c]]
          ELSE [mem |-> after[passed], node |-> node]
  BY DEF ListFindNamedItemInsert
<1>2. /\ m.next[c] = NULL => start[1] = c /\ start[2] = NULL
      /\ m.next[c] # NULL =>
           /\ start[2] \in H /\ m.head[start[2]] = c /\ start[1] = m.prev[start[2]]
           /\ ~Has("LIST_FLAG_ORDERED") => m.tag[start[2]] = t \/ pos[start[2]] = 1
  <2>1. Start(m, H, pos, c, t, StartPoint(m, c, t))
    BY StartFacts
  <2>2. QED
    BY <2>1 DEF Start
<1> HIDE DEF start
<1>3. /\ HeadOK(m, H, pos, c) /\ NULL \notin Nodes /\ Chains \intersect Nodes = {}
      /\ \A x \in H : NodeOK(m, H, pos, x)
      /\ Heads \subseteq Chains /\ m.hits[c] \in Nat
  BY Basics DEF Shape, Memory
<1>4. m.next[c] = NULL => path = << >>
  BY <1>2, WalkOfNone
<1>5. m.next[c] # NULL => Along(m, H, pos, c, pos[start[2]], path)
  <2> SUFFICES ASSUME m.next[c] # NULL PROVE Along(m, H, pos, c, pos[start[2]], path)
    OBVIOUS
  <2> DEFINE n == start[2]
  <2>1. n \in H /\ m.head[n] = c
    BY <1>2
  <2> HIDE DEF n
  <2>2. Along(m, H, pos, m.head[n], pos[n], Walk(m, n))
    BY <2>1, WalkIsAlong
  <2>3. QED
    BY <2>1, <2>2 DEF n
<1>6. /\ path \in Seq(H) /\ Len(path) \in Nat
      /\ \A i \in 1..Len(path) : path[i] \in H /\ m.head[path[i]] = c
      /\ Len(path) = 0 <=> m.next[c] = NULL
  <2>1. CASE m.next[c] = NULL
    <3>1. << >> \in Seq(H) /\ Len(<< >>) = 0
      OBVIOUS
    <3>2. path = << >>
      BY <1>4, <2>1
    <3> HIDE DEF path
    <3>3. QED
      BY <2>1, <3>1, <3>2
  <2>2. CASE m.next[c] # NULL
    <3>1. pos[start[2]] \in 1..m.hits[c]
      BY <1>2, <1>3, <2>2 DEF NodeOK
    <3>2. /\ path \in Seq(H) /\ Len(path) = m.hits[c] - pos[start[2]] + 1
          /\ \A i \in 1..Len(path) : m.head[path[i]] = c
      BY <1>5, <2>2 DEF Along
    <3> HIDE DEF path
    <3>3. QED
      BY <1>3, <2>2, <3>1, <3>2, ElementOfSeq
  <2>3. QED
    BY <2>1, <2>2
<1>7. hits # {} => Min(hits) \in hits /\ \A i \in hits : Min(hits) <= i
  <2>1. hits \subseteq Nat
    OBVIOUS
  <2> HIDE DEF hits
  <2>2. QED
    BY <2>1, MinFacts
<1>8. hits # {} => /\ Min(hits) \in 1..Len(path)
                   /\ ListConsiderInsertPoint(m, path[Min(hits)], t, "LIST_FIND_GREATER")
  <2> DEFINE j == Min(hits)
  <2>1. hits # {} => j \in hits
    BY <1>7
  <2> HIDE DEF j
  <2>2. QED
    BY <2>1 DEF j
<1>9. hits = {} => \A i \in 1..Len(path) :
                      ~ListConsiderInsertPoint(m, path[i], t, "LIST_FIND_GREATER")
  OBVIOUS
<1> HIDE DEF path, hits
<1>10. passed \in 0..Len(path) /\ (hits # {} => passed = Min(hits) - 1)
  BY <1>6, <1>8
<1>11. after[passed] = m
  <2>1. F([i \in 0..passed |-> m])
    <3> HIDE DEF passed
    <3>1. \A i \in 0..passed : i # 0 => i - 1 \in 0..passed
      BY <1>6, <1>10
    <3>2. QED
      BY <3>1
  <2>2. F(after)
    <3> HIDE DEF F
    <3>1. QED
      BY <2>1
  <2> HIDE DEF after
  <2>3. passed \in Nat
    BY <1>6, <1>10
  <2> HIDE DEF passed
  <2>4. after[0] = m
    BY <2>2, <2>3
  <2>5. \A i \in 1..passed : after[i] = after[i - 1]
    <3>1. \A i \in 1..passed : i \in 0..passed /\ i # 0
      BY <2>3
    <3>2. QED
      BY <2>2, <3>1
  <2> HIDE DEF F
  <2> DEFINE T == {i \in Nat : i <= passed => after[i] = m}
  <2>6. 0 \in T
    BY <2>4
  <2>7. ASSUME NEW i \in Nat, i \in T PROVE i + 1 \in T
    <3> SUFFICES ASSUME i + 1 <= passed PROVE after[i + 1] = m
      OBVIOUS
    <3>1. i + 1 \in 1..passed /\ (i + 1) - 1 = i /\ i <= passed
      BY <2>3
    <3>2. QED
      BY <2>5, <2>7, <3>1
  <2>8. Nat \subseteq T
    <3> HIDE DEF T
    <3>1. QED
      BY <2>6, <2>7, SetInduction
  <2>9. QED
    BY <2>3, <2>8
<1> HIDE DEF F, after
<1>12. p.mem = m /\ p.node = IF last THEN m.prev[c] ELSE node
  BY <1>1, <1>11
<1>13. CASE last
  <2> DEFINE n == m.prev[c]
  <2>1. n \in Nodes
    BY <1>13, ConsiderFacts
  <2>2. n \in H /\ m.head[n] = c
    BY <1>3, <2>1 DEF HeadOK
  <2>3. ~Has("LIST_FLAG_ORDERED") => m.tag[n] = t
    BY <1>13, <2>1, ConsiderNamed
  <2>4. p.node = n /\ pos[n] <= pos[n]
    BY <1>12, <1>13, <2>1
  <2> HIDE DEF n, p
  <2>5. Place(m, H, pos, c, t, n)
    BY <2>2, <2>3, <2>4 DEF Place
  <2>6. QED
    BY <1>12, <2>4, <2>5 DEF p
<1>14. CASE ~last
  <2>1. p.node = node
    BY <1>12, <1>14
  <2>2. CASE m.next[c] = NULL
    <3>1. Len(path) = 0 /\ hits = {} /\ start[1] = c
      BY <1>2, <1>6, <1>8, <2>2
    <3>2. node = c
      BY <3>1
    <3>3. \A x \in H : m.head[x] # c
      BY <1>3, <2>2 DEF NodeOK, HeadOK
    <3> HIDE DEF node
    <3>4. Place(m, H, pos, c, t, node)
      BY <2>2, <3>2, <3>3 DEF Place
    <3>5. QED
      BY <1>12, <2>1, <3>4
  <2>3. CASE m.next[c] # NULL
    <3> DEFINE k == pos[start[2]]
    <3>1. /\ k \in Nat /\ k >= 1 /\ start[2] \in H
          /\ \/ k = 1 /\ start[1] = c
             \/ start[1] \in H /\ m.head[start[1]] = c /\ pos[start[1]] = k - 1
      BY <1>2, <1>3, <2>3 DEF NodeOK
    <3>2. /\ Len(path) = m.hits[c] - k + 1
          /\ \A i \in 1..Len(path) : pos[path[i]] = k + i - 1
      BY <1>5, <2>3 DEF Along
    <3>3. k = 1 \/ (~Has("LIST_FLAG_ORDERED") => m.tag[start[2]] = t)
      BY <1>2, <2>3
    <3> HIDE DEF k
    <3>4. \/ before = c /\ passed = 0 /\ hits # {} /\ k = 1
          \/ /\ before \in H /\ before \notin Chains /\ m.head[before] = c
             /\ pos[before] = k + passed - 1
      <4>1. CASE passed = 0
        <5>1. hits # {}
          BY <1>6, <2>3, <4>1
        <5>2. before = start[1]
          BY <4>1
        <5>3. QED
          BY <1>3, <3>1, <4>1, <5>1, <5>2
      <4>2. CASE passed # 0
        <5>1. before = path[passed] /\ passed \in 1..Len(path)
          <6>1. before = path[passed]
            BY <4>2
          <6> HIDE DEF passed, before
          <6>2. QED
            BY <1>6, <1>10, <4>2, <6>1
        <5>2. before \in H /\ m.head[before] = c /\ pos[before] = k + passed - 1
          BY <1>6, <3>2, <5>1
        <5>3. QED
          BY <1>3, <5>2
      <4>3. QED
        BY <4>1, <4>2
    <3>5. node \in H /\ m.head[node] = c
      BY <1>3, <1>6, <1>8, <3>4
    <3>6. hits # {} => pos[node] <= pos[path[Min(hits)]]
      <4> SUFFICES ASSUME hits # {} PROVE pos[node] <= pos[path[Min(hits)]]
        OBVIOUS
      <4>1. CASE before \in Chains
        <5>1. node = path[Min(hits)] /\ node \in Nodes
          BY <3>5, <4>1
        <5>2. pos[node] \in Nat
          BY <5>1
        <5>3. QED
          BY <5>1, <5>2
      <4>2. CASE before \notin Chains
        <5>1. node = before
          BY <4>2
        <5>2. pos[before] = k + passed - 1
          BY <1>3, <3>4, <4>2
        <5>3. passed = Min(hits) - 1 /\ Min(hits) \in 1..Len(path)
          BY <1>8, <1>10
        <5>4. pos[path[Min(hits)]] = k + Min(hits) - 1
          BY <3>2, <5>3
        <5>5. QED
          BY <3>1, <5>1, <5>2, <5>3, <5>4
      <4>3. QED
        BY <4>1, <4>2
    <3> HIDE DEF node, before, passed
    <3>7. ASSUME ~Has("LIST_FLAG_ORDERED"), NEW x \in H, m.head[x] = c, m.tag[x] = t
          PROVE  \E y \in H : m.head[y] = c /\ m.tag[y] = t /\ node \in H /\ pos[node] <= pos[y]
      <4>1. hits # {}
        <5> SUFFICES ASSUME hits = {} PROVE FALSE
          OBVIOUS
        <5>1. \A i \in 1..Len(path) : m.tag[path[i]] # t
          BY <1>6, <1>9, <3>7, ConsiderNamed
        <5>2. CASE k = 1
          <6>1. pos[x] \in 1..m.hits[c] /\ x \in Nodes
            BY <1>3, <3>7 DEF NodeOK
          <6>2. pos[x] \in 1..Len(path)
            BY <1>3, <3>2, <5>2, <6>1
          <6>3. path[pos[x]] \in H /\ m.head[path[pos[x]]] = c /\ pos[path[pos[x]]] = pos[x]
            BY <1>6, <3>2, <5>2, <6>1, <6>2
          <6>4. path[pos[x]] = x
            BY <3>7, <6>3 DEF Shape, Apart
          <6>5. QED
            BY <3>7, <5>1, <6>2, <6>4
        <5>3. CASE k # 1
          <6>1. m.tag[start[2]] = t
            BY <3>3, <3>7, <5>3
          <6>2. 1 \in 1..Len(path)
            BY <1>6, <2>3
          <6>3. path[1] \in H /\ m.head[path[1]] = c /\ pos[path[1]] = k
            BY <1>6, <3>1, <3>2, <6>2
          <6>4. path[1] = start[2]
            BY <1>2, <2>3, <3>1, <6>3 DEF Shape, Apart, k
          <6>5. QED
            BY <5>1, <6>1, <6>2, <6>4
        <5>4. QED
          BY <5>2, <5>3
      <4> DEFINE y == path[Min(hits)]
      <4>2. y \in H /\ m.head[y] = c
        BY <1>6, <1>8, <4>1
      <4>3. m.tag[y] = t
        BY <1>8, <3>7, <4>1, <4>2, ConsiderNamed
      <4>4. QED
        BY <3>5, <3>6, <4>1, <4>2, <4>3
    <3>8. Place(m, H, pos, c, t, node)
      BY <3>5, <3>7 DEF Place
    <3>9. QED
      BY <1>12, <2>1, <3>8
  <2>4. QED
    BY <2>2, <2>3
<1>15. QED
  BY <1>13, <1>14

(* Going back over the items of one name ends at an item of the chain.     *)
LEMMA RewoundFacts ==
    ASSUME config \in Config, NEW m \in Memory, NEW H \in SUBSET Nodes,
           NEW pos \in [Nodes -> Nat], Shape(m, H, pos), NEW n \in H, NEW t \in Tags,
           NEW r, r = Rewound(m, n, t)
    PROVE  r \in H /\ m.head[r] = m.head[n] /\ pos[r] <= pos[n]
<1> DEFINE c == m.head[n]
           items == Items(m, c)
           at == {i \in 1..Len(items) : items[i] = n}
           other == {i \in 1 .. Min(at) - 1 :
                        ~ListConsiderInsertPoint(m, items[i], t, "neither")}
<1>1. c \in Heads /\ n \notin Chains /\ c = ListGetHead(m, n)
  BY Basics DEF Shape, NodeOK, ListGetHead
<1>2. r = IF at = {} THEN n ELSE IF other = {} THEN items[1] ELSE items[Max(other) + 1]
  BY <1>1 DEF Rewound
<1>3. Listed(m, H, pos, c, items)
  <2> HIDE DEF c
  <2>1. QED
    BY <1>1, ItemsFacts
<1>4. /\ Len(items) \in Nat
      /\ \A i \in 1..Len(items) : items[i] \in H /\ m.head[items[i]] = c /\ pos[items[i]] = i
      /\ pos[n] \in 1..Len(items) /\ items[pos[n]] = n
  <2> HIDE DEF items
  <2>1. QED
    BY <1>3 DEF Listed
<1>5. at = {pos[n]}
  BY <1>4
<1>6. Min(at) = pos[n]
  <2>1. at \subseteq Nat /\ at # {}
    BY <1>5
  <2> HIDE DEF at
  <2>2. Min(at) \in at
    BY <2>1, MinFacts
  <2>3. QED
    BY <1>5, <2>2
<1>7. other # {} => Max(other) \in 1 .. pos[n] - 1
  <2> SUFFICES ASSUME other # {} PROVE Max(other) \in 1 .. pos[n] - 1
    OBVIOUS
  <2>1. other \subseteq 1 .. pos[n] - 1 /\ pos[n] \in Nat
    BY <1>6
  <2>2. other \subseteq 0 .. pos[n]
    BY <2>1
  <2> HIDE DEF other
  <2>3. Max(other) \in other
    BY <2>1, <2>2, MaxFacts
  <2>4. QED
    BY <2>1, <2>3
<1> HIDE DEF items, at, other, c
<1>8. PICK j \in 1..pos[n] : r = items[j]
  <2>1. CASE at = {} \/ other = {}
    BY <1>2, <1>4, <1>5, <2>1
  <2>2. CASE at # {} /\ other # {}
    <3>1. r = items[Max(other) + 1]
      BY <1>2, <2>2
    <3>2. Max(other) + 1 \in 1..pos[n]
      BY <1>4, <1>7, <2>2
    <3>3. QED
      BY <3>1, <3>2
  <2>3. QED
    BY <2>1, <2>2
<1>9. r \in H /\ m.head[r] = c /\ pos[r] = j
  BY <1>4, <1>8
<1>10. QED
  BY <1>4, <1>8, <1>9 DEF c

(* The search itself gives an item of the name, and if there is one from   *)
(* where it starts, and nothing is in order, it gives one.                 *)
LEMMA SearchFromFacts ==
    ASSUME config \in Config, NEW m \in Memory, NEW H \in SUBSET Nodes,
           NEW pos \in [Nodes -> Nat], Shape(m, H, pos), NEW r \in H, NEW t \in Tags,
           NEW f, f = SearchFrom(m, r, t)
    PROVE  /\ f = NULL \/ (f \in H /\ m.head[f] = m.head[r] /\ m.tag[f] = t)
           /\ f = NULL /\ ~Has("LIST_FLAG_ORDERED") =>
                \A x \in H : m.head[x] = m.head[r] /\ m.tag[x] = t => pos[x] < pos[r]
<1> DEFINE c == m.head[r]
           path == Walk(m, r)
           hits == {i \in 1..Len(path) : m.tag[path[i]] = t}
           past == {i \in 1 .. Min(hits) : m.tag[path[i]] > t}
<1>1. Along(m, H, pos, c, pos[r], path)
  BY WalkIsAlong
<1>2. /\ path \in Seq(H) /\ Len(path) = m.hits[c] - pos[r] + 1 /\ Len(path) \in Nat
      /\ \A i \in 1..Len(path) : path[i] \in H /\ m.head[path[i]] = c
                                 /\ pos[path[i]] = pos[r] + i - 1
      /\ m.hits[c] \in Nat /\ pos[r] \in 1..m.hits[c]
  <2> HIDE DEF path
  <2>1. m.hits[c] \in Nat /\ pos[r] \in 1..m.hits[c]
    BY Basics DEF Shape, NodeOK, Memory
  <2>2. QED
    BY <1>1, <2>1, ElementOfSeq DEF Along
<1>3. f = IF hits = {} \/ (Has("LIST_FLAG_ORDERED") /\ past # {}) THEN NULL
          ELSE path[Min(hits)]
  BY DEF SearchFrom
<1>4. hits # {} => Min(hits) \in 1..Len(path) /\ m.tag[path[Min(hits)]] = t
  <2>1. hits \subseteq Nat
    OBVIOUS
  <2>2. \A i \in hits : i \in 1..Len(path) /\ m.tag[path[i]] = t
    OBVIOUS
  <2> HIDE DEF hits
  <2>3. QED
    BY <2>1, <2>2, MinFacts
<1>5. hits = {} => \A i \in 1..Len(path) : m.tag[path[i]] # t
  OBVIOUS
<1>6. NULL \notin H
  BY Basics
<1> HIDE DEF hits, past, path
<1>7. f = NULL \/ (f \in H /\ m.head[f] = c /\ m.tag[f] = t)
  BY <1>2, <1>3, <1>4
<1>8. ASSUME f = NULL, ~Has("LIST_FLAG_ORDERED"), NEW x \in H, m.head[x] = c, m.tag[x] = t
      PROVE  pos[x] < pos[r]
  <2>1. hits = {}
    BY <1>2, <1>3, <1>4, <1>6, <1>8
  <2> SUFFICES ASSUME ~(pos[x] < pos[r]) PROVE FALSE
    OBVIOUS
  <2>2. pos[x] \in 1..m.hits[c] /\ x \in Nodes /\ pos[x] \in Nat
    BY <1>8 DEF Shape, NodeOK
  <2> DEFINE i == pos[x] - pos[r] + 1
  <2>3. i \in 1..Len(path) /\ pos[r] + i - 1 = pos[x]
    BY <1>2, <2>2
  <2> HIDE DEF i
  <2>4. path[i] \in H /\ m.head[path[i]] = c /\ pos[path[i]] = pos[x]
    BY <1>2, <2>3
  <2>5. path[i] = x
    BY <1>8, <2>4 DEF Shape, Apart
  <2>6. QED
    BY <1>5, <1>8, <2>1, <2>3, <2>5
<1>9. QED
  BY <1>7, <1>8

(* What a search does to the item it returns.                              *)
LEMMA FavouredKeeps ==
    ASSUME config \in Config, NEW m, Sane(m), NEW n \in Held(m),
           config.max > 0 => Straight, NEW m2, m2 = Favoured(m, n)
    PROVE  Sane(m2) /\ m2.tag = m.tag
<1> DEFINE H == Held(m)
           cached == IF Has("LIST_FLAG_CACHE") THEN Cached(m, n) ELSE m
           a == cached.prev[n]
<1>1. Threaded(m, H) /\ m.wild = FALSE
  BY DEF Sane
<1>2. m.head[n] \in Heads /\ Heads \subseteq Chains /\ H \subseteq Nodes
  BY <1>1, Basics DEF Threaded, Shape, NodeOK
<1>3. /\ Threaded(cached, H)
      /\ cached.next = m.next /\ cached.prev = m.prev /\ cached.head = m.head
      /\ cached.tag = m.tag /\ cached.hits = m.hits
      /\ cached.wild = m.wild
  <2>1. CASE Has("LIST_FLAG_CACHE")
    <3> DEFINE mm == Cached(m, n)
    <3> HIDE DEF H
    <3>1. n \in H
      BY DEF H
    <3>2. mm = Cached(m, n)
      OBVIOUS
    <3> HIDE DEF mm
    <3>3. /\ Threaded(mm, H)
          /\ mm.next = m.next /\ mm.prev = m.prev /\ mm.head = m.head
          /\ mm.tag = m.tag /\ mm.hits = m.hits
          /\ mm.wild = m.wild
      BY <1>1, <1>2, <3>1, <3>2, SideKeeps
    <3>4. cached = mm
      BY <2>1 DEF mm
    <3>5. QED
      BY <3>3, <3>4
  <2>2. CASE ~Has("LIST_FLAG_CACHE")
    BY <1>1, <2>2
  <2>3. QED
    BY <2>1, <2>2
<1>4. m2 = IF Has("LIST_FLAG_SELFORG") /\ ~Has("LIST_FLAG_ORDERED")
           THEN ListSwapItems(cached, a, n) ELSE cached
  BY DEF Favoured, Cached
<1> HIDE DEF cached
<1>5. /\ Threaded(m2, H)
      /\ m2.head = m.head /\ m2.tag = m.tag /\ m2.hits = m.hits
      /\ m2.wild = m.wild
  <2>1. CASE m2 = cached
    BY <1>3, <2>1
  <2>2. CASE m2 = ListSwapItems(cached, a, n) /\ Has("LIST_FLAG_SELFORG")
    <3>1. PICK pos \in [Nodes -> Nat] : Shape(cached, H, pos)
      BY <1>3 DEF Threaded
    <3>2. /\ NodeOK(cached, H, pos, n) /\ Apart(cached, H, pos)
          /\ \A x \in H : NodeOK(cached, H, pos, x)
      BY <3>1 DEF Shape
    <3>3. CASE a \in Chains
      <4>1. m2 = cached
        BY <2>2, <3>3 DEF ListSwapItems
      <4>2. QED
        BY <1>3, <4>1
    <3>4. CASE a \notin Chains
      <4>1. a \in H /\ cached.head[a] = cached.head[n] /\ pos[a] = pos[n] - 1
        BY <1>2, <1>3, <3>2, <3>4 DEF NodeOK
      <4>2. pos[n] \in 1..cached.hits[cached.head[n]] /\ pos[n] \in Nat
        BY <1>2, <3>2 DEF NodeOK
      <4>3. cached.next[a] = n
        BY <3>2, <4>1, <4>2 DEF NodeOK, Apart
      <4>4. ~Straight
        BY <2>2 DEF Straight
      <4> HIDE DEF a, H
      <4>5. n \in H
        BY DEF H
      <4>6. /\ Threaded(m2, H)
            /\ m2.head = cached.head /\ m2.tag = cached.tag /\ m2.hits = cached.hits
            /\ m2.wild = cached.wild
        BY <1>3, <2>2, <4>1, <4>3, <4>4, <4>5, SwapKeeps
      <4>7. QED
        BY <1>3, <4>6
    <3>5. QED
      BY <3>3, <3>4
  <2>3. QED
    BY <1>4, <2>1, <2>2
<1>6. Held(m2) = H
  BY <1>5 DEF Held
<1>7. Homed(m2) /\ Few(m2)
  BY <1>5, <1>6 DEF Sane, Homed, Few
<1>8. m2.wild = FALSE
  BY <1>1, <1>5
<1>9. QED
  BY <1>5, <1>6, <1>7, <1>8 DEF Sane
------------------------------------------------------------------------------
(* The calls, one by one.                                                  *)

(* A name's chain, and an item's.                                          *)
LEMMA HomeFacts ==
    ASSUME config \in Config, NEW m, Sane(m)
    PROVE  /\ \A t \in Tags : ChainOf(t) \in Heads
           /\ m \in Memory /\ Held(m) \in SUBSET Nodes /\ Threaded(m, Held(m))
           /\ NULL \notin Held(m) /\ Heads \intersect Held(m) = {}
           /\ \A n \in Held(m) : m.head[n] \in Heads /\ m.head[n] = ChainOf(m.tag[n])
                                 /\ m.tag[n] \in Tags
<1>1. \A t \in Tags : ChainOf(t) \in Heads
  BY ListAssumption DEF ChainOf, Heads
<1>2. m \in Memory /\ Held(m) \in SUBSET Nodes /\ Threaded(m, Held(m))
  BY DEF Sane, Threaded, Held
<1>3. \A n \in Held(m) : m.tag[n] \in Tags
  BY <1>2 DEF Memory, Held
<1>4. NULL \notin Held(m) /\ Heads \intersect Held(m) = {}
  BY <1>2, Basics
<1>5. QED
  BY <1>1, <1>2, <1>3, <1>4 DEF Sane, Homed

(* A search keeps the items and their names.  What it finds has the name   *)
(* it looks for; unless the list is in order, it finds one if there is one. *)
LEMMA FindKeeps ==
    ASSUME config \in Config, WellUsed(config), Sane(mem), NEW t \in Tags,
           ListFindNamedItem(t, {})
    PROVE  /\ Sane(mem') /\ mem'.tag = mem.tag /\ config' = config
           /\ \/ \E n \in Held(mem) : mem.tag[n] = t /\ found' = <<t, n>>
              \/ /\ found' = <<t, NULL>>
                 /\ ~Has("LIST_FLAG_ORDERED") => \A n \in Held(mem) : mem.tag[n] # t
<1> DEFINE H == Held(mem)
           c == ChainOf(t)
           point == ListFindNamedItemInsert(mem, c, t, {})
           node == point.node
           first == IF node \in Chains THEN mem.next[node] ELSE node
           n == IF Freed(mem, first) THEN NULL
                ELSE IF first = NULL THEN NULL
                ELSE SearchFrom(mem, Rewound(mem, first, t), t)
<1>1. /\ c \in Heads /\ mem \in Memory /\ H \in SUBSET Nodes /\ Threaded(mem, H)
      /\ NULL \notin H /\ Heads \intersect H = {} /\ Heads \subseteq Chains
      /\ Chains \intersect Nodes = {} /\ NULL \notin Chains
      /\ \A x \in H : mem.head[x] \in Heads /\ mem.head[x] = ChainOf(mem.tag[x])
  BY HomeFacts, Basics
<1>2. PICK pos \in [Nodes -> Nat] : Shape(mem, H, pos)
  BY <1>1 DEF Threaded
<1>3. point.mem = mem /\ Place(mem, H, pos, c, t, node)
  <2> HIDE DEF c, H
  <2>1. QED
    BY <1>1, <1>2, SearchFacts
<1>4. /\ found' = <<t, n>>
      /\ mem' = IF Freed(mem, first) THEN [mem EXCEPT !.wild = TRUE]
                ELSE IF n = NULL THEN mem ELSE Favoured(mem, n)
      /\ config' = config
  BY <1>3 DEF ListFindNamedItem
<1> HIDE DEF point, n
<1>5. \/ first = NULL /\ mem.next[c] = NULL /\ node = c
      \/ first \in H /\ mem.head[first] = c /\ node = first
  BY <1>1, <1>3 DEF Place
<1>6. ~Freed(mem, first)
  BY <1>1, <1>5, Basics DEF Freed, Held
<1>7. CASE first = NULL
  <2>1. n = NULL /\ node = c
    BY <1>1, <1>5, <1>6, <1>7 DEF n
  <2>2. mem' = mem
    BY <1>4, <1>6, <2>1
  <2>3. node \notin H
    BY <1>1, <2>1
  <2>4. ~Has("LIST_FLAG_ORDERED") => \A x \in H : mem.head[x] = c => mem.tag[x] # t
    BY <1>3, <2>3 DEF Place
  <2>5. QED
    BY <1>1, <1>4, <2>1, <2>2, <2>4
<1>8. CASE first # NULL
  <2> DEFINE r == Rewound(mem, first, t)
  <2>1. first \in H /\ mem.head[first] = c /\ node = first
    BY <1>5, <1>8
  <2> HIDE DEF first, c, H, node
  <2>2. r \in H /\ mem.head[r] = c /\ pos[r] <= pos[first]
    <3> DEFINE rr == r
    <3>1. rr = Rewound(mem, first, t)
      OBVIOUS
    <3> HIDE DEF rr
    <3>2. rr \in H /\ mem.head[rr] = mem.head[first] /\ pos[rr] <= pos[first]
      BY <1>1, <1>2, <2>1, <3>1, RewoundFacts
    <3>3. QED
      BY <2>1, <3>2 DEF rr
  <2>3. n = SearchFrom(mem, r, t)
    BY <1>6, <1>8 DEF n
  <2> HIDE DEF r
  <2>4. /\ n = NULL \/ (n \in H /\ mem.head[n] = c /\ mem.tag[n] = t)
        /\ n = NULL /\ ~Has("LIST_FLAG_ORDERED") =>
             \A x \in H : mem.head[x] = c /\ mem.tag[x] = t => pos[x] < pos[r]
    <3>1. /\ n = NULL \/ (n \in H /\ mem.head[n] = mem.head[r] /\ mem.tag[n] = t)
          /\ n = NULL /\ ~Has("LIST_FLAG_ORDERED") =>
               \A x \in H : mem.head[x] = mem.head[r] /\ mem.tag[x] = t => pos[x] < pos[r]
      BY <1>1, <1>2, <2>2, <2>3, SearchFromFacts
    <3>2. QED
      BY <2>2, <3>1
  <2>5. CASE n = NULL
    <3>1. mem' = mem
      BY <1>4, <1>6, <2>5
    <3>2. ~Has("LIST_FLAG_ORDERED") => \A x \in H : mem.tag[x] # t
      <4> SUFFICES ASSUME ~Has("LIST_FLAG_ORDERED"), NEW x \in H, mem.tag[x] = t PROVE FALSE
        OBVIOUS
      <4>1. mem.head[x] = c
        BY <1>1 DEF c
      <4>2. PICK y \in H : mem.head[y] = c /\ mem.tag[y] = t /\ pos[node] <= pos[y]
        BY <1>3, <4>1 DEF Place
      <4>3. pos[y] < pos[r]
        BY <2>4, <2>5, <4>2
      <4>4. y \in Nodes /\ r \in Nodes /\ first \in Nodes
        BY <1>1, <2>1, <2>2
      <4>5. pos[y] \in Nat /\ pos[r] \in Nat /\ pos[first] \in Nat
        BY <4>4
      <4>6. QED
        BY <2>1, <2>2, <4>2, <4>3, <4>5
    <3>3. QED
      BY <1>4, <2>5, <3>1, <3>2 DEF H
  <2>6. CASE n # NULL
    <3>1. n \in H /\ mem.tag[n] = t
      BY <2>4, <2>6
    <3>2. mem' = Favoured(mem, n)
      BY <1>4, <1>6, <2>6
    <3>3. config.max > 0 => Straight
      BY DEF WellUsed, Straight, Has
    <3>4. Sane(mem') /\ mem'.tag = mem.tag
      BY <3>1, <3>2, <3>3, FavouredKeeps DEF H
    <3>5. QED
      BY <1>4, <3>1, <3>4 DEF H
  <2>7. QED
    BY <2>5, <2>6
<1>9. QED
  BY <1>7, <1>8

(* A new item is added, and only the list's maximum takes others away.     *)
LEMMA AddKeeps ==
    ASSUME config \in Config, WellUsed(config), Sane(mem), NEW t \in Tags, NEW n \in Nodes,
           ListAddNamedItem(t, n, {})
    PROVE  /\ Sane(mem') /\ config' = config /\ found' = found
           /\ n \in Held(mem') /\ n \notin Held(mem) /\ Held(mem') \subseteq Held(mem) \union {n}
           /\ mem'.tag[n] = t
           /\ \A x \in Held(mem') : x # n => mem'.tag[x] = mem.tag[x]
<1> DEFINE H == Held(mem)
           c == ChainOf(t)
           point == IF Has("LIST_FLAG_ORDERED") THEN ListFindNamedItemInsert(mem, c, t, {})
                    ELSE [mem |-> mem, node |-> ListGetLast(mem, c)]
           at == point.node
<1>1. /\ c \in Heads /\ mem \in Memory /\ H \in SUBSET Nodes /\ Threaded(mem, H)
      /\ NULL \notin H /\ Heads \intersect H = {}
  BY HomeFacts
<1>2. /\ mem.tag[n] = NULL /\ mem' = ListInsertTypedItem(point.mem, at, n, t)
      /\ config' = config /\ found' = found
  BY DEF ListAddNamedItem
<1>3. /\ point.mem = mem
      /\ at = c \/ (at \in H /\ mem.head[at] = c)
      /\ config.max > 0 => at = ListGetLast(mem, c)
  <2>1. CASE Has("LIST_FLAG_ORDERED")
    <3> DEFINE p == ListFindNamedItemInsert(mem, c, t, {})
    <3>1. PICK pos \in [Nodes -> Nat] : Shape(mem, H, pos)
      BY <1>1 DEF Threaded
    <3>2. p.mem = mem /\ Place(mem, H, pos, c, t, p.node)
      <4> HIDE DEF c, H
      <4>1. QED
        BY <1>1, <3>1, SearchFacts
    <3> HIDE DEF p
    <3>3. point = p
      BY <2>1 DEF p
    <3>4. ~(config.max > 0)
      BY <2>1 DEF WellUsed, Has
    <3>5. QED
      BY <3>2, <3>3, <3>4 DEF Place
  <2>2. CASE ~Has("LIST_FLAG_ORDERED")
    <3> DEFINE last == ListGetLast(mem, c)
    <3>1. last = ListGetLast(mem, c)
      OBVIOUS
    <3> HIDE DEF last, H, c
    <3>2. last = c \/ (last \in H /\ mem.head[last] = c)
      BY <1>1, <3>1, LastFacts
    <3>3. point.mem = mem /\ point.node = last
      BY <2>2 DEF last
    <3>4. QED
      BY <3>1, <3>2, <3>3
  <2>3. QED
    BY <2>1, <2>2
<1> HIDE DEF point
<1>4. n \in Nodes \ H
  BY <1>2 DEF Held
<1>5. mem' = ListInsertTypedItem(mem, at, n, t)
  BY <1>2, <1>3
<1> HIDE DEF at
<1>6. /\ at \in Heads \union Held(mem)
      /\ ChainOf(t) = IF at \in Held(mem) THEN mem.head[at] ELSE at
      /\ config.max > 0 => Straight /\ at = ListGetLast(mem, ChainOf(t))
  <2>1. config.max > 0 => Straight
    BY DEF WellUsed, Straight, Has
  <2>2. QED
    BY <1>1, <1>3, <2>1
<1>7. /\ Sane(mem') /\ n \in Held(mem') /\ Held(mem') \subseteq Held(mem) \union {n}
      /\ mem'.tag[n] = t
      /\ \A x \in Held(mem') : x # n => mem'.tag[x] = mem.tag[x]
  BY <1>4, <1>5, <1>6, InsertKeeps DEF H
<1>8. QED
  BY <1>2, <1>4, <1>7

(* An item that is taken off its chain and put somewhere else on it.       *)
LEMMA MoveKeeps ==
    ASSUME config \in Config, NEW m, Sane(m), NEW n \in Held(m), NEW c, c = m.head[n],
           NEW m1, m1 = ListUnThreadNode(m, n),
           NEW at, at = c \/ (at \in Held(m) \ {n} /\ m1.head[at] = c),
           NEW m2, m2 = ListThreadNode(m1, at, n)
    PROVE  Sane(m2) /\ m2.tag = m.tag
<1> DEFINE H == Held(m)
           G == H \ {n}
<1>1. /\ c \in Heads /\ m \in Memory /\ H \in SUBSET Nodes /\ Threaded(m, H)
      /\ NULL \notin H /\ Heads \intersect H = {} /\ m.wild = FALSE
  BY HomeFacts DEF Sane
<1>2. /\ Threaded(m1, G)
      /\ \A x \in G : m1.head[x] = m.head[x]
      /\ m1.tag = m.tag
      /\ m1.wild = m.wild
      /\ m.head[n] \in Heads /\ m.hits[m.head[n]] > 0
      /\ \A d \in Heads : m1.hits[d] = IF d = m.head[n] THEN m.hits[d] - 1 ELSE m.hits[d]
  <2> HIDE DEF H
  <2>1. n \in H
    BY DEF H
  <2>2. QED
    BY <1>1, <2>1, UnThreadKeeps
<1>3. at \in Heads \union G /\ n \in Nodes \ G /\ c = IF at \in G THEN m1.head[at] ELSE at
  BY <1>1
<1>4. G \union {n} = H
  OBVIOUS
<1> HIDE DEF G
<1>5. /\ Threaded(m2, G \union {n})
      /\ \A x \in G : m2.head[x] = m1.head[x]
      /\ m2.head[n] = c /\ c \in Heads
      /\ m2.tag = m1.tag
      /\ m2.wild = m1.wild
      /\ \A d \in Heads : m2.hits[d] = IF d = c THEN m1.hits[d] + 1 ELSE m1.hits[d]
  BY <1>2, <1>3, ThreadKeeps
<1>6. m2.tag = m.tag /\ Held(m2) = H /\ Threaded(m2, H)
  BY <1>2, <1>4, <1>5 DEF Held
<1>7. \A d \in Heads : m.hits[d] \in Nat
  BY <1>1, Basics DEF Memory
<1>8. \A d \in Heads : m2.hits[d] = m.hits[d]
  BY <1>2, <1>5, <1>7
<1>9. \A x \in H : m2.head[x] = m.head[x]
  BY <1>2, <1>4, <1>5
<1>10. Homed(m2) /\ Few(m2)
  BY <1>6, <1>8, <1>9 DEF Sane, Homed, Few
<1>11. m2.wild = FALSE
  BY <1>1, <1>2, <1>5
<1>12. QED
  BY <1>6, <1>10, <1>11 DEF Sane

(* To the end, or to where the list takes its end to be.                   *)
LEMMA EndKeeps ==
    ASSUME config \in Config, NEW m, Sane(m), NEW n \in Held(m),
           NEW m2, m2 = ToEnd(m, n)
    PROVE  Sane(m2) /\ m2.tag = m.tag
<1> DEFINE H == Held(m)
           G == H \ {n}
           c == m.head[n]
           m1 == ListUnThreadNode(m, n)
           at == ListGetLast(m1, c)
<1>0. m1 = ListUnThreadNode(m, n) /\ c = m.head[n] /\ at = ListGetLast(m1, c)
  OBVIOUS
<1>1. c \in Heads /\ Threaded(m, H)
  BY HomeFacts DEF Sane
<1>2. m2 = ListThreadNode(m1, at, n)
  BY DEF ToEnd
<1> HIDE DEF m1, at
<1>3. Threaded(m1, G)
  <2> HIDE DEF H
  <2>1. n \in H
    BY DEF H
  <2>2. QED
    BY <1>0, <1>1, <2>1, UnThreadKeeps
<1> HIDE DEF c
<1>4. at = c \/ (at \in G /\ m1.head[at] = c)
  <2> HIDE DEF G
  <2>1. QED
    BY <1>0, <1>1, <1>3, LastFacts
<1>5. QED
  BY <1>0, <1>2, <1>4, MoveKeeps

(* A pass of the sort over the items of a list, as far as it has come: the *)
(* node before the one it looks at.                                        *)
Scans(tag) ==
    {s \in [m : Memory, prev : Nodes \union {NULL}, curr : Nodes \union {NULL}] :
        /\ Sane(s.m) /\ s.m.tag = tag
        /\ s.curr = NULL \/ s.curr \in Held(s.m)
        /\ s.prev = NULL \/ (s.prev \in Held(s.m) /\ s.m.next[s.prev] = s.curr)}

LEMMA ScanKeeps ==
    ASSUME config \in Config, ~Straight, config.max = 0, NEW tag, NEW s \in Scans(tag)
    PROVE  SortStep(s) \in Scans(tag)
<1> DEFINE a == s.prev
           b == s.curr
           H == Held(s.m)
           swap == a # NULL /\ s.m.tag[a] < s.m.tag[b]
           m2 == IF swap THEN ListSwapItems(s.m, a, b) ELSE s.m
<1>1. /\ Sane(s.m) /\ s.m.tag = tag /\ Threaded(s.m, H) /\ s.m \in Memory
      /\ a \in Nodes \union {NULL}
      /\ b = NULL \/ b \in H
      /\ a = NULL \/ (a \in H /\ s.m.next[a] = b)
      /\ H \subseteq Nodes
  BY DEF Scans, Sane, Held, Threaded
<1>2. CASE b = NULL
  <2>1. SortStep(s) = s
    BY <1>2 DEF SortStep
  <2>2. QED
    BY <2>1
<1>3. CASE b # NULL
  <2>1. SortStep(s) = [m |-> m2, prev |-> b, curr |-> m2.next[b]]
    BY <1>3 DEF SortStep
  <2>2. /\ Threaded(m2, H)
        /\ m2.head = s.m.head /\ m2.tag = s.m.tag /\ m2.hits = s.m.hits
        /\ m2.wild = s.m.wild
    <3>1. CASE swap
      <4> HIDE DEF H, a, b
      <4>1. a \in H /\ b \in H /\ s.m.next[a] = b
        BY <1>1, <1>3, <3>1
      <4>2. m2 = ListSwapItems(s.m, a, b)
        BY <3>1
      <4> HIDE DEF m2
      <4>3. QED
        BY <1>1, <4>1, <4>2, SwapKeeps
    <3>2. CASE ~swap
      <4>1. m2 = s.m
        BY <3>2
      <4>2. QED
        BY <1>1, <4>1
    <3>3. QED
      BY <3>1, <3>2
  <2> HIDE DEF m2
  <2>3. Held(m2) = H
    BY <2>2 DEF Held
  <2>4. Homed(m2) /\ Few(m2)
    BY <1>1, <2>2, <2>3 DEF Sane, Homed, Few
  <2>5. m2.wild = FALSE
    BY <1>1, <2>2 DEF Sane
  <2>6. Sane(m2) /\ m2 \in Memory
    BY <2>2, <2>3, <2>4, <2>5 DEF Sane, Threaded
  <2>7. m2.next[b] = NULL \/ m2.next[b] \in H
    <3>1. PICK pos \in [Nodes -> Nat] : Shape(m2, H, pos)
      BY <2>2 DEF Threaded
    <3>2. NodeOK(m2, H, pos, b)
      BY <1>1, <1>3, <3>1 DEF Shape
    <3>3. QED
      BY <3>2 DEF NodeOK
  <2> DEFINE next == m2.next[b]
  <2>8. next = m2.next[b]
    OBVIOUS
  <2> HIDE DEF next
  <2>9. b \in Nodes /\ b \in H /\ next \in Nodes \union {NULL} /\ m2.tag = tag
    BY <1>1, <1>3, <2>2, <2>7, <2>8
  <2>10. [m |-> m2, prev |-> b, curr |-> next] \in Scans(tag)
    <3> DEFINE s2 == [m |-> m2, prev |-> b, curr |-> next]
    <3>1. s2 \in [m : Memory, prev : Nodes \union {NULL}, curr : Nodes \union {NULL}]
      BY <2>6, <2>9
    <3>2. s2.m = m2 /\ s2.prev = b /\ s2.curr = next
      OBVIOUS
    <3> HIDE DEF s2, H, a, b
    <3>3. s2 \in Scans(tag)
      BY <2>3, <2>6, <2>7, <2>8, <2>9, <3>1, <3>2 DEF Scans
    <3>4. QED
      BY <3>3 DEF s2
  <2>11. QED
    BY <2>1, <2>8, <2>10
<1>4. QED
  BY <1>2, <1>3

LEMMA PassKeeps ==
    ASSUME config \in Config, ~config.map, ~Straight, config.max = 0, NEW m, Sane(m)
    PROVE  Sane(SortPass(m)) /\ SortPass(m).tag = m.tag
<1> DEFINE N == 2 * Cardinality(Nodes)
           Q == Scans(m.tag)
           base == [m |-> m, prev |-> NULL, curr |-> m.next[1]]
           step == [p \in (1..N) \X Q |-> SortStep(p[2])]
           F(g) == g = [i \in 0..N |-> IF i = 0 THEN base ELSE SortStep(g[i - 1])]
           at == CHOOSE g : F(g)
<1>1. N \in Nat
  BY Basics, FS_CardinalityType
<1>2. SortPass(m) = at[N].m
  BY DEF SortPass
<1> HIDE DEF N
<1>3. \A s \in Q : SortStep(s) \in Q
  BY ScanKeeps
<1>4. base \in Q
  <2> DEFINE next == m.next[1]
  <2>1. /\ m \in Memory /\ Threaded(m, Held(m)) /\ Held(m) \subseteq Nodes
        /\ 1 \in Heads
    BY DEF Sane, Threaded, Held, Heads
  <2>2. next = NULL \/ next \in Held(m)
    <3>1. PICK pos \in [Nodes -> Nat] : Shape(m, Held(m), pos)
      BY <2>1 DEF Threaded
    <3>2. HeadOK(m, Held(m), pos, 1)
      BY <2>1, <3>1 DEF Shape
    <3>3. QED
      BY <3>2 DEF HeadOK
  <2> HIDE DEF next
  <2>3. base = [m |-> m, prev |-> NULL, curr |-> next]
    BY DEF next
  <2>4. base \in [m : Memory, prev : Nodes \union {NULL}, curr : Nodes \union {NULL}]
    BY <2>1, <2>2, <2>3
  <2>5. base.m = m /\ base.prev = NULL /\ base.curr = next
    BY <2>3
  <2> HIDE DEF base
  <2>6. QED
    BY <2>2, <2>4, <2>5 DEF Scans
<1> HIDE DEF base
<1>5. /\ step \in [(1..N) \X Q -> Q]
      /\ \A i \in 1..N, q \in Q : step[<<i, q>>] = SortStep(q)
  <2> HIDE DEF Q
  <2>1. QED
    BY <1>3
<1> HIDE DEF step
<1>6. PICK f \in [0..N -> Q] : Stepwise(f, N, base, step)
  <2> HIDE DEF Q
  <2>1. QED
    BY <1>1, <1>4, <1>5, StepsExist
<1>7. F(f)
  <2>1. \A i \in 1..N : f[i - 1] \in Q
    BY <1>1
  <2>2. \A i \in 1..N : f[i] = SortStep(f[i - 1])
    BY <1>5, <1>6, <2>1 DEF Stepwise
  <2>3. \A i \in 0..N : i = 0 \/ i \in 1..N
    BY <1>1
  <2> HIDE DEF Q
  <2>4. QED
    BY <1>1, <1>6, <2>2, <2>3 DEF Stepwise
<1>8. F(at)
  <2> HIDE DEF F
  <2>1. QED
    BY <1>7
<1> HIDE DEF at
<1>9. at[0] = base /\ \A i \in 1..N : at[i] = SortStep(at[i - 1])
  <2>1. 0 \in 0..N /\ \A i \in 1..N : i \in 0..N /\ i # 0
    BY <1>1
  <2>2. QED
    BY <1>8, <2>1
<1> HIDE DEF F, Q
<1> DEFINE T == {i \in Nat : i <= N => at[i] \in Q}
<1>10. 0 \in T
  BY <1>4, <1>9
<1>11. ASSUME NEW i \in Nat, i \in T PROVE i + 1 \in T
  <2> SUFFICES ASSUME i + 1 <= N PROVE at[i + 1] \in Q
    OBVIOUS
  <2>1. i + 1 \in 1..N /\ (i + 1) - 1 = i /\ i <= N
    BY <1>1
  <2>2. at[i] \in Q
    BY <1>11, <2>1
  <2>3. at[i + 1] = SortStep(at[i])
    BY <1>9, <2>1
  <2>4. QED
    BY <1>3, <2>2, <2>3
<1>12. Nat \subseteq T
  <2> HIDE DEF T
  <2>1. QED
    BY <1>10, <1>11, SetInduction
<1>13. at[N] \in Q
  BY <1>1, <1>12
<1>14. QED
  BY <1>2, <1>13 DEF Q, Scans

LEMMA SortKeeps ==
    ASSUME config \in Config, WellUsed(config), Sane(mem), ListSort
    PROVE  Sane(mem') /\ mem'.tag = mem.tag /\ config' = config /\ found' = found
<1> DEFINE N == 2 * Cardinality(Nodes)
           Q == {m \in Memory : Sane(m) /\ m.tag = mem.tag}
           step == [p \in (1..N) \X Q |-> SortPass(p[2])]
           F(g) == g = [i \in 0..N |-> IF i = 0 THEN mem ELSE SortPass(g[i - 1])]
           passes == CHOOSE g : F(g)
<1>1. N \in Nat
  BY Basics, FS_CardinalityType
<1>2. /\ "sort" \in config.calls /\ ~config.map
      /\ mem' = passes[N] /\ config' = config /\ found' = found
  BY DEF ListSort
<1> HIDE DEF N
<1>3. \A m \in Q : SortPass(m) \in Q
  <2>1. ~Straight
    BY <1>2 DEF Straight
  <2>2. config.max = 0
    BY <1>2, Basics DEF WellUsed
  <2>3. ASSUME NEW m \in Q PROVE SortPass(m) \in Q
    <3>1. Sane(SortPass(m)) /\ SortPass(m).tag = m.tag
      BY <1>2, <2>1, <2>2, PassKeeps
    <3>2. SortPass(m) \in Memory
      BY <3>1 DEF Sane, Threaded
    <3>3. QED
      BY <3>1, <3>2
  <2>4. QED
    BY <2>3
<1>4. mem \in Q
  BY DEF Sane, Threaded
<1>5. /\ step \in [(1..N) \X Q -> Q]
      /\ \A i \in 1..N, q \in Q : step[<<i, q>>] = SortPass(q)
  <2> HIDE DEF Q
  <2>1. QED
    BY <1>3
<1> HIDE DEF step
<1>6. PICK f \in [0..N -> Q] : Stepwise(f, N, mem, step)
  <2> HIDE DEF Q
  <2>1. QED
    BY <1>1, <1>4, <1>5, StepsExist
<1>7. F(f)
  <2> HIDE DEF Q
  <2>1. \A i \in 1..N : f[i - 1] \in Q
    BY <1>1
  <2>2. \A i \in 1..N : f[i] = SortPass(f[i - 1])
    BY <1>5, <1>6, <2>1 DEF Stepwise
  <2>3. \A i \in 0..N : i = 0 \/ i \in 1..N
    BY <1>1
  <2>4. QED
    BY <1>1, <1>6, <2>2, <2>3 DEF Stepwise
<1>8. F(passes)
  <2> HIDE DEF F
  <2>1. QED
    BY <1>7
<1> HIDE DEF passes
<1>9. passes[0] = mem /\ \A i \in 1..N : passes[i] = SortPass(passes[i - 1])
  <2>1. 0 \in 0..N /\ \A i \in 1..N : i \in 0..N /\ i # 0
    BY <1>1
  <2>2. QED
    BY <1>8, <2>1
<1> HIDE DEF F, Q
<1> DEFINE T == {i \in Nat : i <= N => passes[i] \in Q}
<1>10. 0 \in T
  BY <1>4, <1>9
<1>11. ASSUME NEW i \in Nat, i \in T PROVE i + 1 \in T
  <2> SUFFICES ASSUME i + 1 <= N PROVE passes[i + 1] \in Q
    OBVIOUS
  <2>1. i + 1 \in 1..N /\ (i + 1) - 1 = i /\ i <= N
    BY <1>1
  <2>2. passes[i] \in Q
    BY <1>11, <2>1
  <2>3. passes[i + 1] = SortPass(passes[i])
    BY <1>9, <2>1
  <2>4. QED
    BY <1>3, <2>2, <2>3
<1>12. Nat \subseteq T
  <2> HIDE DEF T
  <2>1. QED
    BY <1>10, <1>11, SetInduction
<1>13. mem' \in Q
  BY <1>1, <1>2, <1>12
<1>14. QED
  BY <1>2, <1>13 DEF Q

(* Deleting, moving and rotating.                                          *)
LEMMA DeleteNodeKeeps ==
    ASSUME config \in Config, Sane(mem), NEW n \in Nodes, DeleteNode(n)
    PROVE  /\ Sane(mem') /\ config' = config /\ found' = found
           /\ Held(mem') \subseteq Held(mem)
           /\ \A x \in Held(mem') : mem'.tag[x] = mem.tag[x]
<1>1. /\ n \in Held(mem) /\ mem' = ListDeleteNode(mem, n)
      /\ config' = config /\ found' = found
  BY DEF DeleteNode
<1>2. /\ Sane(mem') /\ Held(mem') = Held(mem) \ {n}
      /\ \A x \in Held(mem') : mem'.tag[x] = mem.tag[x] /\ mem'.head[x] = mem.head[x]
      /\ \A d \in Heads : mem'.hits[d] = IF d = mem.head[n] THEN mem.hits[d] - 1
                                         ELSE mem.hits[d]
  BY <1>1, DeleteKeeps
<1>3. QED
  BY <1>1, <1>2

LEMMA MovesKeep ==
    ASSUME config \in Config, Sane(mem),
           ListRotate \/ \E n \in Nodes : ListMoveStart(n) \/ ListMoveEnd(n)
    PROVE  /\ Sane(mem') /\ config' = config /\ found' = found
           /\ mem'.tag = mem.tag
<1>1. ASSUME NEW n \in Nodes, ListMoveStart(n)
      PROVE  Sane(mem') /\ mem'.tag = mem.tag
  <2> DEFINE m1 == ListUnThreadNode(mem, n)
             c == mem.head[n]
  <2>1. n \in Held(mem) /\ mem' = ListThreadNode(m1, c, n)
    BY <1>1 DEF ListMoveStart
  <2>2. m1 = ListUnThreadNode(mem, n) /\ c = mem.head[n]
    OBVIOUS
  <2> HIDE DEF m1, c
  <2>3. c = c \/ (c \in Held(mem) \ {n} /\ m1.head[c] = c)
    OBVIOUS
  <2>4. QED
    BY <2>1, <2>2, <2>3, MoveKeeps
<1>2. ASSUME NEW n \in Nodes, ListMoveEnd(n)
      PROVE  Sane(mem') /\ mem'.tag = mem.tag
  <2>1. n \in Held(mem) /\ mem' = ToEnd(mem, n)
    BY <1>2 DEF ListMoveEnd
  <2>2. QED
    BY <2>1, EndKeeps
<1>3. ASSUME ListRotate
      PROVE  Sane(mem') /\ mem'.tag = mem.tag
  <2> DEFINE n == mem.next[1]
  <2>1. mem' = ToEnd(mem, n) /\ mem.hits[1] > 1 /\ 1 \in Heads
    BY <1>3 DEF ListRotate, Heads
  <2>2. n \in Held(mem)
    <3>1. PICK pos \in [Nodes -> Nat] : Shape(mem, Held(mem), pos)
      BY DEF Sane, Threaded
    <3>2. HeadOK(mem, Held(mem), pos, 1)
      BY <2>1, <3>1 DEF Shape
    <3>3. QED
      BY <2>1, <3>2 DEF HeadOK
  <2> HIDE DEF n
  <2>3. QED
    BY <2>1, <2>2, EndKeeps
<1>4. config' = config /\ found' = found
  BY DEF ListRotate, ListMoveStart, ListMoveEnd
<1>5. QED
  BY <1>1, <1>2, <1>3, <1>4

(* An empty list, new or cleared, and an empty map.                        *)
LEMMA EmptyIsSane ==
    ASSUME config \in Config, NEW m \in Memory,
           \A c \in Heads : /\ m.next[c] = NULL /\ m.prev[c] \in {c, NULL}
                            /\ m.side[c] = NULL /\ m.hits[c] = 0
                            /\ m.head[c] = IF config.map THEN MapHead ELSE c,
           config.map => m.hits[MapHead] = 0,
           \A n \in Nodes : m.tag[n] = NULL, m.wild = FALSE
    PROVE  Sane(m) /\ Held(m) = {}
<1>1. Held(m) = {}
  BY DEF Held
<1>2. Shape(m, {}, [n \in Nodes |-> 0])
  <2> DEFINE pos == [n \in Nodes |-> 0]
  <2> HIDE DEF pos
  <2>1. \A c \in Heads : HeadOK(m, {}, pos, c)
    BY DEF HeadOK
  <2>2. Cardinality({}) = 0
    BY FS_EmptySet
  <2>3. Shape(m, {}, pos)
    BY <2>1, <2>2 DEF Shape, Apart
  <2>4. QED
    BY <2>3 DEF pos
<1>3. Threaded(m, {})
  BY <1>2 DEF Threaded
<1>4. Homed(m)
  BY <1>1 DEF Homed
<1>5. Few(m)
  BY Basics DEF Few
<1>6. QED
  BY <1>1, <1>3, <1>4, <1>5 DEF Sane

LEMMA ClearKeeps ==
    ASSUME config \in Config, WellUsed(config), Sane(mem), ListClear
    PROVE  Sane(mem') /\ Held(mem') = {} /\ config' = config /\ found' = found
<1> DEFINE next2 == [n \in DOMAIN mem.next |-> NULL]
           prev2 == [n \in DOMAIN mem.prev |-> IF n \in Heads THEN n ELSE NULL]
           head2 == [n \in DOMAIN mem.head |-> IF n \in Heads THEN n ELSE NULL]
           side2 == [c \in Chains |-> NULL]
           hits2 == [c \in DOMAIN mem.hits |-> 0]
           tag2 == [n \in Nodes |-> NULL]
           m2 == [mem EXCEPT !.next = next2, !.prev = prev2, !.head = head2,
                             !.side = side2, !.hits = hits2, !.tag = tag2]
<1>1. mem' = m2 /\ config' = config /\ found' = found /\ ~config.map
  BY DEF ListClear, WellUsed
<1>2. mem \in Memory /\ mem.wild = FALSE
  BY DEF Sane, Threaded
<1>3. /\ DOMAIN mem.next = Chains \union Nodes /\ DOMAIN mem.prev = Chains \union Nodes
      /\ DOMAIN mem.head = Chains \union Nodes /\ DOMAIN mem.hits = Chains \union {MapHead}
      /\ Heads \subseteq Chains /\ NULL \notin Chains
  BY <1>2, Basics DEF Memory
<1>4. /\ next2 \in [Chains \union Nodes -> Nodes \union {NULL}]
      /\ prev2 \in [Chains \union Nodes -> Chains \union Nodes \union {NULL}]
      /\ head2 \in [Chains \union Nodes -> Chains \union {MapHead, NULL}]
      /\ side2 \in [Chains -> Nodes \union {NULL}]
      /\ hits2 \in [Chains \union {MapHead} -> Nat]
      /\ tag2 \in [Nodes -> Tags \union {NULL}]
  BY <1>3
<1>5. /\ \A c \in Heads : /\ next2[c] = NULL /\ prev2[c] = c /\ side2[c] = NULL
                          /\ hits2[c] = 0 /\ head2[c] = c
      /\ \A n \in Nodes : tag2[n] = NULL
  BY <1>3
<1> HIDE DEF next2, prev2, head2, side2, hits2, tag2
<1>6. m2 \in Memory
  BY <1>2, <1>4 DEF Memory
<1>7. /\ m2.next = next2 /\ m2.prev = prev2 /\ m2.head = head2
      /\ m2.side = side2 /\ m2.hits = hits2 /\ m2.tag = tag2
  BY <1>2 DEF Memory
<1>8. m2.wild = FALSE
  BY <1>2 DEF Memory
<1> HIDE DEF m2
<1>9. \A c \in Heads : /\ m2.next[c] = NULL /\ m2.prev[c] \in {c, NULL}
                       /\ m2.side[c] = NULL /\ m2.hits[c] = 0
                       /\ m2.head[c] = IF config.map THEN MapHead ELSE c
  BY <1>1, <1>5, <1>7
<1>10. \A n \in Nodes : m2.tag[n] = NULL
  BY <1>5, <1>7
<1>11. config.map => m2.hits[MapHead] = 0
  BY <1>1
<1>12. Sane(m2) /\ Held(m2) = {}
  BY <1>6, <1>8, <1>9, <1>10, <1>11, EmptyIsSane
<1>13. QED
  BY <1>1, <1>12

LEMMA InitIsSane ==
    ASSUME Init
    PROVE  Sane(mem) /\ Held(mem) = {} /\ config \in Configs /\ found = << >>
<1> DEFINE next2 == [n \in Chains \union Nodes |-> NULL]
           prev2 == [n \in Chains \union Nodes |-> IF n \in Chains THEN n ELSE NULL]
           head2 == [n \in Chains \union Nodes |->
                        IF n \notin Chains THEN NULL
                        ELSE IF config.map THEN MapHead ELSE n]
           side2 == [c \in Chains |-> NULL]
           hits2 == [c \in Chains \union {MapHead} |-> 0]
           tag2 == [n \in Nodes |-> NULL]
           m == [next |-> next2, prev |-> prev2, head |-> head2, side |-> side2,
                 hits |-> hits2, tag |-> tag2, wild |-> FALSE]
<1>1. mem = m /\ config \in Configs /\ config \in Config /\ found = << >>
  BY ListAssumption DEF Init
<1>2. Heads \subseteq Chains
  BY <1>1, Basics
<1>3. /\ next2 \in [Chains \union Nodes -> Nodes \union {NULL}]
      /\ prev2 \in [Chains \union Nodes -> Chains \union Nodes \union {NULL}]
      /\ head2 \in [Chains \union Nodes -> Chains \union {MapHead, NULL}]
      /\ side2 \in [Chains -> Nodes \union {NULL}]
      /\ hits2 \in [Chains \union {MapHead} -> Nat]
      /\ tag2 \in [Nodes -> Tags \union {NULL}]
  OBVIOUS
<1>4. /\ \A c \in Heads : /\ next2[c] = NULL /\ prev2[c] = c /\ side2[c] = NULL
                          /\ hits2[c] = 0
                          /\ head2[c] = IF config.map THEN MapHead ELSE c
      /\ \A n \in Nodes : tag2[n] = NULL
      /\ hits2[MapHead] = 0
  BY <1>2
<1> HIDE DEF next2, prev2, head2, side2, hits2, tag2
<1>5. m \in Memory
  BY <1>3 DEF Memory
<1>6. /\ m.next = next2 /\ m.prev = prev2 /\ m.head = head2
      /\ m.side = side2 /\ m.hits = hits2 /\ m.tag = tag2
  OBVIOUS
<1>7. m.wild = FALSE
  OBVIOUS
<1> HIDE DEF m
<1>8. \A c \in Heads : /\ m.next[c] = NULL /\ m.prev[c] \in {c, NULL}
                       /\ m.side[c] = NULL /\ m.hits[c] = 0
                       /\ m.head[c] = IF config.map THEN MapHead ELSE c
  BY <1>4, <1>6
<1>9. \A n \in Nodes : m.tag[n] = NULL
  BY <1>4, <1>6
<1>10. config.map => m.hits[MapHead] = 0
  BY <1>4, <1>6
<1>11. Sane(m) /\ Held(m) = {}
  BY <1>1, <1>5, <1>7, <1>8, <1>9, <1>10, EmptyIsSane
<1>12. QED
  BY <1>1, <1>11
------------------------------------------------------------------------------
(* The invariant.                                                          *)
IInv ==
    /\ config \in Configs /\ WellUsed(config)
    /\ found = << >> \/ found \in Tags \X (Nodes \union {NULL})
    /\ Sane(mem)

(* The items by name, as the abstract specification has them.              *)
Named(m) == {[id |-> n, tag |-> m.tag[n]] : n \in Held(m)}

(* What a call does to the items and to what was found.                    *)
Added(m, m2) ==
    \E n \in Nodes :
        /\ n \in Held(m2) /\ n \notin Held(m) /\ Held(m2) \subseteq Held(m) \union {n}
        /\ \A x \in Held(m2) : x # n => m2.tag[x] = m.tag[x]

Removed(m, m2) ==
    /\ Held(m2) \subseteq Held(m)
    /\ \A x \in Held(m2) : m2.tag[x] = m.tag[x]

Searched(m, m2, f) ==
    /\ Held(m2) = Held(m) /\ m2.tag = m.tag
    /\ \E t \in Tags :
         \/ \E n \in Held(m) : m.tag[n] = t /\ f = <<t, n>>
         \/ /\ f = <<t, NULL>>
            /\ ~Has("LIST_FLAG_ORDERED") => \A n \in Held(m) : m.tag[n] # t

LEMMA SameTagsSameItems ==
    ASSUME NEW m, NEW m2, m2.tag = m.tag
    PROVE  Held(m2) = Held(m) /\ Removed(m, m2)
BY DEF Held, Removed

LEMMA StepKeeps ==
    ASSUME IInv, Next
    PROVE  /\ Sane(mem') /\ config' = config
           /\ \/ (Added(mem, mem') \/ Removed(mem, mem')) /\ found' = found
              \/ Searched(mem, mem', found')
<1>1. /\ config \in Config /\ WellUsed(config) /\ Sane(mem) /\ Expirable = {{}}
  BY ListAssumption DEF IInv, WellUsed, Expirable, Has
<1>2. ASSUME NEW t \in Tags, NEW n \in Nodes, ListAddNamedItem(t, n, {})
      PROVE  Sane(mem') /\ config' = config /\ Added(mem, mem') /\ found' = found
  BY <1>1, <1>2, AddKeeps DEF Added
<1>3. ASSUME NEW t \in Tags, ListFindNamedItem(t, {})
      PROVE  Sane(mem') /\ config' = config /\ Searched(mem, mem', found')
  <2>1. /\ Sane(mem') /\ mem'.tag = mem.tag /\ config' = config
        /\ \/ \E n \in Held(mem) : mem.tag[n] = t /\ found' = <<t, n>>
           \/ /\ found' = <<t, NULL>>
              /\ ~Has("LIST_FLAG_ORDERED") => \A n \in Held(mem) : mem.tag[n] # t
    BY <1>1, <1>3, FindKeeps
  <2>2. Held(mem') = Held(mem)
    BY <2>1, SameTagsSameItems
  <2>3. QED
    BY <2>1, <2>2 DEF Searched
<1>4. ASSUME NEW n \in Nodes, DeleteNode(n)
      PROVE  Sane(mem') /\ config' = config /\ Removed(mem, mem') /\ found' = found
  BY <1>1, <1>4, DeleteNodeKeeps DEF Removed
<1>5. ASSUME ListRotate \/ \E n \in Nodes : ListMoveStart(n) \/ ListMoveEnd(n)
      PROVE  Sane(mem') /\ config' = config /\ Removed(mem, mem') /\ found' = found
  <2>1. Sane(mem') /\ config' = config /\ found' = found /\ mem'.tag = mem.tag
    BY <1>1, <1>5, MovesKeep
  <2>2. QED
    BY <2>1, SameTagsSameItems
<1>6. ASSUME ListSort
      PROVE  Sane(mem') /\ config' = config /\ Removed(mem, mem') /\ found' = found
  <2>1. Sane(mem') /\ config' = config /\ found' = found /\ mem'.tag = mem.tag
    BY <1>1, <1>6, SortKeeps
  <2>2. QED
    BY <2>1, SameTagsSameItems
<1>7. ASSUME ListClear
      PROVE  Sane(mem') /\ config' = config /\ Removed(mem, mem') /\ found' = found
  <2>1. Sane(mem') /\ Held(mem') = {} /\ config' = config /\ found' = found
    BY <1>1, <1>7, ClearKeeps
  <2>2. QED
    BY <2>1 DEF Removed
<1>8. QED
  BY <1>1, <1>2, <1>3, <1>4, <1>5, <1>6, <1>7 DEF Next

(* The collection stays of its kind.                                       *)
LEMMA SaneNext ==
    ASSUME config' = config, NEW m2, m2 = mem', Sane(m2)
    PROVE  Sane(mem)'
<1> DEFINE H == Held(m2)
<1>1. Heads' = Heads /\ Held(mem)' = H /\ (Straight' <=> Straight)
  BY DEF Heads, Held, Straight, Has
<1>2. Threaded(m2, H) /\ Homed(m2) /\ Few(m2) /\ m2.wild = FALSE
  BY DEF Sane
<1>3. PICK pos \in [Nodes -> Nat] : Shape(m2, H, pos)
  BY <1>2 DEF Threaded
<1> HIDE DEF H
<1>4. Shape(mem, Held(mem), pos)'
  <2>1. (\A n \in Held(mem) : NodeOK(mem, Held(mem), pos, n))'
    <3>1. \A n \in H : NodeOK(m2, H, pos, n)
      BY <1>3 DEF Shape
    <3>2. QED
      BY <1>1, <3>1 DEF NodeOK
  <2>2. (\A c \in Heads : HeadOK(mem, Held(mem), pos, c))'
    <3>1. \A c \in Heads : HeadOK(m2, H, pos, c)
      BY <1>3 DEF Shape
    <3>2. QED
      BY <1>1, <3>1 DEF HeadOK
  <2>3. Apart(mem, Held(mem), pos)'
    <3>1. Apart(m2, H, pos)
      BY <1>3 DEF Shape
    <3>2. QED
      BY <1>1, <3>1 DEF Apart
  <2>4. (config.map => mem.hits[MapHead] = Cardinality(Held(mem)))'
    <3>1. config.map => m2.hits[MapHead] = Cardinality(H)
      BY <1>3 DEF Shape
    <3>2. QED
      BY <1>1, <3>1
  <2>5. QED
    BY <2>1, <2>2, <2>3, <2>4 DEF Shape
<1>5. (mem \in Memory /\ Held(mem) \subseteq Nodes)'
  BY <1>2 DEF Threaded, Memory, Held
<1>6. Threaded(mem, Held(mem))'
  BY <1>4, <1>5 DEF Threaded
<1>7. Homed(mem)' /\ Few(mem)'
  BY <1>1, <1>2 DEF Homed, Few, ChainOf, Held
<1>8. (mem.wild = FALSE)'
  BY <1>2
<1>9. QED
  BY <1>6, <1>7, <1>8 DEF Sane

LEMMA InductiveInvariant ==
    ASSUME \A k \in Configs : WellUsed(k)
    PROVE  (Init => IInv) /\ (IInv /\ [Next]_vars => IInv')
<1>1. Init => IInv
  BY InitIsSane DEF IInv
<1>2. ASSUME IInv, [Next]_vars PROVE IInv'
  <2>1. CASE Next
    <3>1. /\ Sane(mem') /\ config' = config
          /\ \/ (Added(mem, mem') \/ Removed(mem, mem')) /\ found' = found
             \/ Searched(mem, mem', found')
      BY <1>2, <2>1, StepKeeps
    <3>2. Sane(mem)'
      BY <3>1, SaneNext
    <3>3. Held(mem) \subseteq Nodes
      BY DEF Held
    <3>4. found' = << >> \/ found' \in Tags \X (Nodes \union {NULL})
      BY <1>2, <3>1, <3>3 DEF IInv, Searched
    <3>5. config' \in Configs /\ WellUsed(config')
      BY <1>2, <3>1 DEF IInv
    <3>6. QED
      BY <3>2, <3>4, <3>5 DEF IInv
  <2>2. CASE UNCHANGED vars
    <3>1. mem' = mem /\ config' = config /\ found' = found
      BY <2>2 DEF vars
    <3>2. Sane(mem)'
      BY <1>2, <3>1, SaneNext DEF IInv
    <3>3. QED
      BY <1>2, <3>1, <3>2 DEF IInv
  <2>3. QED
    BY <1>2, <2>1, <2>2
<1>3. QED
  BY <1>1, <1>2

LEMMA InvariantImplies ==
    ASSUME IInv
    PROVE  WellFormed /\ NoWildAccess /\ TraversalIsComplete
<1>1. config \in Configs /\ config \in Config
  BY ListAssumption DEF IInv
<1>2. Sane(mem) /\ Threaded(mem, Held(mem)) /\ mem \in Memory
  BY DEF IInv, Sane, Threaded
<1>3. Linked /\ TailIsLast
  BY <1>1, <1>2, ThreadedIsLinked
<1>4. OneOverMax
  <2>1. \A c \in Heads : Len(Items(mem, c)) = mem.hits[c]
    BY <1>1, <1>2, ThreadedIsShort
  <2>2. QED
    BY <1>2, <2>1 DEF OneOverMax, Sane, Few
<1>5. TypeOK
  BY <1>2 DEF TypeOK, IInv
<1>6. NoWildAccess
  <2>1. \A c \in Heads : ~Freed(mem, mem.side[c]) /\ ~Freed(mem, mem.prev[c])
    BY <1>1, <1>2, ThreadedIsSafe
  <2>2. mem.wild = FALSE
    BY <1>2 DEF Sane
  <2>3. QED
    BY <2>1, <2>2 DEF NoWildAccess
<1>7. TraversalIsComplete
  BY <1>1, <1>2, ThreadedIsComplete
<1>8. QED
  BY <1>3, <1>4, <1>5, <1>6, <1>7 DEF WellFormed
------------------------------------------------------------------------------
(* However items are added, found, moved, sorted and deleted, however many *)
(* there are, the chains of a collection that is used as WellUsed says     *)
(* stay doubly linked, with the tail at the last item unless neighbours    *)
(* are swapped, the counts right and the maximum kept to within one.       *)
THEOREM WellLinked ==
    ASSUME \A k \in Configs : WellUsed(k)
    PROVE  Spec => []WellFormed
<1>1. IInv => WellFormed
  BY InvariantImplies
<1>2. QED
  BY <1>1, InductiveInvariant, PTL DEF Spec

(* No call of them follows the tail, the cached item or an insertion point *)
(* to a node that was deleted.                                             *)
THEOREM NeverWild ==
    ASSUME \A k \in Configs : WellUsed(k)
    PROVE  Spec => []NoWildAccess
<1>1. IInv => NoWildAccess
  BY InvariantImplies
<1>2. QED
  BY <1>1, InductiveInvariant, PTL DEF Spec

(* From the top of a list or a map one comes to every item, once.          *)
THEOREM TraversalsAreComplete ==
    ASSUME \A k \in Configs : WellUsed(k)
    PROVE  Spec => []TraversalIsComplete
<1>1. IInv => TraversalIsComplete
  BY InvariantImplies
<1>2. QED
  BY <1>1, InductiveInvariant, PTL DEF Spec
------------------------------------------------------------------------------
(* Every call is one of the steps that the abstract collection takes.      *)
LEMMA NamedFacts ==
    ASSUME NEW m
    PROVE  /\ \A i \in Named(m) : i.id \in Held(m) /\ i.tag = m.tag[i.id]
           /\ \A n \in Held(m) : /\ [id |-> n, tag |-> m.tag[n]] \in Named(m)
                                 /\ [id |-> n, tag |-> m.tag[n]].id = n
                                 /\ [id |-> n, tag |-> m.tag[n]].tag = m.tag[n]
           /\ \A i \in Named(m) : i = [id |-> i.id, tag |-> m.tag[i.id]]
BY DEF Named

LEMMA RemovedSubset ==
    ASSUME NEW m, NEW m2, NEW n, Held(m2) \subseteq Held(m) \union {n},
           \A x \in Held(m2) : x # n => m2.tag[x] = m.tag[x]
    PROVE  \A i \in Named(m2) : i.id # n => i \in Named(m)
<1> SUFFICES ASSUME NEW i \in Named(m2), i.id # n PROVE i \in Named(m)
  OBVIOUS
<1>1. i.id \in Held(m2) /\ i = [id |-> i.id, tag |-> m2.tag[i.id]]
  BY NamedFacts
<1>2. i.id \in Held(m) /\ m2.tag[i.id] = m.tag[i.id]
  BY <1>1
<1>3. i = [id |-> i.id, tag |-> m.tag[i.id]]
  BY <1>1, <1>2
<1>4. QED
  BY <1>2, <1>3 DEF Named

LEMMA AddedRefines ==
    ASSUME Added(mem, mem'), found' = found
    PROVE  Collection!Next
<1> DEFINE I == Named(mem)
           J == Named(mem')
<1>1. PICK n \in Nodes :
        /\ n \in Held(mem') /\ n \notin Held(mem) /\ Held(mem') \subseteq Held(mem) \union {n}
        /\ \A x \in Held(mem') : x # n => mem'.tag[x] = mem.tag[x]
  BY DEF Added
<1> DEFINE item == [id |-> n, tag |-> mem'.tag[n]]
<1>2. item \in J /\ item.id = n
  BY <1>1 DEF Named
<1>3. \A i \in J : i.id = n => i = item
  BY DEF Named
<1>4. item \notin I
  <2>1. \A i \in I : i.id \in Held(mem)
    BY NamedFacts
  <2>2. QED
    BY <1>1, <1>2, <2>1
<1>5. \A i \in J : i.id # n => i \in I
  <2> DEFINE m2 == mem'
  <2>1. /\ Held(m2) \subseteq Held(mem) \union {n}
        /\ \A x \in Held(m2) : x # n => m2.tag[x] = mem.tag[x]
    BY <1>1
  <2> HIDE DEF m2
  <2>2. \A i \in Named(m2) : i.id # n => i \in Named(mem)
    BY <2>1, RemovedSubset
  <2>3. QED
    BY <2>2 DEF m2
<1> HIDE DEF item
<1>6. J = (I \ (I \ J)) \union {item}
  BY <1>2, <1>3, <1>5
<1>7. /\ I = {[id |-> x, tag |-> mem.tag[x]] : x \in Held(mem)}
      /\ J = {[id |-> x, tag |-> mem'.tag[x]] : x \in Held(mem')}
      /\ J = {[id |-> x, tag |-> mem.tag[x]] : x \in Held(mem)}'
  BY DEF Named, Held
<1> HIDE DEF I, J
<1>8. QED
  BY <1>2, <1>4, <1>6, <1>7 DEF Collection!Next, Collection!Add

LEMMA RemovedRefines ==
    ASSUME Removed(mem, mem'), found' = found
    PROVE  Collection!Next
<1> DEFINE I == Named(mem)
           J == Named(mem')
<1>1. \A i \in J : i \in I
  <2> DEFINE m2 == mem'
  <2>1. Held(m2) \subseteq Held(mem) /\ \A x \in Held(m2) : m2.tag[x] = mem.tag[x]
    BY DEF Removed
  <2> HIDE DEF m2
  <2>2. \A i \in Named(m2) : i \in Named(mem)
    BY <2>1 DEF Named
  <2>3. QED
    BY <2>2 DEF m2
<1>2. J = I \ (I \ J)
  BY <1>1
<1>3. /\ I = {[id |-> x, tag |-> mem.tag[x]] : x \in Held(mem)}
      /\ J = {[id |-> x, tag |-> mem.tag[x]] : x \in Held(mem)}'
  BY DEF Named, Held
<1> HIDE DEF I, J
<1>4. QED
  BY <1>2, <1>3 DEF Collection!Next, Collection!Delete

LEMMA SearchedRefines ==
    ASSUME Searched(mem, mem', found'), ~Has("LIST_FLAG_ORDERED"), NULL \notin Nodes
    PROVE  Collection!Next
<1> DEFINE I == Named(mem)
           J == Named(mem')
<1>1. PICK t \in Tags :
         \/ \E n \in Held(mem) : mem.tag[n] = t /\ found' = <<t, n>>
         \/ /\ found' = <<t, NULL>>
            /\ \A n \in Held(mem) : mem.tag[n] # t
  BY DEF Searched
<1>2. I = J
  BY DEF Searched, Named
<1>3. /\ I = {[id |-> x, tag |-> mem.tag[x]] : x \in Held(mem)}
      /\ J = {[id |-> x, tag |-> mem.tag[x]] : x \in Held(mem)}'
  BY DEF Named, Held
<1>4. \A i \in I : i.id \in Held(mem) /\ i.tag = mem.tag[i.id]
  BY NamedFacts
<1>5. \A n \in Held(mem) : \E i \in I : i.id = n /\ i.tag = mem.tag[n]
  BY NamedFacts
<1> HIDE DEF I, J
<1> DEFINE named == {i \in I : i.tag = t}
<1>6. \E id : /\ found' = <<t, id>>
              /\ IF named = {} THEN id = NULL ELSE \E i \in named : id = i.id
  <2>1. CASE \E n \in Held(mem) : mem.tag[n] = t /\ found' = <<t, n>>
    <3>1. PICK n \in Held(mem) : mem.tag[n] = t /\ found' = <<t, n>>
      BY <2>1
    <3>2. PICK i \in I : i.id = n /\ i.tag = t
      BY <1>5, <3>1
    <3>3. i \in named
      BY <3>2
    <3>4. QED
      BY <3>1, <3>2, <3>3
  <2>2. CASE found' = <<t, NULL>> /\ \A n \in Held(mem) : mem.tag[n] # t
    <3>1. named = {}
      BY <1>4, <2>2
    <3>2. QED
      BY <2>2, <3>1
  <2>3. QED
    BY <1>1, <2>1, <2>2
<1>7. PICK id : /\ found' = <<t, id>>
                /\ IF named = {} THEN id = NULL ELSE \E i \in named : id = i.id
  BY <1>6
<1>8. found'[1] = t /\ found'[2] = id
  BY <1>7
<1>9. Collection!Search(t, id)
  BY <1>2, <1>3, <1>7 DEF Collection!Search
<1>10. QED
  BY <1>8, <1>9 DEF Collection!Next

(* What is added to a list or a map stays until it is deleted, or pushed   *)
(* out by an addition to one with a maximum, and a search gives an item of *)
(* the name if there is one: whatever is moved, sorted, cached, or swapped *)
(* up by a search, and on however many chains.  That is so of collections  *)
(* that are used as WellUsed says and are not ordered.                     *)
THEOREM ItemsAreKept ==
    ASSUME \A k \in Configs : WellUsed(k) /\ "LIST_FLAG_ORDERED" \notin k.flags
    PROVE  Spec => ImplementsItems
<1>0. NULL \notin Nodes
  BY ListAssumption
<1>1. Init => Collection!Init
  <2>1. Init => Held(mem) = {} /\ found = << >>
    BY InitIsSane
  <2>2. QED
    BY <2>1 DEF Collection!Init
<1>2. IInv /\ [Next]_vars =>
        [Collection!Next]_<<{[id |-> n, tag |-> mem.tag[n]] : n \in Held(mem)}, found>>
  <2> SUFFICES ASSUME IInv, [Next]_vars
               PROVE  \/ Collection!Next
                      \/ UNCHANGED <<{[id |-> n, tag |-> mem.tag[n]] : n \in Held(mem)}, found>>
    OBVIOUS
  <2>1. CASE Next
    <3>1. ~Has("LIST_FLAG_ORDERED")
      BY DEF IInv, Has
    <3>2. \/ (Added(mem, mem') \/ Removed(mem, mem')) /\ found' = found
          \/ Searched(mem, mem', found')
      BY <2>1, StepKeeps
    <3>3. QED
      BY <1>0, <3>1, <3>2, AddedRefines, RemovedRefines, SearchedRefines
  <2>2. CASE UNCHANGED vars
    BY <2>2 DEF vars, Held
  <2>3. QED
    BY <2>1, <2>2
<1>3. \A k \in Configs : WellUsed(k)
  OBVIOUS
<1>4. QED
  BY <1>1, <1>2, <1>3, InductiveInvariant, PTL DEF Spec, ImplementsItems, Collection!Spec
=============================================================================
