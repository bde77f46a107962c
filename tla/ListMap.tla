------------------------------- MODULE ListMap -------------------------------
(***************************************************************************)
(* Lists and maps (List.c): doubly linked lists with a dummy head whose    *)
(* Prev is the last item and whose Side is the item found last, and maps,  *)
(* which are arrays of such lists ("chains") that names are hashed to.     *)
(* Everything else in the library keeps its things in them.                *)
(*                                                                         *)
(* The model is of the pointers.  Every call is one step, for nothing runs *)
(* beside it; what can go wrong takes many calls.  The memory is a record  *)
(* that each function of the source maps to a new one.  A node that is not *)
(* allocated has no tag, and a function that follows a pointer to one sets *)
(* wild: what it would do then is not modelled.  Every item has a name.    *)
(*                                                                         *)
(* A definition named Fault... is the definition after it with a mistake   *)
(* in it, which the properties are shown to catch; nothing else uses it.   *)
(***************************************************************************)
EXTENDS Integers, Sequences, FiniteSets, SequencesExt

CONSTANTS
    Chains,     \* the chain heads, numbered from 1; a plain list has head 1
    Nodes,      \* the nodes that can be allocated
    Tags,       \* names, as numbers in the order of strcmp
    Hash,       \* fnv_hash: the chain of each name
    Configs,    \* the kinds of collection a program creates: see Config
    MapHead,    \* the top node of a map
    NULL

Flags == {"LIST_FLAG_CACHE", "LIST_FLAG_SELFORG", "LIST_FLAG_ORDERED",
          "LIST_FLAG_TIMEOUT"}

(* A collection is a map or a plain list, with flags and a maximum (0 is   *)
(* none), and the program that has it may or may not move its items (start, *)
(* end and rotate), sort it or clear it.                                   *)
Calls == {"move", "sort", "clear"}
Config == [map : BOOLEAN, flags : SUBSET Flags, max : Nat, calls : SUBSET Calls]

ASSUME ListAssumption ==
    /\ IsFiniteSet(Chains) /\ IsFiniteSet(Nodes)
    /\ Chains = 1 .. Cardinality(Chains) /\ 1 \in Chains
    /\ Chains \intersect Nodes = {}
    /\ MapHead \notin Chains \union Nodes
    /\ NULL \notin Chains \union Nodes \union Tags \union {MapHead}
    /\ Tags \subseteq Nat
    /\ Hash \in [Tags -> Chains]
    /\ Configs \subseteq Config

(* How a collection may be used.  An item must not expire while a search   *)
(* has it in hand; with a maximum, the tail must be the last item and new  *)
(* items must go in after it; a map that was cleared is not one any more.  *)
WellUsed(k) ==
    /\ "LIST_FLAG_TIMEOUT" \notin k.flags
    /\ k.max > 0 => /\ "sort" \notin k.calls
                    /\ k.flags \intersect {"LIST_FLAG_SELFORG", "LIST_FLAG_ORDERED"} = {}
    /\ k.map => "clear" \notin k.calls

VARIABLES
    config,     \* the collection in use
    mem,        \* the pointers: see Memory
    found       \* what was searched for last, and the node that was returned

vars == <<config, mem, found>>

Has(flag) == flag \in config.flags

Heads == IF config.map THEN Chains ELSE {1}

ChainOf(t) == IF config.map THEN Hash[t] ELSE 1

Memory ==
    [next : [Chains \union Nodes -> Nodes \union {NULL}],
     prev : [Chains \union Nodes -> Chains \union Nodes \union {NULL}],
     head : [Chains \union Nodes -> Chains \union {MapHead, NULL}],
     side : [Chains -> Nodes \union {NULL}],
     hits : [Chains \union {MapHead} -> Nat],
     tag  : [Nodes -> Tags \union {NULL}],
     wild : BOOLEAN]

TypeOK ==
    /\ config \in Configs
    /\ mem \in Memory
    /\ found = << >> \/ found \in Tags \X (Nodes \union {NULL})

(* ListInit and MapCreate. *)
Init ==
    /\ config \in Configs
    /\ mem = [next |-> [n \in Chains \union Nodes |-> NULL],
              prev |-> [n \in Chains \union Nodes |-> IF n \in Chains THEN n ELSE NULL],
              head |-> [n \in Chains \union Nodes |->
                            IF n \notin Chains THEN NULL
                            ELSE IF config.map THEN MapHead ELSE n],
              side |-> [c \in Chains |-> NULL],
              hits |-> [c \in Chains \union {MapHead} |-> 0],
              tag  |-> [n \in Nodes |-> NULL],
              wild |-> FALSE]
    /\ found = << >>

Freed(m, n) == n \in Nodes /\ m.tag[n] = NULL

ListGetHead(m, n) == IF n \in Chains THEN n ELSE m.head[n]

(* The items one reaches from node n on, n included. *)
Walk(m, n) ==
    LET path[k \in 0 .. Cardinality(Nodes)] ==
            IF k = 0 THEN IF n = NULL THEN << >> ELSE <<n>>
            ELSE LET p == path[k - 1]
                 IN  IF p = << >> \/ m.next[Last(p)] = NULL THEN p
                     ELSE Append(p, m.next[Last(p)])
    IN  path[Cardinality(Nodes)]

Items(m, c) == Walk(m, m.next[c])
------------------------------------------------------------------------------
(* ListIncrNoOfItems and ListDecrNoOfItems: the head counts the items, and *)
(* for the head of a chain, so does its own Head, the map.                 *)
Counted(m, c, by) ==
    LET once == [m EXCEPT !.hits[c] = @ + by]
    IN  IF config.map THEN [once EXCEPT !.hits[m.head[c]] = @ + by] ELSE once

FaultLosesTail(m, prev, n) ==
    Counted([m EXCEPT !.prev[n] = prev, !.next[prev] = n, !.next[n] = m.next[prev],
                      !.head[n] = ListGetHead(m, prev)], ListGetHead(m, prev), 1)
(* ListThreadNode: n goes in after prev. *)
ListThreadNode(m, prev, n) ==
    LET head  == ListGetHead(m, prev)
        next  == m.next[prev]
        after == IF next # NULL THEN next ELSE head
    IN  Counted([m EXCEPT !.prev[n] = prev, !.next[prev] = n, !.next[n] = next,
                          !.head[n] = head, !.prev[after] = n],
                head, 1)

FaultKeepsSide(m, n) ==
    LET head == m.head[n]
        last == IF m.prev[head] # n THEN m.prev[head]
                ELSE IF m.prev[n] = head THEN NULL ELSE m.prev[n]
        gone == [m EXCEPT !.next[m.prev[n]] = m.next[n], !.prev[head] = last]
        joined == IF m.next[n] # NULL THEN [gone EXCEPT !.prev[m.next[n]] = m.prev[n]]
                  ELSE gone
    IN  Counted([joined EXCEPT !.head[n] = NULL, !.prev[n] = NULL, !.next[n] = NULL],
                head, -1)

(* ListUnThreadNode.  The Prev of a head that loses its only item is NULL. *)
ListUnThreadNode(m, n) ==
    LET head  == m.head[n]
        prev  == m.prev[n]
        next  == m.next[n]
        last  == IF m.prev[head] # n THEN m.prev[head]
                 ELSE IF prev = head THEN NULL ELSE prev
        gone  == [m EXCEPT !.next[prev] = next, !.prev[head] = last,
                           !.side[head] = IF @ = n THEN NULL ELSE @]
        joined == IF next # NULL THEN [gone EXCEPT !.prev[next] = prev] ELSE gone
    IN  Counted([joined EXCEPT !.head[n] = NULL, !.prev[n] = NULL, !.next[n] = NULL],
                head, -1)

ListDeleteNode(m, n) ==
    [ListUnThreadNode(m, n) EXCEPT !.tag[n] = NULL]

(* ListSwapItems: b comes after a.  A head is never swapped. *)
ListSwapItems(m, a, b) ==
    LET head == ListGetHead(m, a)
        prev == m.prev[a]
        next == m.next[b]
        tail == IF m.prev[head] = a THEN [m EXCEPT !.prev[head] = b] ELSE m
        swapped == [tail EXCEPT !.next[prev] = b, !.prev[a] = b, !.next[a] = next,
                                !.prev[b] = prev, !.next[b] = a]
    IN  IF a \in Chains THEN m
        ELSE IF next # NULL THEN [swapped EXCEPT !.prev[next] = a] ELSE swapped

(* ListGetLast. *)
ListGetLast(m, c) == IF m.prev[c] # NULL THEN m.prev[c] ELSE c

(* ListHandleMaxSize: up to three items from the top while there are more  *)
(* than the maximum.                                                       *)
ListHandleMaxSize(m, c) ==
    LET DropOne(mm) == IF mm.hits[c] > config.max /\ mm.next[c] # NULL
                       THEN ListDeleteNode(mm, mm.next[c]) ELSE mm
    IN  DropOne(DropOne(DropOne(m)))

(* ListInsertTypedItem of a new node n after prev. *)
ListInsertTypedItem(m, prev, n, t) ==
    LET room == IF config.max > 0 THEN ListHandleMaxSize(m, ListGetHead(m, prev)) ELSE m
    IN  IF Freed(m, prev) \/ Freed(room, prev) THEN [room EXCEPT !.wild = TRUE]
        ELSE [ListThreadNode(room, prev, n) EXCEPT !.tag[n] = t]
------------------------------------------------------------------------------
(* ListConsiderInsertPoint.  In an ordered list a lesser item will do, or  *)
(* one that is greater by more than one.                                   *)
ListConsiderInsertPoint(m, n, t, type) ==
    /\ n \in Nodes
    /\ \/ m.tag[n] = t
       \/ /\ Has("LIST_FLAG_ORDERED")
          /\ \/ type = "LIST_FIND_LESSER" /\ m.tag[n] - t < 1
             \/ type = "LIST_FIND_GREATER" /\ m.tag[n] - t > 1

FaultTrustsCache(m, c, t) ==
    IF Has("LIST_FLAG_CACHE") /\ m.side[c] # NULL
    THEN <<m.prev[m.side[c]], m.side[c]>>
    ELSE <<c, m.next[c]>>

(* Where the search of ListFindNamedItemInsert starts: at the cached item, *)
(* or else at the first.  Its first part is the node before.               *)
StartPoint(m, c, t) ==
    IF Has("LIST_FLAG_CACHE")
       /\ ListConsiderInsertPoint(m, m.side[c], t, "LIST_FIND_LESSER")
    THEN <<m.prev[m.side[c]], m.side[c]>>
    ELSE <<c, m.next[c]>>

(* ListFindNamedItemInsert: the memory after it, for expired items, those  *)
(* whose time (ListNodeSetTime) has passed, are deleted on the way, and    *)
(* the node it returns.  A node that was deleted has no Head then.         *)
ListFindNamedItemInsert(m, c, t, expired) ==
    LET start  == StartPoint(m, c, t)
        path   == Walk(m, start[2])
        hits   == {i \in 1..Len(path) :
                      ListConsiderInsertPoint(m, path[i], t, "LIST_FIND_GREATER")}
        passed == IF hits = {} THEN Len(path) ELSE Min(hits) - 1
        before == IF passed = 0 THEN start[1] ELSE path[passed]
        after[i \in 0..passed] ==
            IF i = 0 THEN m
            ELSE IF path[i] \in expired THEN ListDeleteNode(after[i - 1], path[i])
            ELSE after[i - 1]
    IN  IF ListConsiderInsertPoint(m, m.prev[c], t, "LIST_FIND_LESSER")
        THEN [mem |-> m, node |-> m.prev[c]]
        ELSE [mem |-> after[passed],
              node |-> IF hits # {} /\ before \in Chains THEN path[Min(hits)]
                       ELSE before]

(* Back to the first of a run of items with the name. *)
Rewound(m, n, t) ==
    LET c     == ListGetHead(m, n)
        items == Items(m, c)
        at    == {i \in 1..Len(items) : items[i] = n}
        other == {i \in 1 .. Min(at) - 1 :
                     ~ListConsiderInsertPoint(m, items[i], t, "neither")}
    IN  IF at = {} THEN n
        ELSE IF other = {} THEN items[1] ELSE items[Max(other) + 1]

(* The items whose time may have come when a list is searched. *)
Expirable == IF Has("LIST_FLAG_TIMEOUT") THEN SUBSET Nodes ELSE {{}}

(* The first item from n on with the name.  In an ordered list the search  *)
(* stops at an item that comes after it.                                   *)
SearchFrom(m, n, t) ==
    LET path == Walk(m, n)
        hits == {i \in 1..Len(path) : m.tag[path[i]] = t}
        past == {i \in 1 .. Min(hits) : m.tag[path[i]] > t}
    IN  IF hits = {} \/ (Has("LIST_FLAG_ORDERED") /\ past # {}) THEN NULL
        ELSE path[Min(hits)]

(* What ListFindTypedItem does to the item it returns: cache it, and move  *)
(* it up in a self organising list.                                        *)
Favoured(m, n) ==
    LET c == m.head[n]
        cached == IF Has("LIST_FLAG_CACHE") THEN [m EXCEPT !.side[c] = n] ELSE m
    IN  IF Has("LIST_FLAG_SELFORG") /\ ~Has("LIST_FLAG_ORDERED")
        THEN ListSwapItems(cached, cached.prev[n], n) ELSE cached
------------------------------------------------------------------------------
(* ListAddTypedItem. *)
ListAddNamedItem(t, n, expired) ==
    LET c     == ChainOf(t)
        point == IF Has("LIST_FLAG_ORDERED") THEN ListFindNamedItemInsert(mem, c, t, expired)
                 ELSE [mem |-> mem, node |-> ListGetLast(mem, c)]
    IN  /\ mem.tag[n] = NULL
        /\ mem' = ListInsertTypedItem(point.mem, point.node, n, t)
        /\ UNCHANGED <<config, found>>

(* ListFindTypedItem of any type. *)
ListFindNamedItem(t, expired) ==
    LET point == ListFindNamedItemInsert(mem, ChainOf(t), t, expired)
        m     == point.mem
        first == IF point.node \in Chains THEN m.next[point.node] ELSE point.node
        n     == IF Freed(m, first) THEN NULL
                 ELSE IF first = NULL THEN NULL
                 ELSE SearchFrom(m, Rewound(m, first, t), t)
    IN  /\ found' = <<t, n>>
        /\ mem' = IF Freed(m, first) THEN [m EXCEPT !.wild = TRUE]
                  ELSE IF n = NULL THEN m ELSE Favoured(m, n)
        /\ UNCHANGED config

Held(m) == {n \in Nodes : m.tag[n] # NULL}

DeleteNode(n) ==
    /\ n \in Held(mem)
    /\ mem' = ListDeleteNode(mem, n)
    /\ UNCHANGED <<config, found>>

ListMoveStart(n) ==
    /\ "move" \in config.calls /\ n \in Held(mem) /\ mem.prev[n] # mem.head[n]
    /\ mem' = ListThreadNode(ListUnThreadNode(mem, n), mem.head[n], n)
    /\ UNCHANGED <<config, found>>

ToEnd(m, n) ==
    LET c == m.head[n]
        m1 == ListUnThreadNode(m, n)
    IN  ListThreadNode(m1, ListGetLast(m1, c), n)

ListMoveEnd(n) ==
    /\ "move" \in config.calls /\ n \in Held(mem) /\ mem.next[n] # NULL
    /\ mem' = ToEnd(mem, n)
    /\ UNCHANGED <<config, found>>

ListRotate ==
    /\ "move" \in config.calls /\ ~config.map /\ mem.hits[1] > 1
    /\ mem' = ToEnd(mem, mem.next[1])
    /\ UNCHANGED <<config, found>>

(* ListSortNamedItems: passes over the list that swap neighbours which are *)
(* the wrong way round, until a pass swaps none.                           *)
SortStep(s) ==
    LET swap == s.prev # NULL /\ s.m.tag[s.prev] < s.m.tag[s.curr]
        m    == IF swap THEN ListSwapItems(s.m, s.prev, s.curr) ELSE s.m
    IN  IF s.curr = NULL THEN s
        ELSE [m |-> m, prev |-> s.curr, curr |-> m.next[s.curr]]

SortPass(m) ==
    LET at[i \in 0 .. 2 * Cardinality(Nodes)] ==
            IF i = 0 THEN [m |-> m, prev |-> NULL, curr |-> m.next[1]]
            ELSE SortStep(at[i - 1])
    IN  at[2 * Cardinality(Nodes)].m

ListSort ==
    LET passes[i \in 0 .. 2 * Cardinality(Nodes)] ==
            IF i = 0 THEN mem ELSE SortPass(passes[i - 1])
    IN  /\ "sort" \in config.calls /\ ~config.map
        /\ mem' = passes[2 * Cardinality(Nodes)]
        /\ UNCHANGED <<config, found>>

(* ListClear of a list or a map.  A map has each of its chains cleared as  *)
(* if it were a list: its Head is then itself.                             *)
ListClear ==
    /\ "clear" \in config.calls
    /\ mem' = [mem EXCEPT
         !.next = [n \in DOMAIN @ |-> NULL],
         !.prev = [n \in DOMAIN @ |-> IF n \in Heads THEN n ELSE NULL],
         !.head = [n \in DOMAIN @ |-> IF n \in Heads THEN n ELSE NULL],
         !.side = [c \in Chains |-> NULL],
         !.hits = [c \in DOMAIN @ |-> 0],
         !.tag  = [n \in Nodes |-> NULL]]
    /\ UNCHANGED <<config, found>>

Next ==
    /\ ~mem.wild
    /\ \/ \E t \in Tags, n \in Nodes, expired \in Expirable : ListAddNamedItem(t, n, expired)
       \/ \E t \in Tags, expired \in Expirable : ListFindNamedItem(t, expired)
       \/ \E n \in Nodes : DeleteNode(n) \/ ListMoveStart(n) \/ ListMoveEnd(n)
       \/ ListRotate \/ ListSort \/ ListClear

Spec == Init /\ [][Next]_vars
------------------------------------------------------------------------------
(* However items are added, moved, sorted and deleted, the chains stay     *)
(* doubly linked: every allocated node is on one chain, once, the Prev and *)
(* Head pointers agree with the Next pointers, and the counts are right.   *)
Linked ==
    /\ \A c \in Heads :
        LET items == Items(mem, c)
        IN  /\ \A i \in 1..Len(items) :
                  /\ mem.prev[items[i]] = IF i = 1 THEN c ELSE items[i - 1]
                  /\ mem.head[items[i]] = c
            /\ mem.hits[c] = Len(items) /\ IsInjective(items)
    /\ Held(mem) = UNION {Range(Items(mem, c)) : c \in Heads}
    /\ config.map => mem.hits[MapHead] = Cardinality(Held(mem))

(* List.c: the dummy header has a Prev entry that points to the last item. *)
(* It has unless items were swapped, by a sort or by a self organising     *)
(* search, neither of which moves it.                                      *)
TailIsLast ==
    "sort" \notin config.calls /\ ~Has("LIST_FLAG_SELFORG") =>
        \A c \in Heads :
            mem.prev[c] \in IF mem.next[c] = NULL THEN {c, NULL}
                            ELSE {Last(Items(mem, c))}

(* No call follows a pointer to a node that was deleted: neither the tail, *)
(* nor the cached item, nor the insertion point.                           *)
NoWildAccess ==
    /\ ~mem.wild
    /\ \A c \in Heads : ~Freed(mem, mem.side[c]) /\ ~Freed(mem, mem.prev[c])

(* List.h: the maximum is the length a list, or a chain of a map, can grow *)
(* to.  It is checked before an item is added: there can be one more.      *)
OneOverMax ==
    config.max > 0 => \A c \in Heads : Len(Items(mem, c)) <= config.max + 1

(* Lists and maps are as the calls rely on them to be.                     *)
WellFormed == TypeOK /\ Linked /\ TailIsLast /\ OneOverMax

FaultStopsAtEmpty(m) ==
    LET empty == {c \in Chains : m.next[c] = NULL}
        upto[c \in 0 .. Cardinality(Chains)] ==
            IF c = 0 THEN << >>
            ELSE IF \E b \in empty : b < c THEN upto[c - 1]
            ELSE upto[c - 1] \o Items(m, c)
    IN  IF config.map THEN upto[Cardinality(Chains)] ELSE Items(m, 1)

(* The items ListGetNext gives from the top of a list or a map on.  It     *)
(* goes from chain to chain by way of the map, and does not get past a     *)
(* chain whose Head is not the map.                                        *)
Traversal(m) ==
    LET broken == {c \in Chains : m.head[c] # MapHead}
        upto[c \in 0 .. Cardinality(Chains)] ==
            IF c = 0 THEN << >>
            ELSE IF \E b \in broken : b < c THEN upto[c - 1]
            ELSE upto[c - 1] \o Items(m, c)
    IN  IF config.map THEN upto[Cardinality(Chains)] ELSE Items(m, 1)

(* A traversal visits every item, once. *)
TraversalIsComplete ==
    IsInjective(Traversal(mem)) /\ Range(Traversal(mem)) = Held(mem)

(* A list or a map keeps what it is given and finds it by name.            *)
Collection == INSTANCE NamedItems WITH
    None <- NULL,
    items <- {[id |-> n, tag |-> mem.tag[n]] : n \in Held(mem)}
ImplementsItems == Collection!Spec
=============================================================================
