----------------------------- MODULE MCListMap -----------------------------
(* ListMap with three nodes, and names of which two share a chain.         *)
EXTENDS ListMap, TLC
CONSTANTS n1, n2, n3

MCHash == 1 :> 1 @@ 2 :> 1 @@ 3 :> 2
NodeSymmetry == Permutations(Nodes)

Kinds(flags) == [map : BOOLEAN, flags : SUBSET flags, max : 0..2, calls : SUBSET Calls]

(* Every kind that is used well, but for ordered lists.                    *)
Sound == {k \in Kinds({"LIST_FLAG_CACHE", "LIST_FLAG_SELFORG"}) : WellUsed(k)}

(* Ordered lists that are used well: their pointers are as they should be, *)
(* but a search may miss an item.                                          *)
Ordered == {k \in Kinds(Flags) : WellUsed(k) /\ "LIST_FLAG_ORDERED" \in k.flags}

Kind(map, flags, max, calls) ==
    [map |-> map, flags |-> flags, max |-> max, calls |-> calls]

(* One of each kind that is not used well.                                 *)
TimedOut == {Kind(FALSE, {"LIST_FLAG_TIMEOUT"}, 0, {})}
ClearedMaps == {Kind(TRUE, {}, 0, {"clear"})}
SelfOrganising == {Kind(FALSE, {"LIST_FLAG_SELFORG"}, 1, {})}
=============================================================================
