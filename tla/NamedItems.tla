----------------------------- MODULE NamedItems -----------------------------
(***************************************************************************)
(* What a list or a map of named items promises the program: an item is    *)
(* there from the moment it is added until it is deleted, or pushed out by *)
(* an addition to a collection with a maximum, and a search by name gives  *)
(* an item of that name if there is one, and nothing if there is none.     *)
(***************************************************************************)
CONSTANT None       \* the result of a search that finds nothing

VARIABLES
    items,      \* the items held: records with an id and a tag
    found       \* the tag last searched for and the id that was found

Init == items = {} /\ found = << >>

Add(item, pushed_out) ==
    /\ item \notin items
    /\ items' = (items \ pushed_out) \union {item}
    /\ UNCHANGED found

Delete(some) == items' = items \ some /\ UNCHANGED found

Search(tag, id) ==
    /\ found' = <<tag, id>>
    /\ LET named == {i \in items : i.tag = tag}
       IN  IF named = {} THEN id = None ELSE \E i \in named : id = i.id
    /\ UNCHANGED items

Next ==
    \/ \E item \in items' : Add(item, items \ items')
    \/ Delete(items \ items')
    \/ Search(found'[1], found'[2])

Spec == Init /\ [][Next]_<<items, found>>
=============================================================================
