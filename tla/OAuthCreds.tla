------------------------------ MODULE OAuthCreds ------------------------------
(***************************************************************************)
(* OAuth.c: the file in which programs keep the tokens they were granted.  *)
(* Tokens that were refreshed are appended, the last of a name counts, and *)
(* who finds too many of one name writes the file anew, under a lock.      *)
(*                                                                         *)
(* A line is [name, access, refresh]; a token is a number, 0 for none.     *)
(***************************************************************************)
EXTENDS Integers, Sequences, FiniteSets, SequencesExt

CONSTANTS Programs, Names,
    TooMany,        \* lines of a name that are kept (5 in OAuthLoad)
    MaxTokens,      \* bound: tokens that are granted
    MaxLines        \* bound: no line is added to a file of so many

VARIABLES
    file,
    lock,           \* {} or the program that has the file for itself
    ctx,            \* of each program: [name, access, refresh]
    next,           \* of each program: what it does next
    items,          \* of each program: what it read to write it again
    tokens,         \* granted so far
    saved           \* of each name: the token that was saved last

vars == <<file, lock, ctx, next, items, tokens, saved>>

Init ==
    /\ file = <<>> /\ lock = {}
    /\ ctx \in [Programs -> {[name |-> n, access |-> 0, refresh |-> 0] : n \in Names}]
    /\ next = [p \in Programs |-> "idle"]
    /\ items = [p \in Programs |-> <<>>]
    /\ tokens = 0 /\ saved = [n \in Names |-> 0]

Of(lines, name) == {i \in DOMAIN lines : lines[i].name = name}

(* OAuthRefresh, OAuthFinalize and OAuthParseReply: the server answers with*)
(* a token, with or without one to refresh it, or it does not, and what it *)
(* was is kept.  What is known is saved in any case.                       *)
OAuthGrant(p) ==
    /\ next[p] = "idle"
    /\ \/ /\ tokens < MaxTokens /\ tokens' = tokens + 1
          /\ \E refresh \in {ctx[p].refresh, tokens'} :
                ctx' = [ctx EXCEPT ![p].access = tokens', ![p].refresh = refresh]
       \/ ctx[p].access # 0 /\ UNCHANGED <<ctx, tokens>>
    /\ next' = [next EXCEPT ![p] = "save"]
    /\ UNCHANGED <<file, lock, items, saved>>

OAuthSave(p) ==
    /\ next[p] = "save" /\ lock = {} /\ Len(file) < MaxLines
    /\ file' = Append(file, ctx[p])
    /\ saved' = [saved EXCEPT ![ctx[p].name] = ctx[p].access]
    /\ next' = [next EXCEPT ![p] = "idle"]
    /\ UNCHANGED <<lock, ctx, items, tokens>>

(* OAuthLoad and OAuthParse: each line of the name is read over those      *)
(* before, so that a token that a line does not have stays.                *)
Loaded(lines, name) ==
    LET with == {i \in Of(lines, name) : lines[i].refresh # 0}
        last(set) == CHOOSE i \in set : \A j \in set : i >= j IN
    [name |-> name,
     access |-> IF Of(lines, name) = {} THEN 0 ELSE lines[last(Of(lines, name))].access,
     refresh |-> IF with = {} THEN 0 ELSE lines[last(with)].refresh]

OAuthLoad(p) ==
    /\ next[p] = "idle" /\ lock = {}
    /\ ctx' = [ctx EXCEPT ![p] = Loaded(file, ctx[p].name)]
    /\ next' = [next EXCEPT ![p] = IF Cardinality(Of(file, ctx[p].name)) > TooMany THEN "clean" ELSE @]
    /\ items' = [items EXCEPT ![p] = IF next'[p] = "clean" THEN file ELSE <<>>]
    /\ UNCHANGED <<file, lock, tokens, saved>>

(* OAuthCleanupCredsFile: the file is locked, read again, emptied and      *)
(* written, the last line of each name in the place of its first.          *)
FaultReads(p) == items[p]
Reads(p) == file

CleanupReads(p) ==
    /\ next[p] = "clean" /\ lock = {}
    /\ lock' = {p}
    /\ items' = [items EXCEPT ![p] = Reads(p)]
    /\ next' = [next EXCEPT ![p] = "truncate"]
    /\ UNCHANGED <<file, ctx, tokens, saved>>

CleanupTruncates(p) ==
    /\ next[p] = "truncate"
    /\ file' = <<>>
    /\ next' = [next EXCEPT ![p] = "write"]
    /\ UNCHANGED <<lock, ctx, items, tokens, saved>>

SetVar(known, line) ==
    LET same == Of(known, line.name) IN
    IF same = {} THEN Append(known, line)
    ELSE [known EXCEPT ![CHOOSE i \in same : \A j \in same : i <= j] = line]
SetVars(lines) ==
    LET f[n \in 0 .. Len(lines)] == IF n = 0 THEN <<>> ELSE SetVar(f[n - 1], lines[n])
    IN  f[Len(lines)]

CleanupWrites(p) ==
    /\ next[p] = "write"
    /\ file' = SetVars(items[p])
    /\ lock' = {}
    /\ items' = [items EXCEPT ![p] = <<>>]
    /\ next' = [next EXCEPT ![p] = "idle"]
    /\ UNCHANGED <<ctx, tokens, saved>>

Next == \E p \in Programs :
            \/ OAuthGrant(p) \/ OAuthSave(p) \/ OAuthLoad(p)
            \/ CleanupReads(p) \/ CleanupTruncates(p) \/ CleanupWrites(p)
Spec == Init /\ [][Next]_vars

-----------------------------------------------------------------------------
(* Whoever may read the file finds in it, of each name, the token that was *)
(* saved last, by whatever program, and however often it was cleaned up.   *)
LatestIsInFile ==
    lock = {} => \A n \in Names : Loaded(file, n).access = saved[n]

(* Not checked, for they do not hold: a program that dies while it cleans  *)
(* the file up leaves the tokens in it, and the token to refresh with is   *)
(* still found when a line without it was the last to be saved.            *)
NeverEmptied == \A n \in Names : Loaded(file, n).access = saved[n]
CleanupKeepsRefresh ==
    [][\A p \in Programs, n \in Names :
            CleanupWrites(p) => Loaded(file', n).refresh = Loaded(items[p], n).refresh]_vars
===============================================================================
