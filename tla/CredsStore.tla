------------------------------ MODULE CredsStore ------------------------------
(***************************************************************************)
(* SecureMem.c: the store of credentials, records in memory that is moved  *)
(* when it grows, is protected except when it is used, and is destroyed in *)
(* the children of the process.                                            *)
(*                                                                         *)
(* A name is a sequence of characters, without backslashes: a colon is the *)
(* one character that is quoted, so a backslash would be taken for a quote.*)
(* Memory blocks are numbered in the order they are allocated; a block that*)
(* was freed stays in `freed'.                                             *)
(***************************************************************************)
EXTENDS Integers, Sequences, FiniteSets, SequencesExt

CONSTANTS
    Names,          \* realms and users
    Creds,          \* credentials: sequences of characters
    PageSize,
    MaxAdds         \* bound: no more is added when so many blocks were freed

CredsAssumption ==
    /\ \A s \in Names \cup Creds : s \in Seq(Range(s))
    /\ \A s \in Names \cup Creds : "\\" \notin Range(s)
    /\ <<>> \notin Names
    /\ PageSize \in Nat \ {0}

VARIABLES
    records,        \* <<realm, user, credential>>, as they follow each other
    block, freed,   \* the block of memory, 0 for none, and those that were freed
    size, used,     \* of the store
    access,         \* how the block is protected
    parent,         \* this is the process that made the store
    answer,         \* the last lookup: what for, block and credential, or none
    faults          \* what was done to memory that may not be

vars == <<records, block, freed, size, used, access, parent, answer, faults>>

Colon == ":"
None == [found |-> FALSE, realm |-> <<>>, user |-> <<>>, block |-> 0, cred |-> <<>>]
HeaderSize == 4

Init ==
    /\ records = <<>>
    /\ block = 0 /\ freed = {} /\ size = 0 /\ used = 0 /\ access = "all"
    /\ parent = TRUE /\ answer = None /\ faults = {}

(* QuoteCharsInStr and traverse_until: a colon in a field is quoted.       *)
Quoted(s) == FlattenSeq([i \in DOMAIN s |-> IF s[i] = Colon THEN <<"\\", Colon>> ELSE <<s[i]>>])
RecordSize(r) == Len(Quoted(r[1])) + Len(Quoted(r[2])) + Len(Quoted(r[3])) + 3

(* SecureRealloc: whole pages, and always one more than is needed.         *)
FaultMemSize(n) == (n \div PageSize) * PageSize
MemSize(n) == ((n \div PageSize) + 1) * PageSize

Touch(b, ways) == {x \in {"freed"} : b \in freed} \cup {x \in {"protected"} : access \notin ways}

(* CredsStoreAdd and SecureStoreAdd: a new block, into which the old one is*)
(* copied; the record is written with the memory open for writing.  All of *)
(* the old block is made accessible before it is copied, and then cleared. *)
CredsStoreAdd(realm, user, cred) ==
    LET record == <<realm, user, cred>>
        newused == used + RecordSize(record) + HeaderSize
        newsize == MemSize(newused)
        moved == newsize >= size
        newblock == IF moved THEN Cardinality(freed) + 2 - (IF block = 0 THEN 1 ELSE 0) ELSE block
    IN
    /\ Cardinality(freed) < MaxAdds
    /\ block' = newblock
    /\ freed' = IF moved /\ block # 0 THEN freed \cup {block} ELSE freed
    /\ size' = IF moved THEN newsize ELSE size
    /\ used' = newused
    /\ faults' = faults \cup {x \in {"freed"} : block \in freed}
                    \cup {x \in {"overrun"} : newused > size'}
    /\ records' = Append(records, record)
    /\ access' = "none"
    /\ UNCHANGED <<parent, answer>>

(* SecureStoreFieldMatch: that the field begins with what is looked for is *)
(* enough.  What is empty matches nothing.                                 *)
SecureStoreFieldMatch(field, match) == match # <<>> /\ IsPrefix(Quoted(match), Quoted(field))

Matches(realm, user) ==
    {i \in DOMAIN records :
        SecureStoreFieldMatch(records[i][1], realm) /\ SecureStoreFieldMatch(records[i][2], user)}

(* CredsStoreLookup: the records in turn (SecureStoreGetNext).  The caller *)
(* is given where the credential is, and the memory stays readable.        *)
CredsStoreLookup(realm, user) ==
    LET found == Matches(realm, user) IN
    /\ access' = IF block = 0 THEN access ELSE "read"
    /\ answer' = IF found = {} THEN [None EXCEPT !.realm = realm, !.user = user]
                 ELSE [found |-> TRUE, realm |-> realm, user |-> user, block |-> block,
                       cred |-> Quoted(records[CHOOSE i \in found : \A j \in found : i <= j][3])]
    /\ faults' = faults \cup {x \in {"freed"} : block \in freed}
    /\ UNCHANGED <<records, block, freed, size, used, parent>>

(* The caller copies the credential, before it adds another.               *)
UseAnswer ==
    /\ answer.found /\ answer.block = block
    /\ faults' = faults \cup Touch(answer.block, {"read"})
    /\ answer' = None
    /\ UNCHANGED <<records, block, freed, size, used, access, parent>>

(* CredsStoreOnFork: the child destroys its copy, and still refers to it.  *)
(* It was only marked to be destroyed by CredsStoreAdd.                    *)
CredsStoreOnFork ==
    /\ parent /\ parent' = FALSE
    /\ freed' = IF block = 0 THEN freed ELSE freed \cup {block}
    /\ answer' = None
    /\ UNCHANGED <<records, block, size, used, access, faults>>

(* CredsStoreDestroy, at exit: all is cleared and given back.              *)
CredsStoreDestroy ==
    /\ block # 0
    /\ faults' = faults \cup {x \in {"freed"} : block \in freed}
    /\ freed' = freed \cup {block}
    /\ block' = 0 /\ records' = <<>> /\ size' = 0 /\ used' = 0
    /\ access' = "all" /\ answer' = None
    /\ UNCHANGED parent

Next ==
    \/ \E realm \in Names, user \in Names, cred \in Creds : CredsStoreAdd(realm, user, cred)
    \/ \E realm \in Names, user \in Names : CredsStoreLookup(realm, user)
    \/ UseAnswer \/ CredsStoreOnFork \/ CredsStoreDestroy
Spec == Init /\ [][Next]_vars

-----------------------------------------------------------------------------
(* In the process that made the store nothing is written beyond it, and    *)
(* nothing is read that was given back or is protected.                    *)
NoBadAccess == parent => faults = {}

(* Records whose realm and user begin with the names that are asked for:   *)
(* those of the names, and of longer ones.                                 *)
BeginWith(realm, user) ==
    {i \in DOMAIN records : IsPrefix(realm, records[i][1]) /\ IsPrefix(user, records[i][2])}

(* A lookup finds something if a record begins with the names, and then the*)
(* credential of the first of them, as it was added, if there is no colon  *)
(* in it (they stay quoted).  So a record of the names themselves is not   *)
(* missed, and is the one that is found if none of longer names was added  *)
(* before it.                                                              *)
AnswersOwn ==
    /\ answer' # answer /\ answer'.realm # <<>>
    => LET begun == BeginWith(answer'.realm, answer'.user) IN
       /\ answer'.found = (begun # {})
       /\ \A i \in begun :
            (\A j \in begun : i <= j) /\ Colon \notin Range(records[i][3])
                => answer'.cred = records[i][3]
LookupIsOwn == [][AnswersOwn]_vars

(* Not checked, for they do not hold: what is found is of the names asked  *)
(* for; a child does not touch what it has destroyed; and the memory is    *)
(* protected when it is not used.                                          *)
AnswersExactly ==
    answer' # answer /\ answer'.found =>
        \E i \in DOMAIN records :
            records[i][1] = answer'.realm /\ records[i][2] = answer'.user
ChildIsClean == faults = {}
ProtectedAtRest == block # 0 /\ ~answer.found => access = "none"
=============================================================================
