------------------------------- MODULE Programs -------------------------------
(***************************************************************************)
(* Processes, what they may do and what they keep: one of seven components *)
(* at a time, chosen by `part'.  The variables of the others are held at   *)
(* values with which their liveness properties hold.  AutoRecover is       *)
(* extended, the others are instances.                                     *)
(***************************************************************************)
EXTENDS AutoRecover

ProgramParts == {"AutoRecover", "Process", "Spawn", "Expect", "Seccomp", "Creds", "OAuth"}
Off == "off"

CONSTANTS
    ProcessCases,                               \* ProcessConfig
    Plans, Capacity,                            \* SpawnPrograms
    Characters, Talks, Timeouts, MaxInput,      \* Expect
    NameLists, MaxLists,                        \* SeccompFilter
    Realms, Passwords, PageSize, MaxAdds,       \* CredsStore
    Clients, TokenNames, TooMany, MaxTokens, MaxLines   \* OAuthCreds

VARIABLES
    part,
    (* ProcessConfig *)
    opts, security, refused, root, pc, uid, permitted, done, failed, pid, pidInFile, rules,
    (* SpawnPrograms *)
    plan, started, holds, written, unread, child, stream, strayClose,
    (* Expect *)
    dialogs, timeout, match, doneAt, replies, input, result,
    (* SeccompFilter *)
    lists, filter, loaded,
    (* CredsStore *)
    records, block, freed, size, used, access, parent, answer, faults,
    (* OAuthCreds *)
    file, lock, ctx, next, items, tokens, saved

processVars == <<opts, security, refused, root, pc, uid, permitted, done, failed, pid,
                 pidInFile, rules>>
spawnVars == <<plan, started, holds, written, unread, child, stream, strayClose>>
expectVars == <<dialogs, timeout, match, doneAt, replies, input, result>>
seccompVars == <<lists, filter, loaded>>
credsVars == <<records, block, freed, size, used, access, parent, answer, faults>>
oauthVars == <<file, lock, ctx, next, items, tokens, saved>>
programsVars == <<part, vars, processVars, spawnVars, expectVars, seccompVars, credsVars,
                  oauthVars>>

-----------------------------------------------------------------------------
Pr == INSTANCE ProcessConfig WITH Cases <- ProcessCases
Sp == INSTANCE SpawnPrograms
Ex == INSTANCE Expect WITH Conversations <- Talks
Sc == INSTANCE SeccompFilter
Cr == INSTANCE CredsStore WITH Names <- Realms, Creds <- Passwords
Oa == INSTANCE OAuthCreds WITH Programs <- Clients, Names <- TokenNames

ASSUME ProgramsAssumption ==
    /\ Pr!ProcessAssumption
    /\ Ex!ExpectAssumption
    /\ Cr!CredsAssumption

-----------------------------------------------------------------------------
AutoRecoverOff == Init /\ config.opens = 0
ProcessOff ==
    /\ opts = Off /\ security = Off /\ refused = Off /\ root = Off /\ pc = "run" /\ uid = Off
    /\ permitted = Off /\ done = Off /\ failed = Off /\ pid = Off /\ pidInFile = Off /\ rules = Off
SpawnOff ==
    /\ plan = << >> /\ started = 1 /\ holds = Off /\ written = Off /\ unread = Off
    /\ child = << >> /\ stream = <<"none", "none">> /\ strayClose = Off
ExpectOff ==
    /\ dialogs = Off /\ timeout = Off /\ match = Off /\ doneAt = Off /\ replies = Off
    /\ input = Off /\ result = Off
SeccompOff == lists = Off /\ filter = Off /\ loaded = Off
CredsOff ==
    /\ records = Off /\ block = Off /\ freed = Off /\ size = Off /\ used = Off /\ access = Off
    /\ parent = Off /\ answer = Off /\ faults = Off
OAuthOff ==
    /\ file = Off /\ lock = Off /\ ctx = Off /\ next = Off /\ items = Off /\ tokens = Off
    /\ saved = Off

ProgramsInit ==
    /\ part \in ProgramParts
    /\ IF part = "AutoRecover" THEN Init ELSE AutoRecoverOff
    /\ IF part = "Process" THEN Pr!Init ELSE ProcessOff
    /\ IF part = "Spawn" THEN Sp!Init ELSE SpawnOff
    /\ IF part = "Expect" THEN Ex!Init ELSE ExpectOff
    /\ IF part = "Seccomp" THEN Sc!Init ELSE SeccompOff
    /\ IF part = "Creds" THEN Cr!Init ELSE CredsOff
    /\ IF part = "OAuth" THEN Oa!Init ELSE OAuthOff

AutoRecoverNext ==
    /\ part = "AutoRecover" /\ Next
    /\ UNCHANGED <<part, processVars, spawnVars, expectVars, seccompVars, credsVars, oauthVars>>
ProcessNext ==
    /\ part = "Process" /\ Pr!Next
    /\ UNCHANGED <<part, vars, spawnVars, expectVars, seccompVars, credsVars, oauthVars>>
SpawnNext ==
    /\ part = "Spawn" /\ Sp!Next
    /\ UNCHANGED <<part, vars, processVars, expectVars, seccompVars, credsVars, oauthVars>>
ExpectNext ==
    /\ part = "Expect" /\ Ex!Next
    /\ UNCHANGED <<part, vars, processVars, spawnVars, seccompVars, credsVars, oauthVars>>
SeccompNext ==
    /\ part = "Seccomp" /\ Sc!Next
    /\ UNCHANGED <<part, vars, processVars, spawnVars, expectVars, credsVars, oauthVars>>
CredsNext ==
    /\ part = "Creds" /\ Cr!Next
    /\ UNCHANGED <<part, vars, processVars, spawnVars, expectVars, seccompVars, oauthVars>>
OAuthNext ==
    /\ part = "OAuth" /\ Oa!Next
    /\ UNCHANGED <<part, vars, processVars, spawnVars, expectVars, seccompVars, credsVars>>
ProgramsNext ==
    \/ AutoRecoverNext \/ ProcessNext \/ SpawnNext \/ ExpectNext \/ SeccompNext
    \/ CredsNext \/ OAuthNext

(* The fairness of the components that have any.                           *)
ProgramsSpec ==
    /\ ProgramsInit
    /\ [][ProgramsNext]_programsVars
    /\ WF_processVars(part = "Process" /\ Pr!Library)
    /\ \A i \in 1 .. 2 : WF_spawnVars(part = "Spawn" /\ i \in Sp!Programs /\ Sp!Runs(i))
    /\ \A i \in 1 .. 2 : WF_spawnVars(part = "Spawn" /\ i \in Sp!Programs /\ Sp!WaitsExit(i))

-----------------------------------------------------------------------------
(* A process that goes on is all that was asked for, whatever the system   *)
(* refuses that the library looks at.                                      *)
RunsAsAsked == part = "Process" => Pr!RunsAsAsked

(* Expect answers what it sees, misses nothing that is due, and succeeds   *)
(* only if all that is required came.                                      *)
SeenIsAnswered == part = "Expect" => Ex!SeenIsAnswered /\ Ex!TrueMeansDone

(* A filter decides as the first list that names a call has it, and each   *)
(* token of `security' adds to what the others refuse.                     *)
FirstMatchDecides ==
    /\ part = "Seccomp" => Sc!FirstMatchDecides
    /\ part = "Process" => Pr!TokensAddUp

(* The last token of each name is the one that is found in the file.       *)
LatestIsInFile == part = "OAuth" => Oa!LatestIsInFile

(* A lookup finds the first credential whose names begin with those that   *)
(* are asked for, and no memory is used that was given back or is          *)
(* protected.                                                              *)
LookupIsOwn ==
    /\ [](part = "Creds" => Cr!NoBadAccess)
    /\ [][part = "Creds" => Cr!AnswersOwn]_credsVars

(* A process setup ends, or waits for a lock; and a program that was       *)
(* started comes to the end of its input when the streams are closed, and  *)
(* to its own end when it is waited for.                                   *)
EndIsReached ==
    /\ Pr!EndsSomewhere
    /\ Sp!WaitReturns
    /\ Sp!AllClosedAllEnd
=============================================================================
