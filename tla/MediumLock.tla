----------------------------- MODULE MediumLock -----------------------------
(***************************************************************************)
(* The advisory lock on one save medium (galaxia/src/medium_lock.rs):      *)
(* <file>.lock, opened and locked with flock while held and removed when   *)
(* let go, over the table in which a program counts its own handles.       *)
(*                                                                         *)
(* A program makes one call at a time, its table being under a mutex; the  *)
(* programs share the file system, where each call they make is a step.    *)
(* A lock file removed while it is open lives on without its name, so      *)
(* files are numbered as they are made and link is the one the name names. *)
(***************************************************************************)
EXTENDS Naturals, FiniteSets

CONSTANTS
    Programs,   \* the programs that use the medium
    MaxLockFiles,   \* lock files made in a run
    MaxTakes,   \* handles a program is given in a run
    MaxKills,   \* programs killed in a run
    Nobody

ASSUME LockAssumption ==
    /\ MaxLockFiles \in Nat /\ MaxTakes \in Nat /\ MaxKills \in Nat
    /\ Nobody \notin Programs

VARIABLES
    link,     \* the file <file>.lock names, 0 for none
    made,     \* the files made
    locker,   \* who has each file locked
    file,     \* the file each program has open, 0 for none
    shared,   \* the table's entry was taken as shared
    handles,  \* the handles in the table's entry: none, no entry
    kept,     \* the handles their owners have not let go
    given,    \* the handles given
    call,     \* where each program stands in its call
    wants,    \* its call's shared flag
    kills     \* programs killed so far

disk == <<link, made, locker>>
table == <<shared, handles, kept, given>>
lock_vars == <<disk, file, table, call, wants, kills>>

Files == 1 .. MaxLockFiles
HandleIds == 1 .. MaxTakes

LockInit ==
    /\ link = 0
    /\ made = 0
    /\ locker = [i \in Files |-> Nobody]
    /\ file = [p \in Programs |-> 0]
    /\ shared = [p \in Programs |-> FALSE]
    /\ handles = [p \in Programs |-> {}]
    /\ kept = [p \in Programs |-> {}]
    /\ given = [p \in Programs |-> 0]
    /\ call = [p \in Programs |-> "idle"]
    /\ wants = [p \in Programs |-> FALSE]
    /\ kills = 0

AtCall(p, here) == call[p] = here
GotoCall(p, there) == call' = [call EXCEPT ![p] = there]
Has(p) == handles[p] # {}

\* A handle of the program's own, under the next id.
Give(p, among) ==
    LET id == given[p] + 1
    IN  /\ given[p] < MaxTakes
        /\ given' = [given EXCEPT ![p] = id]
        /\ handles' = [handles EXCEPT ![p] = among \union {id}]
        /\ kept' = [kept EXCEPT ![p] = @ \union {id}]

-----------------------------------------------------------------------------
(* try_take(file, holder, shared)                                          *)

\* A faulty Join: an entry taken for one alone is joined by any who share.
JoinAnyEntry(p) ==
    /\ AtCall(p, "idle") /\ Has(p)
    /\ Give(p, handles[p])
    /\ UNCHANGED <<disk, file, shared, call, wants, kills>>

\* This program has it, shared, and the call shares.  Any other call on a
\* medium it has is refused, and changes nothing.
Join(p) ==
    /\ AtCall(p, "idle") /\ Has(p)
    /\ shared[p]
    /\ Give(p, handles[p])
    /\ UNCHANGED <<disk, file, shared, call, wants, kills>>

\* The file the name names opened, made where there is none.
OpenFile(p) ==
    \/ /\ link # 0
       /\ file' = [file EXCEPT ![p] = link]
       /\ UNCHANGED disk
    \/ /\ link = 0
       /\ made < MaxLockFiles
       /\ made' = made + 1
       /\ link' = made + 1
       /\ file' = [file EXCEPT ![p] = made + 1]
       /\ UNCHANGED locker

OpenLock(p, share) ==
    /\ AtCall(p, "idle") /\ ~Has(p)
    /\ given[p] < MaxTakes
    /\ OpenFile(p)
    /\ wants' = [wants EXCEPT ![p] = share]
    /\ GotoCall(p, "opened")
    /\ UNCHANGED <<table, kills>>

LockFile(p) ==
    /\ locker[file[p]] = Nobody
    /\ locker' = [locker EXCEPT ![file[p]] = p]

Lock(p) ==
    /\ AtCall(p, "opened")
    /\ LockFile(p)
    /\ GotoCall(p, "locked")
    /\ UNCHANGED <<link, made, file, table, wants, kills>>

\* Locked by another: the file is closed and the call refused.
LockRefused(p) ==
    /\ AtCall(p, "opened")
    /\ locker[file[p]] # Nobody
    /\ file' = [file EXCEPT ![p] = 0]
    /\ wants' = [wants EXCEPT ![p] = FALSE]
    /\ GotoCall(p, "idle")
    /\ UNCHANGED <<disk, table, kills>>

\* The words written, and the medium this program's.
HoldMedium(p) ==
    /\ AtCall(p, "locked")
    /\ shared' = [shared EXCEPT ![p] = wants[p]]
    /\ Give(p, {})
    /\ wants' = [wants EXCEPT ![p] = FALSE]
    /\ GotoCall(p, "idle")
    /\ UNCHANGED <<disk, file, kills>>

WriteFails(p) ==
    /\ AtCall(p, "locked")
    /\ wants' = [wants EXCEPT ![p] = FALSE]
    /\ GotoCall(p, "leaving")
    /\ UNCHANGED <<disk, file, table, kills>>

-----------------------------------------------------------------------------
(* release(id) and release_file(key, file)                                 *)

\* A faulty Release: the latest handle goes, whichever was let go.
ReleaseTheLatest(p, id) ==
    /\ AtCall(p, "idle")
    /\ id \in 1 .. given[p]
    /\ kept' = [kept EXCEPT ![p] = @ \ {id}]
    /\ handles' = [handles EXCEPT ![p] = {h \in @ : \E later \in @ : later > h}]
    /\ IF Has(p) /\ handles'[p] = {}
       THEN GotoCall(p, "leaving") /\ shared' = [shared EXCEPT ![p] = FALSE]
       ELSE UNCHANGED <<call, shared>>
    /\ UNCHANGED <<disk, file, given, wants, kills>>

\* A handle let go, again or for the first time; the file with the last one.
Release(p, id) ==
    /\ AtCall(p, "idle")
    /\ id \in 1 .. given[p]
    /\ kept' = [kept EXCEPT ![p] = @ \ {id}]
    /\ handles' = [handles EXCEPT ![p] = @ \ {id}]
    /\ IF handles[p] = {id}
       THEN GotoCall(p, "leaving") /\ shared' = [shared EXCEPT ![p] = FALSE]
       ELSE UNCHANGED <<call, shared>>
    /\ UNCHANGED <<disk, file, given, wants, kills>>

\* remove_file(): the name, whichever file it names by now.
Unlink(p) ==
    /\ AtCall(p, "leaving")
    /\ link' = 0
    /\ GotoCall(p, "closing")
    /\ UNCHANGED <<made, locker, file, table, wants, kills>>

\* The file closed, and with it the lock on it, if this program has it.
CloseFile(p) ==
    /\ locker' = [locker EXCEPT ![file[p]] = IF @ = p THEN Nobody ELSE @]
    /\ file' = [file EXCEPT ![p] = 0]

Close(p) ==
    /\ AtCall(p, "closing")
    /\ CloseFile(p)
    /\ GotoCall(p, "idle")
    /\ UNCHANGED <<link, made, table, wants, kills>>

-----------------------------------------------------------------------------
(* holder_of(file) of a medium this program has not: the file is opened    *)
(* and locked to see whether it can be, then closed.                       *)

\* There is a lock file.
Look(p) ==
    /\ AtCall(p, "idle") /\ ~Has(p)
    /\ link # 0
    /\ GotoCall(p, "looking")
    /\ UNCHANGED <<disk, file, table, wants, kills>>

\* It is opened, or one is made: it may have gone meanwhile.
OpenProbe(p) ==
    /\ AtCall(p, "looking")
    /\ OpenFile(p)
    /\ GotoCall(p, "probing")
    /\ UNCHANGED <<table, wants, kills>>

\* Locked, or another program has it: either way what is left is to close.
Probe(p) ==
    /\ AtCall(p, "probing")
    /\ LockFile(p) \/ (locker[file[p]] # Nobody /\ UNCHANGED locker)
    /\ GotoCall(p, "closing")
    /\ UNCHANGED <<link, made, file, table, wants, kills>>

-----------------------------------------------------------------------------
\* A program ends anywhere, and another starts: the system closes its file,
\* and the name stays.
Kill(p) ==
    /\ kills < MaxKills
    /\ kills' = kills + 1
    /\ IF file[p] # 0 THEN CloseFile(p) ELSE UNCHANGED <<locker, file>>
    /\ handles' = [handles EXCEPT ![p] = {}]
    /\ kept' = [kept EXCEPT ![p] = {}]
    /\ shared' = [shared EXCEPT ![p] = FALSE]
    /\ wants' = [wants EXCEPT ![p] = FALSE]
    /\ GotoCall(p, "idle")
    /\ UNCHANGED <<link, made, given>>

LockStep(p) ==
    \/ Join(p)
    \/ \E share \in BOOLEAN : OpenLock(p, share)
    \/ Lock(p) \/ LockRefused(p) \/ HoldMedium(p) \/ WriteFails(p)
    \/ \E id \in HandleIds : Release(p, id)
    \/ Unlink(p) \/ Close(p)
    \/ Look(p) \/ OpenProbe(p) \/ Probe(p)
    \/ Kill(p)

LockNext == \E p \in Programs : LockStep(p)

LockSpec == LockInit /\ [][LockNext]_lock_vars

-----------------------------------------------------------------------------
(* Every variable keeps its type, and no handle is 0, which tells a caller *)
(* that it was given none.                                                 *)
LockTypes ==
    /\ link \in Files \union {0}
    /\ made \in Files \union {0}
    /\ locker \in [Files -> Programs \union {Nobody}]
    /\ file \in [Programs -> Files \union {0}]
    /\ shared \in [Programs -> BOOLEAN]
    /\ handles \in [Programs -> SUBSET HandleIds]
    /\ kept \in [Programs -> SUBSET HandleIds]
    /\ given \in [Programs -> HandleIds \union {0}]
    /\ call \in [Programs -> {"idle", "opened", "locked", "leaving", "closing",
                            "looking", "probing"}]
    /\ wants \in [Programs -> BOOLEAN]
    /\ kills \in 0 .. MaxKills

LockedBy(p) == {i \in Files : locker[i] = p}

(* Between a program's calls the one file it has locked is the one it has  *)
(* open, and only while one of its handles is kept: a take refused or      *)
(* failed, a handle let go twice, a look at the holder or a program killed *)
(* leaves no lock behind, and none is let go early (try_take, release).    *)
LockedWhileKept ==
    \A p \in Programs :
        AtCall(p, "idle") =>
            IF kept[p] = {} THEN LockedBy(p) = {} /\ file[p] = 0
                            ELSE LockedBy(p) = {file[p]}

(* A handle taken for one alone has no company in its program while it is  *)
(* kept, whatever its program asks for meanwhile (try_take's two flags).   *)
AloneHasNoCompany ==
    \A p \in Programs : ~shared[p] => Cardinality(kept[p]) <= 1

-----------------------------------------------------------------------------
(* medium_lock.rs says that the lock file is locked exclusively while held *)
(* "so two programs never write one card": at most one program holds it.   *)
AtMostOneProgramHolds ==
    Cardinality({p \in Programs : Has(p)}) <= 1
=============================================================================
