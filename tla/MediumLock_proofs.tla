------------------------- MODULE MediumLock_proofs -------------------------
(***************************************************************************)
(* A medium's file is locked while a handle on it is kept and no longer,   *)
(* and a handle taken for one alone has no company, for any number of      *)
(* programs, files, takes and kills (module MediumLock).  What a program   *)
(* has locked is at most the file it has open, so the invariant speaks of  *)
(* each program by itself, wherever it stands in its call; what another    *)
(* does to the name of its file is not in it, and need not be.             *)
(***************************************************************************)
EXTENDS MediumLock, FiniteSetTheorems, TLAPS

LEMMA LockBounds ==
    /\ MaxLockFiles \in Nat /\ MaxTakes \in Nat /\ MaxKills \in Nat
    /\ Nobody \notin Programs
    /\ Files \subseteq Nat /\ 0 \notin Files
    /\ HandleIds \subseteq Nat /\ 0 \notin HandleIds
BY LockAssumption DEF LockAssumption, Files, HandleIds

\* Every handle not let go is in the table, under an id given before.
TableIsExact(p) ==
    /\ kept[p] = handles[p]
    /\ \A h \in handles[p] : h <= given[p]
    /\ ~shared[p] => \A h, k \in handles[p] : h = k

\* A program has a file open in a call that needs it, or for its handles.
FileIsNeeded(p) ==
    /\ ~AtCall(p, "idle") => handles[p] = {}
    /\ file[p] = 0 <=> call[p] \in {"idle", "looking"} /\ handles[p] = {}

\* It has no other file locked, and locked this one is while it holds.
LocksItsOwn(p) ==
    /\ \A i \in Files : locker[i] = p =>
          file[p] = i /\ call[p] \notin {"opened", "probing"}
    /\ Has(p) \/ call[p] \in {"locked", "leaving"} =>
          file[p] \in Files /\ locker[file[p]] = p

Sound(p) == TableIsExact(p) /\ FileIsNeeded(p) /\ LocksItsOwn(p)
LockInv == LockTypes /\ \A p \in Programs : Sound(p)

LEMMA InitLockInv == LockInit => LockInv
<1> SUFFICES ASSUME LockInit PROVE LockInv
  OBVIOUS
<1>1. LockTypes
  BY LockBounds DEF LockInit, LockTypes
<1>2. ASSUME NEW p \in Programs PROVE Sound(p)
  BY LockBounds DEF LockInit, Sound, TableIsExact, FileIsNeeded, LocksItsOwn, AtCall, Has
<1> QED
  BY <1>1, <1>2 DEF LockInv

\* A program that another's step does not touch.
LEMMA OthersSound ==
    ASSUME NEW q \in Programs, Sound(q),
           call'[q] = call[q], file'[q] = file[q], handles'[q] = handles[q],
           kept'[q] = kept[q], given'[q] = given[q], shared'[q] = shared[q],
           \A i \in Files : locker'[i] = q <=> locker[i] = q
    PROVE  Sound(q)'
<1>1. TableIsExact(q)'
  BY DEF Sound, TableIsExact
<1>2. FileIsNeeded(q)'
  BY DEF Sound, FileIsNeeded, AtCall
<1>3. LocksItsOwn(q)'
  BY DEF Sound, LocksItsOwn, Has
<1> QED
  BY <1>1, <1>2, <1>3 DEF Sound

\* Where a program stands, for its own step.
LEMMA Standing ==
    ASSUME LockInv, NEW p \in Programs
    PROVE  /\ LockTypes /\ TableIsExact(p) /\ FileIsNeeded(p) /\ LocksItsOwn(p)
           /\ \A q \in Programs : Sound(q)
BY DEF LockInv, Sound

\* A handle given.
LEMMA GiveTypes ==
    ASSUME LockTypes, NEW p \in Programs, NEW among \in SUBSET HandleIds, Give(p, among)
    PROVE  /\ given' \in [Programs -> HandleIds \union {0}]
           /\ handles' \in [Programs -> SUBSET HandleIds]
           /\ kept' \in [Programs -> SUBSET HandleIds]
           /\ given'[p] = given[p] + 1 /\ given[p] \in Nat
           /\ handles'[p] = among \union {given'[p]} /\ kept'[p] = kept[p] \union {given'[p]}
           /\ \A q \in Programs \ {p} :
                 given'[q] = given[q] /\ handles'[q] = handles[q] /\ kept'[q] = kept[q]
<1>1. given[p] \in Nat /\ given[p] + 1 \in HandleIds
  BY LockBounds DEF LockTypes, Give, HandleIds
<1> QED
  BY <1>1 DEF LockTypes, Give

LEMMA JoinKeeps ==
    ASSUME LockInv, NEW p \in Programs, Join(p)
    PROVE  LockInv'
<1>1. /\ LockTypes /\ TableIsExact(p) /\ FileIsNeeded(p) /\ LocksItsOwn(p)
      /\ \A q \in Programs : Sound(q)
  BY Standing
<1>2. /\ UNCHANGED <<link, made, locker, file, shared, call, wants, kills>>
      /\ Give(p, handles[p]) /\ Has(p) /\ shared[p] /\ call[p] = "idle"
      /\ handles[p] \in SUBSET HandleIds
  BY <1>1 DEF Join, disk, AtCall, LockTypes
<1>3. /\ given' \in [Programs -> HandleIds \union {0}]
      /\ handles' \in [Programs -> SUBSET HandleIds]
      /\ kept' \in [Programs -> SUBSET HandleIds]
      /\ given'[p] = given[p] + 1 /\ given[p] \in Nat
      /\ handles'[p] = handles[p] \union {given'[p]} /\ kept'[p] = kept[p] \union {given'[p]}
      /\ \A q \in Programs \ {p} :
            given'[q] = given[q] /\ handles'[q] = handles[q] /\ kept'[q] = kept[q]
  BY <1>1, <1>2, GiveTypes
<1>4. LockTypes'
  BY <1>1, <1>2, <1>3 DEF LockTypes
<1>5. ASSUME NEW q \in Programs \ {p} PROVE Sound(q)'
  BY <1>1, <1>2, <1>3, OthersSound
<1>6. TableIsExact(p)'
  <2>1. \A h \in handles[p] : h \in Nat /\ h <= given[p]
    BY <1>1, <1>2, LockBounds DEF TableIsExact
  <2>2. \A h \in handles'[p] : h <= given'[p]
    BY <1>3, <2>1
  <2> QED
    BY <1>1, <1>2, <1>3, <2>2 DEF TableIsExact
<1>7. FileIsNeeded(p)' /\ LocksItsOwn(p)'
  BY <1>1, <1>2, <1>3 DEF FileIsNeeded, LocksItsOwn, AtCall, Has
<1> QED
  BY <1>4, <1>5, <1>6, <1>7 DEF LockInv, Sound

\* The file a program opens, or makes, is its own from then.
LEMMA OpenFileTypes ==
    ASSUME LockTypes, NEW p \in Programs, OpenFile(p)
    PROVE  /\ link' \in Files \union {0} /\ made' \in Files \union {0}
           /\ file' \in [Programs -> Files \union {0}]
           /\ file'[p] \in Files /\ locker' = locker
           /\ \A q \in Programs \ {p} : file'[q] = file[q]
<1>1. CASE link # 0
  BY <1>1 DEF LockTypes, OpenFile, disk
<1>2. CASE link = 0
  <2>1. made + 1 \in Files
    BY <1>2, LockBounds DEF LockTypes, OpenFile, Files
  <2> QED
    BY <1>2, <2>1 DEF LockTypes, OpenFile
<1> QED
  BY <1>1, <1>2

LEMMA OpenKeeps ==
    ASSUME LockInv, NEW p \in Programs,
           (\E share \in BOOLEAN : OpenLock(p, share)) \/ OpenProbe(p)
    PROVE  LockInv'
<1>1. /\ LockTypes /\ TableIsExact(p) /\ FileIsNeeded(p) /\ LocksItsOwn(p)
      /\ \A q \in Programs : Sound(q)
  BY Standing
<1>2. /\ UNCHANGED <<shared, handles, kept, given, kills>>
      /\ OpenFile(p) /\ handles[p] = {} /\ call[p] \in {"idle", "looking"}
      /\ call'[p] \in {"opened", "probing"}
      /\ \A q \in Programs \ {p} : call'[q] = call[q]
  BY <1>1 DEF OpenLock, OpenProbe, table, AtCall, GotoCall, Has, FileIsNeeded, LockTypes
<1>3. /\ link' \in Files \union {0} /\ made' \in Files \union {0}
      /\ file' \in [Programs -> Files \union {0}]
      /\ file'[p] \in Files /\ locker' = locker
      /\ \A q \in Programs \ {p} : file'[q] = file[q]
  BY <1>1, <1>2, OpenFileTypes
<1>4. LockTypes'
  <2>1. call' \in [Programs -> {"idle", "opened", "locked", "leaving", "closing",
                                "looking", "probing"}]
    BY <1>1 DEF OpenLock, OpenProbe, GotoCall, LockTypes
  <2>2. wants' \in [Programs -> BOOLEAN]
    BY <1>1, Zenon DEF OpenLock, OpenProbe, LockTypes
  <2> QED
    BY <1>1, <1>2, <1>3, <2>1, <2>2, Zenon DEF LockTypes
<1>5. ASSUME NEW q \in Programs \ {p} PROVE Sound(q)'
  BY <1>1, <1>2, <1>3, OthersSound
<1>6. \A i \in Files : locker[i] # p
  BY <1>1, <1>2, LockBounds DEF FileIsNeeded, LocksItsOwn
<1>7. TableIsExact(p)' /\ FileIsNeeded(p)' /\ LocksItsOwn(p)'
  BY <1>1, <1>2, <1>3, <1>6, LockBounds
     DEF TableIsExact, FileIsNeeded, LocksItsOwn, AtCall, Has
<1> QED
  BY <1>4, <1>5, <1>7 DEF LockInv, Sound

\* A call's next place, and the one program it is of.
LEMMA GotoTypes ==
    ASSUME LockTypes, NEW p \in Programs,
           NEW there \in {"idle", "opened", "locked", "leaving", "closing", "looking",
                          "probing"},
           GotoCall(p, there)
    PROVE  /\ call' \in [Programs -> {"idle", "opened", "locked", "leaving", "closing",
                                      "looking", "probing"}]
           /\ call'[p] = there
           /\ \A q \in Programs \ {p} : call'[q] = call[q]
BY DEF LockTypes, GotoCall

\* A lock got, or not, by a program with the file open.
LEMMA LockKeeps ==
    ASSUME LockInv, NEW p \in Programs, Lock(p) \/ Probe(p)
    PROVE  LockInv'
<1>1. /\ LockTypes /\ TableIsExact(p) /\ FileIsNeeded(p) /\ LocksItsOwn(p)
      /\ \A q \in Programs : Sound(q)
  BY Standing
<1>2. /\ UNCHANGED <<link, made, file, shared, handles, kept, given, wants, kills>>
      /\ call[p] \in {"opened", "probing"}
      /\ GotoCall(p, "locked") \/ GotoCall(p, "closing")
      /\ GotoCall(p, "locked") => LockFile(p)
      /\ LockFile(p) \/ UNCHANGED locker
  <2>1. CASE Lock(p)
    BY <2>1 DEF Lock, AtCall, table
  <2>2. CASE Probe(p)
    <3>1. ~GotoCall(p, "locked")
      BY <1>1, <2>2 DEF Probe, GotoCall, LockTypes
    <3> QED
      BY <2>2, <3>1 DEF Probe, AtCall, table
  <2> QED
    BY <2>1, <2>2
<1>3. /\ call' \in [Programs -> {"idle", "opened", "locked", "leaving", "closing",
                                 "looking", "probing"}]
      /\ call'[p] \in {"locked", "closing"}
      /\ call'[p] = "locked" => LockFile(p)
      /\ \A q \in Programs \ {p} : call'[q] = call[q]
  BY <1>1, <1>2, GotoTypes
<1>4. file[p] \in Files /\ handles[p] = {}
  BY <1>1, <1>2 DEF FileIsNeeded, AtCall, LockTypes
<1>5. /\ locker' \in [Files -> Programs \union {Nobody}]
      /\ \A i \in Files : locker'[i] = locker[i]
                             \/ (i = file[p] /\ locker[i] = Nobody /\ locker'[i] = p)
      /\ call'[p] = "locked" => locker'[file[p]] = p
  BY <1>1, <1>2, <1>3, <1>4 DEF LockFile, LockTypes
<1>6. LockTypes'
  BY <1>1, <1>2, <1>3, <1>5, Zenon DEF LockTypes
<1>7. ASSUME NEW q \in Programs \ {p} PROVE Sound(q)'
  <2>1. q # Nobody /\ q # p
    BY LockBounds
  <2> QED
    BY <1>1, <1>2, <1>3, <1>5, <2>1, OthersSound
<1>8. TableIsExact(p)' /\ FileIsNeeded(p)'
  BY <1>1, <1>2, <1>3, <1>4, LockBounds DEF TableIsExact, FileIsNeeded, AtCall
<1>9. LocksItsOwn(p)'
  BY <1>1, <1>2, <1>3, <1>4, <1>5, LockBounds DEF LocksItsOwn, Has
<1> QED
  BY <1>6, <1>7, <1>8, <1>9 DEF LockInv, Sound

LEMMA LockRefusedKeeps ==
    ASSUME LockInv, NEW p \in Programs, LockRefused(p)
    PROVE  LockInv'
<1>1. /\ LockTypes /\ TableIsExact(p) /\ FileIsNeeded(p) /\ LocksItsOwn(p)
      /\ \A q \in Programs : Sound(q)
  BY Standing
<1>2. /\ UNCHANGED <<link, made, locker, shared, handles, kept, given, kills>>
      /\ file' = [file EXCEPT ![p] = 0] /\ call[p] = "opened" /\ GotoCall(p, "idle")
      /\ wants' = [wants EXCEPT ![p] = FALSE]
  BY DEF LockRefused, disk, table, AtCall
<1>3. /\ call' \in [Programs -> {"idle", "opened", "locked", "leaving", "closing",
                                 "looking", "probing"}]
      /\ call'[p] = "idle" /\ \A q \in Programs \ {p} : call'[q] = call[q]
      /\ file' \in [Programs -> Files \union {0}]
      /\ file'[p] = 0 /\ \A q \in Programs \ {p} : file'[q] = file[q]
  BY <1>1, <1>2, GotoTypes DEF LockTypes
<1>4. wants' \in [Programs -> BOOLEAN]
  BY <1>1, <1>2, Zenon DEF LockTypes
<1>5. LockTypes'
  BY <1>1, <1>2, <1>3, <1>4, Zenon DEF LockTypes
<1>6. ASSUME NEW q \in Programs \ {p} PROVE Sound(q)'
  BY <1>1, <1>2, <1>3, OthersSound
<1>7. TableIsExact(p)' /\ FileIsNeeded(p)' /\ LocksItsOwn(p)'
  BY <1>1, <1>2, <1>3 DEF TableIsExact, FileIsNeeded, LocksItsOwn, AtCall, Has
<1> QED
  BY <1>5, <1>6, <1>7 DEF LockInv, Sound

LEMMA HoldMediumKeeps ==
    ASSUME LockInv, NEW p \in Programs, HoldMedium(p)
    PROVE  LockInv'
<1>1. /\ LockTypes /\ TableIsExact(p) /\ FileIsNeeded(p) /\ LocksItsOwn(p)
      /\ \A q \in Programs : Sound(q)
  BY Standing
<1>2. /\ UNCHANGED <<link, made, locker, file, kills>>
      /\ Give(p, {}) /\ call[p] = "locked" /\ GotoCall(p, "idle")
      /\ shared' = [shared EXCEPT ![p] = wants[p]]
      /\ wants' = [wants EXCEPT ![p] = FALSE]
  BY DEF HoldMedium, disk, AtCall
<1>3. /\ given' \in [Programs -> HandleIds \union {0}]
      /\ handles' \in [Programs -> SUBSET HandleIds]
      /\ kept' \in [Programs -> SUBSET HandleIds]
      /\ handles'[p] = {} \union {given'[p]} /\ kept'[p] = kept[p] \union {given'[p]}
      /\ \A q \in Programs \ {p} :
            given'[q] = given[q] /\ handles'[q] = handles[q] /\ kept'[q] = kept[q]
  BY <1>1, <1>2, GiveTypes
<1>4. /\ call' \in [Programs -> {"idle", "opened", "locked", "leaving", "closing",
                                 "looking", "probing"}]
      /\ call'[p] = "idle" /\ \A q \in Programs \ {p} : call'[q] = call[q]
  BY <1>1, <1>2, GotoTypes
<1>5. /\ wants' \in [Programs -> BOOLEAN] /\ shared' \in [Programs -> BOOLEAN]
      /\ \A q \in Programs \ {p} : shared'[q] = shared[q]
  BY <1>1, <1>2, Zenon DEF LockTypes
<1>6. LockTypes'
  BY <1>1, <1>2, <1>3, <1>4, <1>5, Zenon DEF LockTypes
<1>7. ASSUME NEW q \in Programs \ {p} PROVE Sound(q)'
  BY <1>1, <1>2, <1>3, <1>4, <1>5, OthersSound
<1>8. kept[p] = {} /\ handles'[p] = {given'[p]} /\ given'[p] \in Nat
  <2>1. kept[p] = {}
    BY <1>1, <1>2 DEF TableIsExact, FileIsNeeded, AtCall
  <2>2. given'[p] \in HandleIds \union {0}
    BY <1>3
  <2> QED
    BY <1>3, <2>1, <2>2, LockBounds
<1>9. TableIsExact(p)'
  BY <1>3, <1>8 DEF TableIsExact
<1>10. FileIsNeeded(p)' /\ LocksItsOwn(p)'
  BY <1>1, <1>2, <1>4, <1>8, LockBounds DEF FileIsNeeded, LocksItsOwn, AtCall, Has
<1> QED
  BY <1>6, <1>7, <1>9, <1>10 DEF LockInv, Sound

LEMMA WriteFailsKeeps ==
    ASSUME LockInv, NEW p \in Programs, WriteFails(p) \/ Unlink(p) \/ Look(p)
    PROVE  LockInv'
<1>1. /\ LockTypes /\ TableIsExact(p) /\ FileIsNeeded(p) /\ LocksItsOwn(p)
      /\ \A q \in Programs : Sound(q)
  BY Standing
<1>2. /\ UNCHANGED <<made, locker, file, shared, handles, kept, given, kills>>
      /\ link' \in Files \union {0}
  BY <1>1 DEF WriteFails, Unlink, Look, disk, table, LockTypes
<1>3. wants' \in [Programs -> BOOLEAN]
  BY <1>1, Zenon DEF WriteFails, Unlink, Look, LockTypes
<1>4. /\ \/ call[p] = "locked" /\ GotoCall(p, "leaving")
         \/ call[p] = "leaving" /\ GotoCall(p, "closing")
         \/ call[p] = "idle" /\ ~Has(p) /\ GotoCall(p, "looking")
  BY DEF WriteFails, Unlink, Look, AtCall
<1>5. /\ call' \in [Programs -> {"idle", "opened", "locked", "leaving", "closing",
                                 "looking", "probing"}]
      /\ \/ call[p] = "locked" /\ call'[p] = "leaving"
         \/ call[p] = "leaving" /\ call'[p] = "closing"
         \/ call[p] = "idle" /\ ~Has(p) /\ call'[p] = "looking"
      /\ \A q \in Programs \ {p} : call'[q] = call[q]
  BY <1>1, <1>4, GotoTypes
<1>6. LockTypes'
  BY <1>1, <1>2, <1>3, <1>5, Zenon DEF LockTypes
<1>7. ASSUME NEW q \in Programs \ {p} PROVE Sound(q)'
  BY <1>1, <1>2, <1>5, OthersSound
<1>8. TableIsExact(p)' /\ FileIsNeeded(p)' /\ LocksItsOwn(p)'
  BY <1>1, <1>2, <1>5, LockBounds DEF TableIsExact, FileIsNeeded, LocksItsOwn, AtCall, Has
<1> QED
  BY <1>6, <1>7, <1>8 DEF LockInv, Sound

LEMMA ReleaseKeeps ==
    ASSUME LockInv, NEW p \in Programs, NEW id \in HandleIds, Release(p, id)
    PROVE  LockInv'
<1>1. /\ LockTypes /\ TableIsExact(p) /\ FileIsNeeded(p) /\ LocksItsOwn(p)
      /\ \A q \in Programs : Sound(q)
  BY Standing
<1>2. /\ UNCHANGED <<link, made, locker, file, given, wants, kills>>
      /\ call[p] = "idle"
      /\ kept' = [kept EXCEPT ![p] = @ \ {id}]
      /\ handles' = [handles EXCEPT ![p] = @ \ {id}]
  BY DEF Release, disk, AtCall
<1>3. /\ kept' \in [Programs -> SUBSET HandleIds]
      /\ handles' \in [Programs -> SUBSET HandleIds]
      /\ kept'[p] = kept[p] \ {id} /\ handles'[p] = handles[p] \ {id}
      /\ \A q \in Programs \ {p} : kept'[q] = kept[q] /\ handles'[q] = handles[q]
  BY <1>1, <1>2 DEF LockTypes
<1>4. /\ IF handles[p] = {id}
         THEN GotoCall(p, "leaving") /\ shared' = [shared EXCEPT ![p] = FALSE]
         ELSE UNCHANGED <<call, shared>>
  BY DEF Release
<1>5. /\ call' \in [Programs -> {"idle", "opened", "locked", "leaving", "closing",
                                 "looking", "probing"}]
      /\ call'[p] = IF handles[p] = {id} THEN "leaving" ELSE "idle"
      /\ \A q \in Programs \ {p} : call'[q] = call[q]
  <2>1. CASE handles[p] = {id}
    BY <1>1, <1>4, <2>1, GotoTypes
  <2>2. CASE handles[p] # {id}
    BY <1>1, <1>2, <1>4, <2>2 DEF LockTypes
  <2> QED
    BY <2>1, <2>2
<1>6. /\ shared' \in [Programs -> BOOLEAN]
      /\ handles[p] # {id} => shared'[p] = shared[p]
      /\ \A q \in Programs \ {p} : shared'[q] = shared[q]
  BY <1>1, <1>4, Zenon DEF LockTypes
<1>7. LockTypes'
  BY <1>1, <1>2, <1>3, <1>5, <1>6, Zenon DEF LockTypes
<1>8. ASSUME NEW q \in Programs \ {p} PROVE Sound(q)'
  BY <1>1, <1>2, <1>3, <1>5, <1>6, OthersSound
<1>9. TableIsExact(p)'
  <2>1. kept'[p] = handles'[p] /\ \A h \in handles'[p] : h <= given'[p]
    BY <1>1, <1>2, <1>3 DEF TableIsExact
  <2>2. CASE handles[p] = {id}
    BY <1>3, <2>1, <2>2 DEF TableIsExact
  <2>3. CASE handles[p] # {id}
    BY <1>1, <1>3, <1>6, <2>1, <2>3 DEF TableIsExact
  <2> QED
    BY <2>2, <2>3
<1>10. FileIsNeeded(p)'
  BY <1>1, <1>2, <1>3, <1>5 DEF FileIsNeeded, AtCall
<1>11. LocksItsOwn(p)'
  BY <1>1, <1>2, <1>3, <1>5 DEF LocksItsOwn, Has
<1> QED
  BY <1>7, <1>8, <1>9, <1>10, <1>11 DEF LockInv, Sound

\* The file closed takes with it the lock its program has on it.
LEMMA CloseFileTypes ==
    ASSUME LockTypes, NEW p \in Programs, LocksItsOwn(p),
           \/ file[p] # 0 /\ CloseFile(p)
           \/ file[p] = 0 /\ UNCHANGED <<locker, file>>
    PROVE  /\ locker' \in [Files -> Programs \union {Nobody}]
           /\ file' \in [Programs -> Files \union {0}]
           /\ file'[p] = 0 /\ \A i \in Files : locker'[i] # p
           /\ \A q \in Programs \ {p} :
                 file'[q] = file[q] /\ \A i \in Files : locker'[i] = q <=> locker[i] = q
<1>1. p # Nobody /\ \A q \in Programs : q # Nobody
  BY LockBounds
<1>2. CASE file[p] # 0 /\ CloseFile(p)
  <2>1. file[p] \in Files
    BY <1>2 DEF LockTypes
  <2>2. /\ locker' = [locker EXCEPT ![file[p]] = IF @ = p THEN Nobody ELSE @]
        /\ file' = [file EXCEPT ![p] = 0]
    BY <1>2 DEF CloseFile
  <2>3. \A i \in Files : locker[i] = p => i = file[p]
    BY DEF LocksItsOwn
  <2>4. /\ \A i \in Files : i # file[p] => locker'[i] = locker[i]
        /\ locker'[file[p]] = IF locker[file[p]] = p THEN Nobody ELSE locker[file[p]]
    BY <2>1, <2>2 DEF LockTypes
  <2>5. \A i \in Files : locker'[i] # p
    BY <1>1, <2>3, <2>4
  <2>6. \A q \in Programs \ {p} : \A i \in Files : locker'[i] = q <=> locker[i] = q
    BY <1>1, <2>4
  <2>7. locker' \in [Files -> Programs \union {Nobody}]
    BY <2>1, <2>2 DEF LockTypes
  <2> QED
    BY <2>2, <2>5, <2>6, <2>7 DEF LockTypes
<1>3. CASE file[p] = 0 /\ UNCHANGED <<locker, file>>
  BY <1>1, <1>3, LockBounds DEF LockTypes, LocksItsOwn
<1> QED
  BY <1>2, <1>3

LEMMA CloseKeeps ==
    ASSUME LockInv, NEW p \in Programs, Close(p)
    PROVE  LockInv'
<1>1. /\ LockTypes /\ TableIsExact(p) /\ FileIsNeeded(p) /\ LocksItsOwn(p)
      /\ \A q \in Programs : Sound(q)
  BY Standing
<1>2. /\ UNCHANGED <<link, made, shared, handles, kept, given, wants, kills>>
      /\ call[p] = "closing" /\ GotoCall(p, "idle") /\ CloseFile(p)
  BY DEF Close, table, AtCall
<1>3. file[p] # 0 /\ handles[p] = {}
  BY <1>1, <1>2 DEF FileIsNeeded, AtCall
<1>4. /\ locker' \in [Files -> Programs \union {Nobody}]
      /\ file' \in [Programs -> Files \union {0}]
      /\ file'[p] = 0 /\ \A i \in Files : locker'[i] # p
      /\ \A q \in Programs \ {p} :
            file'[q] = file[q] /\ \A i \in Files : locker'[i] = q <=> locker[i] = q
  BY <1>1, <1>2, <1>3, CloseFileTypes
<1>5. /\ call' \in [Programs -> {"idle", "opened", "locked", "leaving", "closing",
                                 "looking", "probing"}]
      /\ call'[p] = "idle" /\ \A q \in Programs \ {p} : call'[q] = call[q]
  BY <1>1, <1>2, GotoTypes
<1>6. LockTypes'
  BY <1>1, <1>2, <1>4, <1>5, Zenon DEF LockTypes
<1>7. ASSUME NEW q \in Programs \ {p} PROVE Sound(q)'
  BY <1>1, <1>2, <1>4, <1>5, OthersSound
<1>8. TableIsExact(p)' /\ FileIsNeeded(p)' /\ LocksItsOwn(p)'
  BY <1>1, <1>2, <1>3, <1>4, <1>5 DEF TableIsExact, FileIsNeeded, LocksItsOwn, AtCall, Has
<1> QED
  BY <1>6, <1>7, <1>8 DEF LockInv, Sound

LEMMA KillKeeps ==
    ASSUME LockInv, NEW p \in Programs, Kill(p)
    PROVE  LockInv'
<1>1. /\ LockTypes /\ TableIsExact(p) /\ FileIsNeeded(p) /\ LocksItsOwn(p)
      /\ \A q \in Programs : Sound(q)
  BY Standing
<1>2. /\ UNCHANGED <<link, made, given>> /\ kills' = kills + 1 /\ kills < MaxKills
      /\ \/ file[p] # 0 /\ CloseFile(p)
         \/ file[p] = 0 /\ UNCHANGED <<locker, file>>
      /\ handles' = [handles EXCEPT ![p] = {}] /\ kept' = [kept EXCEPT ![p] = {}]
      /\ shared' = [shared EXCEPT ![p] = FALSE] /\ wants' = [wants EXCEPT ![p] = FALSE]
      /\ GotoCall(p, "idle")
  BY DEF Kill
<1>3. /\ locker' \in [Files -> Programs \union {Nobody}]
      /\ file' \in [Programs -> Files \union {0}]
      /\ file'[p] = 0 /\ \A i \in Files : locker'[i] # p
      /\ \A q \in Programs \ {p} :
            file'[q] = file[q] /\ \A i \in Files : locker'[i] = q <=> locker[i] = q
  BY <1>1, <1>2, CloseFileTypes
<1>4. /\ call' \in [Programs -> {"idle", "opened", "locked", "leaving", "closing",
                                 "looking", "probing"}]
      /\ call'[p] = "idle" /\ \A q \in Programs \ {p} : call'[q] = call[q]
  BY <1>1, <1>2, GotoTypes
<1>5. /\ handles' \in [Programs -> SUBSET HandleIds]
      /\ kept' \in [Programs -> SUBSET HandleIds]
      /\ handles'[p] = {} /\ kept'[p] = {}
      /\ \A q \in Programs \ {p} : handles'[q] = handles[q] /\ kept'[q] = kept[q]
  BY <1>1, <1>2 DEF LockTypes
<1>6. /\ shared' \in [Programs -> BOOLEAN] /\ wants' \in [Programs -> BOOLEAN]
      /\ \A q \in Programs \ {p} : shared'[q] = shared[q]
  BY <1>1, <1>2, Zenon DEF LockTypes
<1>7. kills' \in 0 .. MaxKills
  BY <1>1, <1>2, LockBounds DEF LockTypes
<1>8. LockTypes'
  BY <1>1, <1>2, <1>3, <1>4, <1>5, <1>6, <1>7, Zenon DEF LockTypes
<1>9. ASSUME NEW q \in Programs \ {p} PROVE Sound(q)'
  BY <1>1, <1>2, <1>3, <1>4, <1>5, <1>6, OthersSound
<1>10. TableIsExact(p)' /\ FileIsNeeded(p)' /\ LocksItsOwn(p)'
  BY <1>3, <1>4, <1>5 DEF TableIsExact, FileIsNeeded, LocksItsOwn, AtCall, Has
<1> QED
  BY <1>8, <1>9, <1>10 DEF LockInv, Sound

LEMMA LockNextKeeps == ASSUME LockInv, LockNext PROVE LockInv'
<1>1. PICK p \in Programs : LockStep(p)
  BY DEF LockNext
<1> QED
  BY <1>1, JoinKeeps, OpenKeeps, LockKeeps, LockRefusedKeeps, HoldMediumKeeps,
     WriteFailsKeeps, ReleaseKeeps, CloseKeeps, KillKeeps DEF LockStep

LEMMA LockRests == ASSUME LockInv, UNCHANGED lock_vars PROVE LockInv'
<1>1. UNCHANGED <<link, made, locker, file, shared, handles, kept, given, call, wants,
                  kills>>
  BY DEF lock_vars, disk, table
<1>2. LockTypes'
  BY <1>1, Zenon DEF LockInv, LockTypes
<1>3. ASSUME NEW q \in Programs PROVE Sound(q)'
  BY <1>1, Standing, OthersSound
<1> QED
  BY <1>2, <1>3 DEF LockInv

(* The invariant of the lock, and with it its types, holds in every        *)
(* reachable state.                                                        *)
THEOREM AlwaysLockInv == LockSpec => []LockInv
<1>1. LockInv /\ [LockNext]_lock_vars => LockInv'
  BY LockNextKeeps, LockRests
<1> QED
  BY <1>1, InitLockInv, PTL DEF LockSpec

(* Between a program's calls the one file it has locked is the one it has  *)
(* open, and only while a handle of its is kept: for any programs, files,  *)
(* takes and kills, wherever a take fails or a program dies.               *)
THEOREM LockedOnlyWhileKept == LockSpec => []LockedWhileKept
<1>1. LockInv => LockedWhileKept
  <2> SUFFICES ASSUME LockInv, NEW p \in Programs, call[p] = "idle"
               PROVE  IF kept[p] = {} THEN LockedBy(p) = {} /\ file[p] = 0
                                      ELSE LockedBy(p) = {file[p]}
    BY DEF LockedWhileKept, AtCall
  <2>1. /\ LockTypes /\ TableIsExact(p) /\ FileIsNeeded(p) /\ LocksItsOwn(p)
    BY Standing
  <2>2. \A i \in LockedBy(p) : i \in Files /\ i = file[p]
    BY <2>1 DEF LockedBy, LocksItsOwn
  <2>3. CASE kept[p] = {}
    <3>1. file[p] = 0
      BY <2>1, <2>3 DEF TableIsExact, FileIsNeeded
    <3> QED
      BY <2>2, <2>3, <3>1, LockBounds
  <2>4. CASE kept[p] # {}
    <3>1. file[p] \in LockedBy(p)
      BY <2>1, <2>4 DEF TableIsExact, LocksItsOwn, Has, LockedBy
    <3> QED
      BY <2>2, <2>4, <3>1
  <2> QED
    BY <2>3, <2>4
<1> QED
  BY <1>1, AlwaysLockInv, PTL

(* A handle taken for one alone has no company in its program while it is  *)
(* kept, for any programs and takes.                                       *)
THEOREM AloneStaysAlone == LockSpec => []AloneHasNoCompany
<1>1. LockInv => AloneHasNoCompany
  <2> SUFFICES ASSUME LockInv, NEW p \in Programs, ~shared[p]
               PROVE  Cardinality(kept[p]) <= 1
    BY DEF AloneHasNoCompany
  <2>1. \A h, k \in kept[p] : h = k
    BY Standing DEF TableIsExact
  <2>2. CASE kept[p] = {}
    BY <2>2, FS_EmptySet
  <2>3. CASE kept[p] # {}
    <3>1. PICK h : kept[p] = {h}
      BY <2>1, <2>3
    <3> QED
      BY <3>1, FS_Singleton
  <2> QED
    BY <2>2, <2>3
<1> QED
  BY <1>1, AlwaysLockInv, PTL
=============================================================================
