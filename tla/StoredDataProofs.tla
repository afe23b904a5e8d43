-------------------------- MODULE StoredDataProofs --------------------------
(*****************************************************************************)
(* What the files of StoredData keep true, proved for every value of their   *)
(* constants: one inductive invariant per component.                         *)
(*****************************************************************************)
EXTENDS StoredData, FiniteSetTheorems, SequenceTheorems, WellFoundedInduction, TLAPS

-----------------------------------------------------------------------------
(* CredentialStore: a copy that is about to be renamed was read under the    *)
(* lock, which its process still holds.                                      *)

CredentialPlaces == {"down", "idle", "locking", "locked", "applied", "releasing"}
UnderLock == {"locked", "applied", "releasing"}

CredentialTypes ==
  /\ place \in [Procs -> CredentialPlaces] /\ data \in [Procs -> files] /\ file \in files
  /\ copy = [p \in Procs |-> copy[p]] /\ change = [p \in Procs |-> change[p]]

\* The lock and the places of the processes agree.
Holder ==
  /\ fileLock # "none" => fileLock \in Procs /\ place[fileLock] \in UnderLock
  /\ \A p \in Procs : place[p] \in UnderLock => fileLock = p

\* What is about to replace the file is the file with the change applied.
CopyIsFile ==
  \A p \in Procs : place[p] = "applied" =>
    copy[p] = [file EXCEPT ![change[p].provider] = change[p].value]

\* A process that has just replaced the file remembers it.
Remembers == \A p \in Procs : place[p] = "releasing" => data[p] = file

CredentialInv == CredentialTypes /\ Holder /\ CopyIsFile /\ Remembers /\ file = succeeded

USE CredentialAssumption

\* Nobody holds the lock, every process is down and knows the first content.
LEMMA CredentialInit == ASSUME Credentials!Init PROVE CredentialInv
BY DEF Credentials!Init, CredentialInv, CredentialTypes, Holder, CopyIsFile, Remembers,
   CredentialPlaces, UnderLock

\* Steps outside the lock, and giving it back: no file, no copy changes.
LEMMA CredentialQuiet ==
  ASSUME CredentialInv, NEW p \in Procs,
         \/ Credentials!Load(p) \/ Credentials!AcquireFileLock(p)
         \/ Credentials!Release(p) \/ Credentials!Fails(p) \/ Credentials!Crash(p)
         \/ \E v \in Providers, value \in {0, changes + 1} : Credentials!Begin(p, v, value)
  PROVE  CredentialInv'
<1>1. CASE Credentials!Load(p)
  BY <1>1 DEF Credentials!Load, CredentialInv, CredentialTypes, Holder, CopyIsFile, Remembers,
     CredentialPlaces, UnderLock
<1>2. CASE Credentials!AcquireFileLock(p)
  BY <1>2 DEF Credentials!AcquireFileLock, CredentialInv, CredentialTypes, Holder, CopyIsFile,
     Remembers, CredentialPlaces, UnderLock
<1>3. CASE Credentials!Release(p)
  BY <1>3 DEF Credentials!Release, CredentialInv, CredentialTypes, Holder, CopyIsFile,
     Remembers, CredentialPlaces, UnderLock
<1>4. CASE Credentials!Fails(p)
  BY <1>4 DEF Credentials!Fails, CredentialInv, CredentialTypes, Holder, CopyIsFile, Remembers,
     CredentialPlaces, UnderLock
<1>5. CASE Credentials!Crash(p)
  BY <1>5 DEF Credentials!Crash, CredentialInv, CredentialTypes, Holder, CopyIsFile, Remembers,
     CredentialPlaces, UnderLock
<1>6. ASSUME NEW v \in Providers, NEW value \in {0, changes + 1}, Credentials!Begin(p, v, value)
      PROVE  CredentialInv'
  BY <1>6 DEF Credentials!Begin, CredentialInv, CredentialTypes, Holder, CopyIsFile, Remembers,
     CredentialPlaces, UnderLock
<1> QED BY <1>1, <1>2, <1>3, <1>4, <1>5, <1>6

\* The change is applied to the file of this moment, read under the lock.
LEMMA ApplyKeeps ==
  ASSUME CredentialInv, NEW p \in Procs, Credentials!Apply(p)
  PROVE  CredentialInv'
BY DEF Credentials!Apply, Credentials!Current, CredentialInv, CredentialTypes, Holder,
   CopyIsFile, Remembers, CredentialPlaces, UnderLock

\* The rename installs the file of this moment with one change: the only other copy that
\* could be on its way would belong to another holder of the lock.
LEMMA ReplaceKeeps ==
  ASSUME CredentialInv, NEW p \in Procs, Credentials!Replace(p)
  PROVE  CredentialInv'
<1>1. /\ place[p] = "applied" /\ fileLock = p
      /\ copy[p] = [file EXCEPT ![change[p].provider] = change[p].value]
  BY DEF Credentials!Replace, CredentialInv, Holder, CopyIsFile, UnderLock
<1>2. \A q \in Procs : place[q] \in UnderLock => q = p
  BY <1>1 DEF CredentialInv, Holder
<1>3. CredentialTypes'
  BY DEF Credentials!Replace, CredentialInv, CredentialTypes, CredentialPlaces
<1>4. Holder'
  BY <1>1, <1>2 DEF Credentials!Replace, CredentialInv, CredentialTypes, Holder,
     CredentialPlaces, UnderLock
<1>5. CopyIsFile' /\ Remembers'
  BY <1>1, <1>2 DEF Credentials!Replace, CredentialInv, CredentialTypes, CopyIsFile, Remembers,
     CredentialPlaces, UnderLock
<1>6. file' = succeeded'
  BY <1>1 DEF Credentials!Replace, CredentialInv
<1> QED BY <1>3, <1>4, <1>5, <1>6 DEF CredentialInv

LEMMA CredentialCounts == ASSUME NEW S PROVE Credentials!Cardinality(S) = Cardinality(S)
BY DEF Credentials!Cardinality, Cardinality

\* At most one process is past the lock, since each that is holds it.
LEMMA CredentialImplies == ASSUME CredentialInv PROVE Credentials!CredentialsKept
<1> DEFINE Inside == {p \in Procs : place[p] \in {"locked", "applied", "releasing"}}
<1>1. Inside = {} \/ Inside = {fileLock}
  BY DEF CredentialInv, Holder, UnderLock
<1>2. Credentials!Cardinality(Inside) <= 1
  <2>1. CASE Inside = {}
    BY <2>1, FS_EmptySet, CredentialCounts
  <2>2. CASE Inside = {fileLock}
    <3>1. Credentials!Cardinality({fileLock}) = 1
      BY FS_Singleton, CredentialCounts
    <3> HIDE DEF Inside
    <3> QED BY <2>2, <3>1
  <2> QED BY <1>1, <2>1, <2>2
<1>3. /\ file = succeeded
      /\ fileLock # "none" => place[fileLock] \in {"locked", "applied", "releasing"}
      /\ \A p \in Procs : place[p] # "down" => data[p] \in files
      /\ \A p \in Procs : place[p] = "releasing" => data[p] = file
  BY DEF CredentialInv, CredentialTypes, Holder, Remembers, UnderLock
<1> QED BY <1>2, <1>3 DEF Credentials!CredentialsKept

\* Every step of the store keeps the invariant.
LEMMA CredentialStep ==
  ASSUME CredentialInv, Credentials!Next \/ UNCHANGED credentialVars PROVE CredentialInv'
<1>1. ASSUME UNCHANGED credentialVars PROVE CredentialInv'
  BY <1>1 DEF credentialVars, CredentialInv, CredentialTypes, Holder, CopyIsFile, Remembers
<1>2. ASSUME Credentials!Next PROVE CredentialInv'
  BY <1>2, CredentialQuiet, ApplyKeeps, ReplaceKeeps DEF Credentials!Next
<1> QED BY <1>1, <1>2

HIDE CredentialAssumption

-----------------------------------------------------------------------------
(* PackageStore: until a stolen lock lets two processes in, the one inside   *)
(* replaces the index by what it read, with its own change.                  *)

StoreInside == {"read", "checked", "moved", "index", "unlock"}

StoreTypes ==
  /\ dir \in [Packages -> {"none", "tree", "whole"}]
  /\ at \in [Procs -> StoreInside \cup {"idle", "lock", "steal", "relock"}]
  /\ op \in [Procs -> {"none", "install", "activate", "deactivate", "remove"}]
  /\ target \in [Procs -> Packages] /\ snap = [p \in Procs |-> snap[p]]
  /\ \A p \in Procs : at[p] # "idle" => op[p] # "none"
  /\ overlap \in BOOLEAN

OneInside == \A p, r \in Procs : at[p] \in StoreInside /\ at[r] \in StoreInside => p = r

\* What a process found under the lock is still so when it acts on it.
Ready(p) ==
  /\ snap[p] = [installed |-> installed, active |-> active]
  /\ op[p] = "install" => target[p] \notin installed
  /\ op[p] = "remove" => target[p] \notin active
  /\ op[p] = "activate" => Deps[target[p]] \cup {target[p]} \subseteq installed
  /\ at[p] = "checked" => op[p] \in {"install", "remove"}
  /\ at[p] = "moved" => op[p] = "install"
  /\ at[p] = "index" /\ op[p] = "install" => dir[target[p]] = "whole"
  /\ at[p] = "index" /\ op[p] = "remove" => dir[target[p]] = "none"

AllReady == \A p \in Procs : at[p] \in {"checked", "moved", "index"} => Ready(p)

Changes(p, q) ==
  target[p] = q /\ at[p] \in {"moved", "index"} /\ op[p] \in {"install", "remove"}

Agree(q) == q \in installed <=> dir[q] = "whole"
AllAgree == \A q \in Packages \ damaged : Agree(q) \/ \E p \in Procs : Changes(p, q)

StoreSound == OneInside /\ AllReady /\ AllAgree /\ active \subseteq installed
StoreInv == StoreTypes /\ (overlap \/ StoreSound)

USE StoreAssumption

LEMMA StoreInit == ASSUME Store!Init PROVE StoreInv
BY DEF Store!Init, StoreInv, StoreTypes, StoreSound, OneInside, AllReady, AllAgree, Agree,
   StoreInside

\* Steps of a process that is not inside and does not get inside.
StoreOutside(p) ==
  \/ \E o \in {"install", "activate", "deactivate", "remove"}, q \in Packages :
       Store!Begin(p, o, q)
  \/ Store!Locked(p) \/ Store!RemoveStale(p) \/ Store!RelockLoses(p)

\* Steps of a process that gets inside.
StoreEnters(p) == \E q \in Packages : Store!AcquireLock(p, q) \/ Store!Relock(p, q)

LEMMA OutsideTypes ==
  ASSUME StoreTypes, NEW p \in Procs, StoreOutside(p)
  PROVE  StoreTypes'
<1>1. ASSUME NEW o \in {"install", "activate", "deactivate", "remove"}, NEW q \in Packages,
             Store!Begin(p, o, q)
      PROVE  StoreTypes'
  BY <1>1 DEF Store!Begin, Store!Goto, Store!index, StoreTypes, StoreInside
<1>2. CASE Store!Locked(p)
  <2>1. CASE stale
    BY <1>2, <2>1 DEF Store!Locked, Store!Goto, Store!index, Store!faults, StoreTypes,
       StoreInside
  <2>2. CASE ~stale
    BY <1>2, <2>2 DEF Store!Locked, Store!Goto, Store!Forget, Store!index, Store!faults,
       StoreTypes, StoreInside
  <2> QED BY <2>1, <2>2
<1>3. CASE Store!RemoveStale(p)
  BY <1>3 DEF Store!RemoveStale, Store!Goto, Store!index, Store!faults, StoreTypes, StoreInside
<1>4. CASE Store!RelockLoses(p)
  BY <1>4 DEF Store!RelockLoses, Store!Goto, Store!Forget, Store!index, Store!faults,
     StoreTypes, StoreInside
<1> QED BY <1>1, <1>2, <1>3, <1>4 DEF StoreOutside

\* What matters of such a step: the others stay where they are, nothing of the store changes.
LEMMA OutsideEffect ==
  ASSUME StoreTypes, NEW p \in Procs, StoreOutside(p)
  PROVE  /\ UNCHANGED <<installed, active, dir, damaged, overlap>>
         /\ at[p] \notin StoreInside /\ at'[p] \notin StoreInside
         /\ \A r \in Procs \ {p} : /\ at'[r] = at[r] /\ op'[r] = op[r]
                                   /\ target'[r] = target[r] /\ snap'[r] = snap[r]
<1>1. ASSUME NEW o \in {"install", "activate", "deactivate", "remove"}, NEW q \in Packages,
             Store!Begin(p, o, q)
      PROVE  /\ UNCHANGED <<installed, active, dir, damaged, overlap>>
             /\ at[p] \notin StoreInside /\ at'[p] \notin StoreInside
             /\ \A r \in Procs \ {p} : /\ at'[r] = at[r] /\ op'[r] = op[r]
                                       /\ target'[r] = target[r] /\ snap'[r] = snap[r]
  BY <1>1 DEF Store!Begin, Store!Goto, Store!index, StoreTypes, StoreInside
<1>2. CASE Store!Locked(p)
  <2>1. CASE stale
    BY <1>2, <2>1 DEF Store!Locked, Store!Goto, Store!index, Store!faults, StoreTypes,
       StoreInside
  <2>2. CASE ~stale
    BY <1>2, <2>2 DEF Store!Locked, Store!Goto, Store!Forget, Store!index, Store!faults,
       StoreTypes, StoreInside
  <2> QED BY <2>1, <2>2
<1>3. CASE Store!RemoveStale(p)
  BY <1>3 DEF Store!RemoveStale, Store!Goto, Store!index, Store!faults, StoreTypes, StoreInside
<1>4. CASE Store!RelockLoses(p)
  BY <1>4 DEF Store!RelockLoses, Store!Goto, Store!Forget, Store!index, Store!faults,
     StoreTypes, StoreInside
<1> QED BY <1>1, <1>2, <1>3, <1>4 DEF StoreOutside

LEMMA OutsideKeeps ==
  ASSUME StoreInv, NEW p \in Procs, StoreOutside(p)
  PROVE  StoreInv'
<1>1. StoreTypes'
  BY OutsideTypes DEF StoreInv
<1>2. /\ UNCHANGED <<installed, active, dir, damaged, overlap>>
      /\ at[p] \notin StoreInside /\ at'[p] \notin StoreInside
      /\ \A r \in Procs \ {p} : /\ at'[r] = at[r] /\ op'[r] = op[r]
                                /\ target'[r] = target[r] /\ snap'[r] = snap[r]
  BY OutsideEffect DEF StoreInv
<1>3. ASSUME StoreSound PROVE StoreSound'
  <2>1. OneInside'
    BY <1>2, <1>3 DEF StoreSound, OneInside
  <2>2. AllReady'
    BY <1>2, <1>3 DEF StoreSound, AllReady, Ready, StoreInside
  <2>3. AllAgree'
    BY <1>2, <1>3 DEF StoreSound, AllAgree, Agree, Changes, StoreInside
  <2> QED BY <1>2, <1>3, <2>1, <2>2, <2>3 DEF StoreSound
<1> QED BY <1>1, <1>2, <1>3 DEF StoreInv

\* Getting inside while another process is there is what overlap remembers.
LEMMA EntersKeeps ==
  ASSUME StoreInv, NEW p \in Procs, StoreEnters(p)
  PROVE  StoreInv'
<1>1. PICK q \in Packages : Store!AcquireLock(p, q) \/ Store!Relock(p, q)
  BY DEF StoreEnters
<1>2. /\ UNCHANGED <<installed, active, dir, damaged, op, snap>>
      /\ at[p] \notin StoreInside /\ at[p] # "idle" /\ at' = [at EXCEPT ![p] = "read"]
      /\ target' = [target EXCEPT ![p] = q] /\ overlap' = (overlap \/ Store!Inside # {})
  BY <1>1 DEF Store!AcquireLock, Store!Relock, Store!Acquired, Store!Goto, Store!index,
     Store!faults, StoreInside
<1>3. StoreTypes'
  BY <1>2 DEF StoreInv, StoreTypes, StoreInside
<1>4. ASSUME ~overlap' PROVE StoreSound'
  <2>1. StoreSound /\ \A r \in Procs : at[r] \notin StoreInside
    BY <1>2, <1>4 DEF StoreInv, Store!Inside, StoreInside
  <2>2. \A r \in Procs : at'[r] \in StoreInside => r = p /\ at'[r] = "read"
    BY <1>2, <2>1 DEF StoreInv, StoreTypes
  <2>3. OneInside' /\ AllReady'
    BY <2>2 DEF OneInside, AllReady, StoreInside
  <2>4. AllAgree'
    BY <1>2, <2>1 DEF StoreSound, AllAgree, Agree, Changes, StoreInside
  <2> QED BY <1>2, <2>1, <2>3, <2>4 DEF StoreSound
<1> QED BY <1>3, <1>4 DEF StoreInv

\* Steps under the lock, and the end of a process wherever it is.
StoreWorks(p) ==
  \/ Store!ReadIndex(p) \/ Store!StagingFails(p) \/ Store!MoveIntoPlace(p)
  \/ Store!WriteReceipt(p) \/ Store!RemoveAll(p) \/ Store!WriteIndex(p) \/ Store!Fails(p)
  \/ Store!Unlock(p) \/ Store!Crash(p)

LEMMA WorksTypes ==
  ASSUME StoreTypes, NEW p \in Procs, StoreWorks(p)
  PROVE  StoreTypes'
<1> USE DEF StoreTypes, StoreInside, Store!Goto, Store!index, Store!faults
<1>1. CASE Store!ReadIndex(p)
  BY <1>1 DEF Store!ReadIndex
<1>2. CASE Store!StagingFails(p) \/ Store!WriteIndex(p) \/ Store!Fails(p)
  BY <1>2 DEF Store!StagingFails, Store!WriteIndex, Store!Fails
<1>3. CASE Store!MoveIntoPlace(p) \/ Store!WriteReceipt(p) \/ Store!RemoveAll(p)
  BY <1>3 DEF Store!MoveIntoPlace, Store!WriteReceipt, Store!RemoveAll
<1>4. CASE Store!Unlock(p)
  <2>1. CASE todo[p] = {}
    BY <1>4, <2>1 DEF Store!Unlock, Store!Forget
  <2>2. CASE todo[p] # {}
    BY <1>4, <2>2 DEF Store!Unlock
  <2> QED BY <2>1, <2>2
<1>5. CASE Store!Crash(p)
  BY <1>5 DEF Store!Crash, Store!Forget
<1> QED BY <1>1, <1>2, <1>3, <1>4, <1>5 DEF StoreWorks

\* The store is sound after a step of the one process inside that leaves the others alone,
\* if that process is ready afterwards and the packages agree.
LEMMA SoundBy ==
  ASSUME StoreTypes, StoreSound, NEW p \in Procs,
         at[p] \in StoreInside, StoreTypes',
         \A r \in Procs \ {p} : at'[r] = at[r],
         at'[p] \in {"checked", "moved", "index"} => Ready(p)',
         AllAgree', active' \subseteq installed'
  PROVE  StoreSound'
<1>1. \A r \in Procs \ {p} : at'[r] \notin StoreInside
  BY DEF StoreSound, OneInside
<1>2. OneInside' /\ AllReady'
  BY <1>1 DEF OneInside, AllReady, StoreInside
<1> QED BY <1>2 DEF StoreSound

\* The packages agree if directories and index do not change, and a process that stops
\* changing a package leaves it damaged.
LEMMA AgreeBy ==
  ASSUME AllAgree, NEW p \in Procs, UNCHANGED <<installed, dir>>, damaged \subseteq damaged',
         \A r \in Procs \ {p} : at'[r] = at[r] /\ op'[r] = op[r] /\ target'[r] = target[r],
         \A q \in Packages : Changes(p, q) => Changes(p, q)' \/ q \in damaged'
  PROVE  AllAgree'
<1> SUFFICES ASSUME NEW q \in Packages \ damaged',
                    ~Agree(q)'
             PROVE  \E r \in Procs : Changes(r, q)'
  BY DEF AllAgree
<1>1. PICK r \in Procs : Changes(r, q)
  BY DEF AllAgree, Agree
<1>2. CASE r = p
  BY <1>1, <1>2
<1>3. CASE r # p
  BY <1>1, <1>3 DEF Changes
<1> QED BY <1>2, <1>3

LEMMA ReadIndexKeeps ==
  ASSUME StoreInv, NEW p \in Procs, Store!ReadIndex(p)
  PROVE  StoreInv'
<1>1. StoreTypes /\ StoreTypes'
  BY WorksTypes DEF StoreWorks, StoreInv
<1>2. /\ UNCHANGED <<installed, active, dir, damaged, overlap, op, target>>
      /\ at[p] = "read" /\ snap' = [snap EXCEPT ![p] = [installed |-> installed,
                                                         active |-> active]]
      /\ at' = [at EXCEPT ![p] = IF ~Store!Allowed(p) THEN "unlock"
                                 ELSE IF op[p] \in {"install", "remove"} THEN "checked"
                                 ELSE "index"]
  BY DEF Store!ReadIndex, Store!Goto, Store!index, Store!faults
<1>3. ASSUME StoreSound PROVE StoreSound'
  <2>1. at[p] \in StoreInside /\ \A r \in Procs \ {p} : at'[r] = at[r]
    BY <1>1, <1>2 DEF StoreTypes, StoreInside
  <2>2. ASSUME at'[p] \in {"checked", "moved", "index"} PROVE Ready(p)'
    <3>1. Store!Allowed(p)
      BY <1>1, <1>2, <2>2 DEF StoreTypes
    <3>2. op[p] \in {"install", "activate", "deactivate", "remove"}
      BY <1>1, <1>2 DEF StoreTypes
    <3>3. /\ op[p] = "install" => target[p] \notin installed
          /\ op[p] = "remove" => target[p] \notin active
          /\ op[p] = "activate" => Deps[target[p]] \cup {target[p]} \subseteq installed
      BY <3>1, <3>2 DEF Store!Allowed
    <3>4. at'[p] = IF op[p] \in {"install", "remove"} THEN "checked" ELSE "index"
      BY <1>1, <1>2, <3>1 DEF StoreTypes
    <3>5. snap'[p] = [installed |-> installed, active |-> active]
      BY <1>1, <1>2 DEF StoreTypes
    <3> QED BY <1>2, <3>3, <3>4, <3>5 DEF Ready
  <2>3. AllAgree'
    <3>1. \A q \in Packages : ~Changes(p, q)
      BY <1>2 DEF Changes
    <3> QED BY <1>2, <1>3, <2>1, <3>1, AgreeBy DEF StoreSound
  <2> QED BY <1>1, <1>2, <1>3, <2>1, <2>2, <2>3, SoundBy DEF StoreSound
<1> QED BY <1>1, <1>2, <1>3 DEF StoreInv

\* Leaving: a step that fails, the end of a command, a kill.
LEMMA LeavesKeeps ==
  ASSUME StoreInv, NEW p \in Procs,
         Store!StagingFails(p) \/ Store!Fails(p) \/ Store!Unlock(p) \/ Store!Crash(p)
  PROVE  StoreInv'
<1>1. StoreTypes /\ StoreTypes'
  BY WorksTypes DEF StoreWorks, StoreInv
<1>2. /\ UNCHANGED <<installed, active, dir, overlap>>
      /\ at'[p] \notin {"checked", "moved", "index", "read"}
      /\ at'[p] \in StoreInside => at[p] \in StoreInside
      /\ \A r \in Procs \ {p} : /\ at'[r] = at[r] /\ op'[r] = op[r]
                                /\ target'[r] = target[r] /\ snap'[r] = snap[r]
      /\ damaged \subseteq damaged'
      /\ \A q \in Packages : Changes(p, q) => q \in damaged'
  <2> USE <1>1 DEF StoreTypes, StoreInside, Store!Goto, Store!index, Store!faults, Changes
  <2>1. CASE Store!StagingFails(p)
    BY <2>1 DEF Store!StagingFails
  <2>2. CASE Store!Fails(p)
    BY <2>2 DEF Store!Fails
  <2>3. CASE Store!Unlock(p)
    <3>1. CASE todo[p] = {}
      BY <2>3, <3>1 DEF Store!Unlock, Store!Forget
    <3>2. CASE todo[p] # {}
      BY <2>3, <3>2 DEF Store!Unlock
    <3> QED BY <3>1, <3>2
  <2>4. CASE Store!Crash(p)
    BY <2>4 DEF Store!Crash, Store!Forget
  <2> QED BY <2>1, <2>2, <2>3, <2>4
<1>3. ASSUME StoreSound PROVE StoreSound'
  <2>1. OneInside'
    BY <1>2, <1>3 DEF StoreSound, OneInside
  <2>2. AllReady'
    BY <1>2, <1>3 DEF StoreSound, AllReady, Ready
  <2>3. AllAgree'
    BY <1>2, <1>3, AgreeBy DEF StoreSound
  <2> QED BY <1>2, <1>3, <2>1, <2>2, <2>3 DEF StoreSound
<1> QED BY <1>1, <1>2, <1>3 DEF StoreInv

\* The directory of the package at hand changes: the process that changes it is inside.
LEMMA DirectoryKeeps ==
  ASSUME StoreInv, NEW p \in Procs,
         Store!MoveIntoPlace(p) \/ Store!WriteReceipt(p) \/ Store!RemoveAll(p)
  PROVE  StoreInv'
<1>1. StoreTypes /\ StoreTypes'
  BY WorksTypes DEF StoreWorks, StoreInv
<1>2. /\ UNCHANGED <<installed, active, damaged, overlap, op, target, snap>>
      /\ at[p] \in {"checked", "moved"} /\ at'[p] \in {"moved", "index"}
      /\ \A r \in Procs \ {p} : at'[r] = at[r]
      /\ \A q \in Packages \ {target[p]} : dir'[q] = dir[q]
  BY <1>1 DEF Store!MoveIntoPlace, Store!WriteReceipt, Store!RemoveAll, Store!Goto,
     Store!index, Store!faults, StoreTypes
<1>3. ASSUME StoreSound PROVE StoreSound'
  <2>1. Ready(p)
    BY <1>2, <1>3 DEF StoreSound, AllReady
  <2>2. Ready(p)'
    <3>1. CASE Store!MoveIntoPlace(p)
      BY <1>1, <1>2, <2>1, <3>1 DEF Ready, Store!MoveIntoPlace, Store!Goto, StoreTypes
    <3>2. CASE Store!WriteReceipt(p)
      BY <1>1, <1>2, <2>1, <3>2 DEF Ready, Store!WriteReceipt, Store!Goto, StoreTypes
    <3>3. CASE Store!RemoveAll(p)
      BY <1>1, <1>2, <2>1, <3>3 DEF Ready, Store!RemoveAll, Store!Goto, StoreTypes
    <3> QED BY <3>1, <3>2, <3>3
  <2>3. AllAgree'
    <3>1. Changes(p, target[p])'
      BY <1>2, <2>1 DEF Changes, Ready, Store!MoveIntoPlace, Store!WriteReceipt,
         Store!RemoveAll
    <3>2. ASSUME NEW q \in Packages \ damaged, q # target[p]
          PROVE  Agree(q)' \/ \E r \in Procs : Changes(r, q)'
      <4>1. CASE Agree(q)
        BY <1>2, <3>2, <4>1 DEF Agree
      <4>2. ASSUME NEW r \in Procs, Changes(r, q) PROVE Changes(r, q)'
        BY <1>2, <3>2, <4>2 DEF Changes
      <4> QED BY <1>3, <3>2, <4>1, <4>2 DEF StoreSound, AllAgree
    <3> QED BY <1>2, <3>1, <3>2 DEF AllAgree
  <2> QED BY <1>1, <1>2, <1>3, <2>2, <2>3, SoundBy DEF StoreSound, StoreInside
<1> QED BY <1>1, <1>2, <1>3 DEF StoreInv

\* The index that is written is the one that is there, with one package changed.
LEMMA WriteIndexKeeps ==
  ASSUME StoreInv, NEW p \in Procs, Store!WriteIndex(p)
  PROVE  StoreInv'
<1>1. StoreTypes /\ StoreTypes'
  BY WorksTypes DEF StoreWorks, StoreInv
<1>2. /\ UNCHANGED <<dir, damaged, overlap, op, target, snap>>
      /\ at[p] = "index" /\ at'[p] = "unlock" /\ \A r \in Procs \ {p} : at'[r] = at[r]
      /\ installed' = Store!Updated(p).installed /\ active' = Store!Updated(p).active
  BY <1>1 DEF Store!WriteIndex, Store!Goto, Store!faults, StoreTypes
<1>3. ASSUME StoreSound PROVE StoreSound'
  <2>1. Ready(p) /\ op[p] \in {"install", "activate", "deactivate", "remove"}
    BY <1>1, <1>2, <1>3 DEF StoreSound, AllReady, StoreTypes
  <2>2. /\ op[p] = "install" =>
             installed' = installed \cup {target[p]} /\ active' = active
        /\ op[p] = "activate" =>
             installed' = installed /\ active' = active \cup Deps[target[p]] \cup {target[p]}
        /\ op[p] = "deactivate" => installed' = installed /\ active' = active \ {target[p]}
        /\ op[p] = "remove" => installed' = installed \ {target[p]} /\ active' = active
    BY <1>2, <2>1 DEF Store!Updated, Ready
  <2>3. active' \subseteq installed'
    BY <1>3, <2>1, <2>2 DEF StoreSound, Ready
  <2>4. AllAgree'
    <3>1. \A r \in Procs, q \in Packages : Changes(r, q) => r = p
      BY <1>2, <1>3 DEF StoreSound, OneInside, Changes, StoreInside
    <3>2. CASE op[p] \in {"activate", "deactivate"}
      <4>1. \A r \in Procs, q \in Packages : ~Changes(r, q)
        BY <3>1, <3>2 DEF Changes
      <4> QED BY <1>2, <1>3, <2>1, <2>2, <3>2, <4>1 DEF StoreSound, AllAgree, Agree
    <3>3. CASE op[p] \in {"install", "remove"}
      <4>1. \A q \in Packages \ damaged : q # target[p] => Agree(q)'
        BY <1>2, <1>3, <2>2, <3>1, <3>3 DEF StoreSound, AllAgree, Agree, Changes
      <4>2. Agree(target[p])'
        BY <1>1, <1>2, <2>1, <2>2, <3>3 DEF Agree, Ready, StoreTypes
      <4> QED BY <1>2, <4>1, <4>2 DEF AllAgree
    <3> QED BY <2>1, <3>2, <3>3
  <2> QED BY <1>1, <1>2, <1>3, <2>3, <2>4, SoundBy DEF StoreInside
<1> QED BY <1>1, <1>2, <1>3 DEF StoreInv

LEMMA LockAgesKeeps == ASSUME StoreInv, Store!LockAges PROVE StoreInv'
BY DEF Store!LockAges, Store!index, Store!faults, StoreInv, StoreTypes, StoreSound, OneInside,
   AllReady, Ready, AllAgree, Agree, Changes

LEMMA StoreCounts == ASSUME NEW S PROVE Store!Cardinality(S) = Cardinality(S)
BY DEF Store!Cardinality, Cardinality

LEMMA StoreImplies == ASSUME StoreInv PROVE Store!StoreConsistent
<1> SUFFICES ASSUME StoreSound PROVE Store!StoreConsistent
  BY DEF StoreInv, Store!StoreConsistent
<1>1. \A q \in Packages \ damaged :
        Store!Working(q) \/ (q \in installed <=> dir[q] = "whole")
  BY DEF StoreSound, AllAgree, Agree, Changes, Store!Working, Store!Inside
<1>2. Store!Cardinality(Store!Inside) <= 1
  <2>1. \A p, r \in Store!Inside : p = r
    BY DEF StoreSound, OneInside, Store!Inside, StoreInside
  <2>2. CASE Store!Inside = {}
    BY <2>2, FS_EmptySet, StoreCounts
  <2>3. CASE Store!Inside # {}
    <3>1. PICK p : Store!Inside = {p}
      BY <2>1, <2>3
    <3>2. Store!Cardinality({p}) = 1
      BY FS_Singleton, StoreCounts
    <3> QED BY <3>1, <3>2
  <2> QED BY <2>2, <2>3
<1> QED BY <1>1, <1>2 DEF StoreSound, Store!StoreConsistent

\* Every step of the package store keeps the invariant.
LEMMA StoreStep ==
  ASSUME StoreInv, Store!Next \/ UNCHANGED storeVars PROVE StoreInv'
<1>1. ASSUME UNCHANGED storeVars PROVE StoreInv'
  BY <1>1 DEF storeVars, StoreInv, StoreTypes, StoreSound, OneInside, AllReady, Ready,
     AllAgree, Agree, Changes
<1>2. ASSUME Store!Next PROVE StoreInv'
  <2>1. ASSUME NEW p \in Procs, StoreOutside(p) \/ StoreEnters(p) \/ StoreWorks(p)
        PROVE  StoreInv'
    BY <1>2, <2>1, OutsideKeeps, EntersKeeps, ReadIndexKeeps, LeavesKeeps, DirectoryKeeps,
       WriteIndexKeeps DEF StoreWorks
  <2>2. \/ \E p \in Procs : StoreOutside(p) \/ StoreEnters(p) \/ StoreWorks(p)
        \/ Store!LockAges
    BY <1>2 DEF Store!Next, StoreOutside, StoreEnters, StoreWorks
  <2> QED BY <1>2, <2>1, <2>2, LockAgesKeeps
<1> QED BY <1>1, <1>2

HIDE StoreAssumption

-----------------------------------------------------------------------------
(* SessionLog implements SessionTree: ids grow along the file, an entry      *)
(* hangs from an older one, and an acknowledged one stands on a line with    *)
(* its newline, which no later write touches.                                *)

EntryKinds == {"message", "compaction"}
LogLines ==
  [kind : EntryKinds \cup {"header", "garbage"}, id : Nat, up : Nat, kept : Nat, nl : BOOLEAN]

\* The entries of a file and their links, as the tree has them.
LinksIn(ls) == {<<ls[i].id, ls[i].up>> : i \in Log!Entries(ls)}
IdsIn(ls) == {ls[i].id : i \in Log!Entries(ls)}

\* A file of which n entries were drawn.
FileSound(ls, n) ==
  /\ ls \in Seq(LogLines)
  /\ \A i \in 1..Len(ls) : ls[i].kind = "header" => i = 1
  /\ \A i \in 1..Len(ls) : ls[i].kind \in EntryKinds => ls[i].id \in 1..n /\ ls[i].up < ls[i].id
  /\ \A i, j \in 1..Len(ls) :
       i < j /\ ls[i].kind \in EntryKinds /\ ls[j].kind \in EntryKinds => ls[i].id < ls[j].id

LEMMA EntriesAre ==
  ASSUME NEW ls \in Seq(LogLines)
  PROVE  Log!Entries(ls) = {i \in 1..Len(ls) : Log!HasHeader(ls) /\ ls[i].kind \in EntryKinds}
<1>1. DOMAIN ls = 1..Len(ls) /\ \A i \in 1..Len(ls) : ls[i] \in LogLines
  OBVIOUS
<1>2. \A i \in 1..Len(ls) :
        ls[i].kind \in EntryKinds <=> ls[i].kind # "garbage" /\ ls[i].kind # "header"
  BY <1>1 DEF LogLines, EntryKinds
<1>3. Log!Decoded(ls) = {i \in 1..Len(ls) : ls[i].kind # "garbage"}
  BY <1>1 DEF Log!Decoded
<1> QED BY <1>2, <1>3 DEF Log!Entries

\* The header stands on the first line that decodes.
LEMMA HeaderIs ==
  ASSUME NEW ls \in Seq(LogLines)
  PROVE  Log!HasHeader(ls) <=>
           \E h \in 1..Len(ls) : /\ ls[h].kind = "header"
                                 /\ \A i \in 1..Len(ls) : ls[i].kind # "garbage" => h <= i
<1>1. Log!Decoded(ls) = {i \in 1..Len(ls) : ls[i].kind # "garbage"}
  BY DEF Log!Decoded
<1> QED BY <1>1 DEF Log!HasHeader

\* A line behind a whole file: one more entry, if it is one and there is a header.
LEMMA AppendLine ==
  ASSUME NEW ls \in Seq(LogLines), NEW x \in LogLines, x.kind # "header"
  PROVE  LET m == Append(ls, x)
         IN /\ m \in Seq(LogLines) /\ Log!HasHeader(m) = Log!HasHeader(ls)
            /\ Log!Entries(m) = IF Log!HasHeader(ls) /\ x.kind \in EntryKinds
                                THEN Log!Entries(ls) \cup {Len(ls) + 1} ELSE Log!Entries(ls)
<1> DEFINE m == Append(ls, x) n == Len(ls)
<1>1. /\ m \in Seq(LogLines) /\ n \in Nat /\ Len(m) = n + 1 /\ m[n + 1] = x
      /\ \A i \in 1..n : m[i] = ls[i]
  OBVIOUS
<1> HIDE DEF m
<1>2. ASSUME Log!HasHeader(ls) PROVE Log!HasHeader(m)
  <2>1. PICK h \in 1..n : /\ ls[h].kind = "header"
                          /\ \A i \in 1..n : ls[i].kind # "garbage" => h <= i
    BY <1>2, HeaderIs
  <2>2. \A i \in 1..(n + 1) : m[i].kind # "garbage" => h <= i
    <3>1. ASSUME NEW i \in 1..(n + 1), m[i].kind # "garbage" PROVE h <= i
      <4>1. CASE i = n + 1
        BY <1>1, <4>1
      <4>2. CASE i # n + 1
        <5>1. i \in 1..n
          BY <1>1, <4>2
        <5> QED BY <1>1, <2>1, <3>1, <5>1
      <4> QED BY <4>1, <4>2
    <3> QED BY <3>1
  <2> QED BY <1>1, <2>1, <2>2, HeaderIs
<1>3. ASSUME Log!HasHeader(m) PROVE Log!HasHeader(ls)
  <2>1. PICK h \in 1..(n + 1) : /\ m[h].kind = "header"
                                /\ \A i \in 1..(n + 1) : m[i].kind # "garbage" => h <= i
    BY <1>1, <1>3, HeaderIs
  <2>2. h \in 1..n
    BY <1>1, <2>1
  <2>3. \A i \in 1..n : ls[i].kind # "garbage" => h <= i
    BY <1>1, <2>1
  <2> QED BY <1>1, <2>1, <2>2, <2>3, HeaderIs
<1>4. Log!HasHeader(m) = Log!HasHeader(ls)
  <2>1. Log!HasHeader(m) \in BOOLEAN /\ Log!HasHeader(ls) \in BOOLEAN
    BY DEF Log!HasHeader
  <2> QED BY <1>2, <1>3, <2>1
<1>5. \A i : i \in 1..(n + 1) <=> i \in 1..n \/ i = n + 1
  BY <1>1
<1>6. Log!Entries(m) = IF Log!HasHeader(ls) /\ x.kind \in EntryKinds
                       THEN Log!Entries(ls) \cup {n + 1} ELSE Log!Entries(ls)
  <2>1. Log!Entries(m) = {i \in 1..(n + 1) : Log!HasHeader(ls) /\ m[i].kind \in EntryKinds}
    BY <1>1, <1>4, EntriesAre
  <2>2. Log!Entries(ls) = {i \in 1..n : Log!HasHeader(ls) /\ ls[i].kind \in EntryKinds}
    BY EntriesAre
  <2> QED BY <1>1, <1>5, <2>1, <2>2
<1> QED BY <1>1, <1>4, <1>6 DEF m

\* What lies on a line and what it says stays; only the last line may go.
LEMMA EntryIn ==
  ASSUME NEW ls \in Seq(LogLines), NEW i \in Log!Entries(ls)
  PROVE  i \in 1..Len(ls) /\ ls[i] \in LogLines /\ ls[i].kind \in EntryKinds
BY EntriesAre

LEMMA LinksAppend ==
  ASSUME NEW ls \in Seq(LogLines), NEW x \in LogLines, x.kind # "header"
  PROVE  LET m == Append(ls, x)
         IN /\ LinksIn(m) = IF Log!HasHeader(ls) /\ x.kind \in EntryKinds
                            THEN LinksIn(ls) \cup {<<x.id, x.up>>} ELSE LinksIn(ls)
            /\ IdsIn(m) = IF Log!HasHeader(ls) /\ x.kind \in EntryKinds
                          THEN IdsIn(ls) \cup {x.id} ELSE IdsIn(ls)
<1> DEFINE m == Append(ls, x) n == Len(ls)
<1>1. /\ n \in Nat /\ m[n + 1] = x /\ \A i \in 1..n : m[i] = ls[i]
  OBVIOUS
<1>2. \A i \in Log!Entries(ls) : i \in 1..n
  BY EntryIn
<1>3. \A i \in Log!Entries(ls) : m[i] = ls[i]
  BY <1>1, <1>2
<1>4. Log!Entries(m) = IF Log!HasHeader(ls) /\ x.kind \in EntryKinds
                       THEN Log!Entries(ls) \cup {n + 1} ELSE Log!Entries(ls)
  BY AppendLine
<1> HIDE DEF m, n
<1>5. CASE Log!HasHeader(ls) /\ x.kind \in EntryKinds
  <2>1. Log!Entries(m) = Log!Entries(ls) \cup {n + 1}
    BY <1>4, <1>5
  <2>2. LinksIn(m) = LinksIn(ls) \cup {<<x.id, x.up>>}
    BY <1>1, <1>3, <2>1 DEF LinksIn
  <2>3. IdsIn(m) = IdsIn(ls) \cup {x.id}
    BY <1>1, <1>3, <2>1 DEF IdsIn
  <2> QED BY <1>5, <2>2, <2>3 DEF m
<1>6. CASE ~(Log!HasHeader(ls) /\ x.kind \in EntryKinds)
  <2>1. Log!Entries(m) = Log!Entries(ls)
    BY <1>4, <1>6
  <2>2. LinksIn(m) = LinksIn(ls) /\ IdsIn(m) = IdsIn(ls)
    BY <1>3, <2>1 DEF LinksIn, IdsIn
  <2> QED BY <1>6, <2>2 DEF m
<1> QED BY <1>5, <1>6

LEMMA FrontIs ==
  ASSUME NEW ls \in Seq(LogLines), ls # <<>>
  PROVE  LET n == Len(ls)
         IN /\ n \in Nat \ {0} /\ Log!Front(ls) = SubSeq(ls, 1, n - 1)
            /\ Log!Front(ls) \in Seq(LogLines) /\ Len(Log!Front(ls)) = n - 1
            /\ \A i \in 1..(n - 1) : Log!Front(ls)[i] = ls[i]
<1> DEFINE n == Len(ls)
<1>1. n \in Nat /\ n # 0
  OBVIOUS
<1>2. /\ Log!Front(ls) = SubSeq(ls, 1, n - 1)
      /\ \A k \in 1..n : ls[k] \in LogLines
  BY DEF Log!Front
<1>3. /\ SubSeq(ls, 1, n - 1) \in Seq(LogLines) /\ Len(SubSeq(ls, 1, n - 1)) = n - 1
      /\ \A i \in 1..(n - 1) : SubSeq(ls, 1, n - 1)[i] = ls[i]
  <2>1. 1 \in Int /\ n - 1 \in Int /\ \A i \in 1..(n - 1) : ls[i] \in LogLines
    BY <1>1
  <2>2. /\ SubSeq(ls, 1, n - 1) \in Seq(LogLines)
        /\ Len(SubSeq(ls, 1, n - 1)) = IF 1 <= n - 1 THEN (n - 1) - 1 + 1 ELSE 0
        /\ \A i \in 1..((n - 1) - 1 + 1) : SubSeq(ls, 1, n - 1)[i] = ls[1 + i - 1]
    BY <2>1, SubSeqProperties
  <2>3. (n - 1) - 1 + 1 = n - 1 /\ \A i \in 1..(n - 1) : 1 + i - 1 = i
    BY <1>1
  <2> HIDE DEF n
  <2>4. ~(1 <= n - 1) => n - 1 = 0
    BY <1>1
  <2> QED BY <2>2, <2>3, <2>4
<1> QED BY <1>1, <1>2, <1>3 DEF n

\* A write behind a torn line costs that line, and is lost itself.
LEMMA OverTorn ==
  ASSUME NEW ls \in Seq(LogLines), NEW x \in LogLines, ls # <<>>, x.kind = "garbage"
  PROVE  LET m == Append(Log!Front(ls), x) n == Len(ls)
         IN /\ m \in Seq(LogLines) /\ Len(m) = n /\ m[n] = x /\ n \in Nat \ {0}
            /\ \A i \in 1..(n - 1) : m[i] = ls[i]
            /\ Log!Entries(m) = Log!Entries(ls) \ {n}
<1> DEFINE m == Append(Log!Front(ls), x) n == Len(ls)
<1>1. /\ n \in Nat \ {0} /\ Log!Front(ls) = SubSeq(ls, 1, n - 1)
      /\ Log!Front(ls) \in Seq(LogLines) /\ Len(Log!Front(ls)) = n - 1
      /\ \A i \in 1..(n - 1) : Log!Front(ls)[i] = ls[i]
  BY FrontIs
<1>2. /\ m \in Seq(LogLines) /\ Len(m) = n /\ m[n] = x
      /\ \A i \in 1..(n - 1) : m[i] = ls[i]
  BY <1>1
<1> HIDE DEF m
<1>3. Log!HasHeader(m) => Log!HasHeader(ls)
  <2> SUFFICES ASSUME Log!HasHeader(m) PROVE Log!HasHeader(ls)
    OBVIOUS
  <2>1. PICK h \in 1..n : /\ m[h].kind = "header"
                          /\ \A i \in 1..n : m[i].kind # "garbage" => h <= i
    BY <1>2, HeaderIs
  <2>2. h \in 1..(n - 1)
    BY <1>1, <1>2, <2>1
  <2>3. \A i \in 1..n : ls[i].kind # "garbage" => h <= i
    <3>1. ASSUME NEW i \in 1..n, ls[i].kind # "garbage" PROVE h <= i
      <4>1. CASE i = n
        BY <1>1, <2>2, <4>1
      <4>2. CASE i # n
        <5>1. i \in 1..(n - 1)
          BY <1>1, <4>2
        <5> QED BY <1>2, <2>1, <3>1, <5>1
      <4> QED BY <4>1, <4>2
    <3> QED BY <3>1
  <2>4. ls[h].kind = "header"
    BY <1>2, <2>1, <2>2
  <2> QED BY <2>1, <2>3, <2>4, HeaderIs
<1>4. ASSUME Log!HasHeader(ls), NEW k \in 1..(n - 1), ls[k].kind \in EntryKinds
      PROVE  Log!HasHeader(m)
  <2>1. PICK h \in 1..n : /\ ls[h].kind = "header"
                          /\ \A i \in 1..n : ls[i].kind # "garbage" => h <= i
    BY <1>4, HeaderIs
  <2>2. h \in 1..(n - 1)
    <3>1. k \in 1..n /\ ls[k].kind # "garbage"
      BY <1>1, <1>4 DEF EntryKinds
    <3> QED BY <1>1, <1>4, <2>1, <3>1
  <2>3. \A i \in 1..n : m[i].kind # "garbage" => h <= i
    <3>1. ASSUME NEW i \in 1..n, m[i].kind # "garbage" PROVE h <= i
      <4>1. i # n
        BY <1>2, <3>1
      <4>2. i \in 1..(n - 1)
        BY <1>1, <4>1
      <4> QED BY <1>2, <2>1, <3>1, <4>2
    <3> QED BY <3>1
  <2>4. m[h].kind = "header" /\ h \in 1..Len(m)
    BY <1>2, <2>1, <2>2
  <2> QED BY <1>2, <2>3, <2>4, HeaderIs
<1>5. Log!Entries(m) = {i \in 1..n : Log!HasHeader(m) /\ m[i].kind \in EntryKinds}
  BY <1>2, EntriesAre
<1>6. Log!Entries(ls) = {i \in 1..n : Log!HasHeader(ls) /\ ls[i].kind \in EntryKinds}
  BY EntriesAre
<1>7. \A i : i \in 1..n <=> i \in 1..(n - 1) \/ i = n
  BY <1>1
<1>8. n \notin Log!Entries(m)
  BY <1>2, <1>5 DEF EntryKinds
<1>9. \A i \in 1..(n - 1) : i \in Log!Entries(m) <=> i \in Log!Entries(ls)
  BY <1>2, <1>3, <1>4, <1>5, <1>6, <1>7
<1>10. Log!Entries(m) = Log!Entries(ls) \ {n}
  <2>1. \A i : i \in Log!Entries(m) => i \in 1..n
    BY <1>5
  <2>2. \A i : i \in Log!Entries(ls) => i \in 1..n
    BY <1>6
  <2>3. n \notin 1..(n - 1)
    BY <1>1
  <2> QED BY <1>7, <1>8, <1>9, <2>1, <2>2, <2>3
<1> QED BY <1>1, <1>2, <1>10 DEF m

LEMMA TreeIds == ASSUME NEW ls PROVE Log!Tree!Entries(LinksIn(ls)) = IdsIn(ls)
<1>1. \A i \in Log!Entries(ls) : <<ls[i].id, ls[i].up>>[1] = ls[i].id
  OBVIOUS
<1>2. ASSUME NEW x \in Log!Tree!Entries(LinksIn(ls)) PROVE x \in IdsIn(ls)
  <2>1. PICK link \in LinksIn(ls) : x = link[1]
    BY <1>2 DEF Log!Tree!Entries
  <2>2. PICK i \in Log!Entries(ls) : link = <<ls[i].id, ls[i].up>>
    BY DEF LinksIn
  <2> QED BY <1>1, <2>1, <2>2 DEF IdsIn
<1>3. ASSUME NEW x \in IdsIn(ls) PROVE x \in Log!Tree!Entries(LinksIn(ls))
  <2>1. PICK i \in Log!Entries(ls) : x = ls[i].id
    BY <1>3 DEF IdsIn
  <2>2. <<ls[i].id, ls[i].up>> \in LinksIn(ls)
    BY DEF LinksIn
  <2> QED BY <1>1, <2>1, <2>2 DEF Log!Tree!Entries
<1> QED BY <1>2, <1>3

\* A whole line is kept by whatever is written after it.
KeptIn(ls, m) == \A i \in Log!Entries(ls) : ls[i].nl => i \in Log!Entries(m) /\ m[i] = ls[i]

\* The ids in a stand on whole lines.
StandIn(a, ls) == \A id \in a : \E i \in Log!Entries(ls) : ls[i].id = id /\ ls[i].nl

LEMMA StandKept ==
  ASSUME NEW a, NEW ls, NEW m, StandIn(a, ls), KeptIn(ls, m)
  PROVE  StandIn(a, m) /\ a \subseteq IdsIn(m)
BY DEF StandIn, KeptIn, IdsIn

Grows(ls, m) ==
  \E id, up \in Nat : id \notin IdsIn(ls) /\ LinksIn(m) = LinksIn(ls) \cup {<<id, up>>}

Loses(ls, m) ==
  /\ LinksIn(m) \subseteq LinksIn(ls)
  /\ \A link \in LinksIn(m) : link[2] \in IdsIn(m) \/ link[2] \notin IdsIn(ls)

\* A step that acknowledges nothing is one of the tree's.
LEMMA UnackedStep ==
  ASSUME Grows(lines, lines') \/ Loses(lines, lines'), acked' = acked, acked \subseteq IdsIn(lines')
  PROVE  Log!Tree!TreeNext
<1>1. Log!Tree!Change(LinksIn(lines), LinksIn(lines'))
  <2>1. CASE Grows(lines, lines')
    <3>1. PICK id, up \in Nat :
            id \notin IdsIn(lines) /\ LinksIn(lines') = LinksIn(lines) \cup {<<id, up>>}
      BY <2>1 DEF Grows
    <3>2. <<id, up>> \notin LinksIn(lines)
      BY <3>1 DEF LinksIn, IdsIn
    <3>3. Log!Tree!Add(LinksIn(lines), LinksIn(lines'))
      BY <3>1, <3>2, TreeIds DEF Log!Tree!Add
    <3> QED BY <3>3 DEF Log!Tree!Change
  <2>2. CASE Loses(lines, lines')
    BY <2>2, TreeIds DEF Loses, Log!Tree!Lose, Log!Tree!Change
  <2> QED BY <2>1, <2>2
<1> QED BY <1>1 DEF Log!Tree!TreeNext, LinksIn

LEMMA SameLinks == ASSUME NEW ls, NEW m, LinksIn(m) = LinksIn(ls) PROVE Loses(ls, m)
<1>1. IdsIn(m) = IdsIn(ls)
  BY TreeIds
<1> QED BY <1>1 DEF Loses

\* One line more: the file stays sound, and nothing in it changes.
LEMMA AppendSound ==
  ASSUME NEW ls, NEW n \in Nat, FileSound(ls, n), NEW x \in LogLines, x.kind # "header",
         x.kind \in EntryKinds => x.id = n + 1 /\ x.up <= n
  PROVE  LET m == Append(ls, x)
         IN FileSound(m, n + 1) /\ KeptIn(ls, m) /\ (Grows(ls, m) \/ Loses(ls, m))
<1> DEFINE m == Append(ls, x) k == Len(ls)
<1>1. ls \in Seq(LogLines)
  BY DEF FileSound
<1>2. /\ m \in Seq(LogLines) /\ k \in Nat /\ Len(m) = k + 1 /\ m[k + 1] = x
      /\ \A i \in 1..k : m[i] = ls[i] /\ ls[i] \in LogLines
  BY <1>1
<1>3. LinksIn(m) = LinksIn(ls) \/ Grows(ls, m)
  <2>1. CASE Log!HasHeader(ls) /\ x.kind \in EntryKinds
    <3>1. x.id \notin IdsIn(ls)
      <4>1. \A i \in Log!Entries(ls) : i \in 1..k /\ ls[i].kind \in EntryKinds
        BY <1>1, EntryIn
      <4>2. \A i \in Log!Entries(ls) : ls[i].id # n + 1
        BY <4>1 DEF FileSound
      <4> QED BY <2>1, <4>2 DEF IdsIn
    <3>2. x.id \in Nat /\ x.up \in Nat
      BY DEF LogLines
    <3>3. LinksIn(m) = LinksIn(ls) \cup {<<x.id, x.up>>}
      BY <1>1, <2>1, LinksAppend
    <3> QED BY <3>1, <3>2, <3>3 DEF Grows
  <2>2. CASE ~(Log!HasHeader(ls) /\ x.kind \in EntryKinds)
    BY <1>1, <2>2, LinksAppend
  <2> QED BY <2>1, <2>2
<1>4. KeptIn(ls, m)
  <2>1. \A i \in Log!Entries(ls) : i \in 1..k
    BY <1>1, EntryIn
  <2>2. \A i \in Log!Entries(ls) : i \in Log!Entries(m)
    BY <1>1, AppendLine
  <2> HIDE DEF m, k
  <2> QED BY <1>2, <2>1, <2>2 DEF KeptIn
<1> HIDE DEF m, k
<1>5. \A i \in 1..(k + 1) : i \in 1..k \/ i = k + 1
  BY <1>2
<1>6. \A i \in 1..Len(m) : m[i].kind = "header" => i = 1
  BY <1>2, <1>5 DEF FileSound, k
<1>7. ASSUME NEW i \in 1..Len(m), m[i].kind \in EntryKinds
      PROVE  m[i].id \in 1..(n + 1) /\ m[i].up < m[i].id
  <2>1. CASE i \in 1..k
    BY <1>2, <1>7, <2>1 DEF FileSound, k
  <2>2. CASE i = k + 1
    <3>1. x.id = n + 1 /\ x.up <= n /\ x.up \in Nat
      BY <1>2, <1>7, <2>2 DEF LogLines
    <3> QED BY <1>2, <2>2, <3>1
  <2> QED BY <1>2, <1>5, <1>7, <2>1, <2>2
<1>8. ASSUME NEW i \in 1..Len(m), NEW j \in 1..Len(m), i < j,
             m[i].kind \in EntryKinds, m[j].kind \in EntryKinds
      PROVE  m[i].id < m[j].id
  <2>1. i \in 1..k
    BY <1>2, <1>8
  <2>2. CASE j \in 1..k
    BY <1>2, <1>8, <2>1, <2>2 DEF FileSound, k
  <2>3. CASE j = k + 1
    <3>1. ls[i].id \in 1..n
      BY <1>2, <1>8, <2>1 DEF FileSound, k
    <3> QED BY <1>2, <1>8, <2>1, <2>3, <3>1
  <2> QED BY <1>2, <1>5, <1>8, <2>2, <2>3
<1>9. FileSound(m, n + 1)
  BY <1>2, <1>6, <1>7, <1>8 DEF FileSound
<1> QED BY <1>3, <1>4, <1>9, SameLinks DEF m

\* The torn line goes: it was the last, so nothing hangs from it, and it was not whole.
LEMMA OverTornSound ==
  ASSUME NEW ls, NEW n \in Nat, FileSound(ls, n), Log!Torn(ls), NEW x \in LogLines,
         x.kind = "garbage"
  PROVE  LET m == Append(Log!Front(ls), x)
         IN FileSound(m, n + 1) /\ KeptIn(ls, m) /\ Loses(ls, m)
<1> DEFINE m == Append(Log!Front(ls), x) k == Len(ls)
<1>1. ls \in Seq(LogLines) /\ ls # <<>>
  BY DEF FileSound, Log!Torn
<1>2. /\ m \in Seq(LogLines) /\ Len(m) = k /\ m[k] = x /\ k \in Nat \ {0}
      /\ \A i \in 1..(k - 1) : m[i] = ls[i]
      /\ Log!Entries(m) = Log!Entries(ls) \ {k}
  BY <1>1, OverTorn
<1>3. ~ls[k].nl
  BY <1>1 DEF Log!Torn, Log!Last
<1> HIDE DEF m
<1>4. \A i \in 1..k : i \in 1..(k - 1) \/ i = k
  BY <1>2
<1>5. \A i \in Log!Entries(m) : i \in Log!Entries(ls) /\ i \in 1..(k - 1) /\ m[i] = ls[i]
  BY <1>1, <1>2, <1>4, EntryIn
<1>6. KeptIn(ls, m)
  <2>1. ASSUME NEW i \in Log!Entries(ls), ls[i].nl
        PROVE  i \in Log!Entries(m) /\ m[i] = ls[i]
    BY <1>2, <1>3, <1>5, <2>1
  <2> QED BY <2>1 DEF KeptIn
<1>7. Loses(ls, m)
  <2>1. LinksIn(m) \subseteq LinksIn(ls)
    BY <1>5 DEF LinksIn
  <2>2. ASSUME NEW i \in Log!Entries(m), m[i].up \in IdsIn(ls) PROVE m[i].up \in IdsIn(m)
    <3>1. PICK j \in Log!Entries(ls) : ls[j].id = m[i].up
      BY <2>2 DEF IdsIn
    <3>2. /\ i \in 1..(k - 1) /\ m[i] = ls[i] /\ i \in 1..k /\ j \in 1..k
          /\ ls[i].kind \in EntryKinds /\ ls[j].kind \in EntryKinds
      BY <1>1, <1>5, EntryIn
    <3>3. ls[i].up < ls[i].id /\ ls[i].id \in Nat /\ ls[i].up \in Nat
      <4>1. ls[i] \in LogLines
        BY <1>1, <3>2
      <4>2. ls[i].up < ls[i].id
        BY <3>2 DEF FileSound
      <4> QED BY <4>1, <4>2 DEF LogLines
    <3>4. j # k
      <4>1. SUFFICES ASSUME j = k PROVE FALSE
        OBVIOUS
      <4>2. i < j
        BY <1>2, <3>2, <4>1
      <4>3. ls[i].id < ls[j].id
        BY <3>2, <4>2 DEF FileSound
      <4> QED BY <3>1, <3>2, <3>3, <4>3
    <3>5. j \in Log!Entries(m)
      BY <1>2, <3>4
    <3>6. m[j].id = m[i].up
      BY <1>5, <3>1, <3>5
    <3> QED BY <3>5, <3>6 DEF IdsIn
  <2> QED BY <2>1, <2>2 DEF Loses, LinksIn
<1>8. \A i \in 1..k : m[i].kind # "garbage" => i \in 1..(k - 1) /\ m[i] = ls[i]
  BY <1>2, <1>4
<1>9. \A i \in 1..k : m[i].kind \in EntryKinds \/ m[i].kind = "header" => m[i].kind # "garbage"
  BY DEF EntryKinds
<1>10. \A i \in 1..k : m[i].kind = "header" => i = 1
  BY <1>8, <1>9 DEF FileSound
<1>11. \A i \in 1..k : m[i].kind \in EntryKinds => m[i].id \in 1..(n + 1) /\ m[i].up < m[i].id
  BY <1>8, <1>9 DEF FileSound
<1>12. \A i, j \in 1..k :
         i < j /\ m[i].kind \in EntryKinds /\ m[j].kind \in EntryKinds => m[i].id < m[j].id
  BY <1>8, <1>9 DEF FileSound
<1>13. FileSound(m, n + 1)
  BY <1>2, <1>10, <1>11, <1>12 DEF FileSound
<1> QED BY <1>6, <1>7, <1>13 DEF m

LEMMA SoundGrows ==
  ASSUME NEW ls, NEW n \in Nat, FileSound(ls, n)
  PROVE  FileSound(ls, n + 1)
BY DEF FileSound

LEMMA KeptAll == ASSUME NEW ls PROVE KeptIn(ls, ls) /\ Loses(ls, ls)
BY SameLinks DEF KeptIn

\* Whatever a write of a new entry leaves in the file.
LEMMA WriteSound ==
  ASSUME NEW ls, NEW n \in Nat, FileSound(ls, n), NEW x \in LogLines, x.kind \in EntryKinds,
         x.id = n + 1, x.up <= n, NEW how \in Log!Wrote
  PROVE  LET m == Log!Write(ls, x, how)
         IN FileSound(m, n + 1) /\ KeptIn(ls, m) /\ (Grows(ls, m) \/ Loses(ls, m))
<1>1. /\ Log!Garbage(TRUE) \in LogLines /\ Log!Garbage(TRUE).kind = "garbage"
      /\ Log!Garbage(FALSE) \in LogLines /\ Log!Garbage(FALSE).kind = "garbage"
  BY DEF Log!Garbage, Log!Line, Log!Root, LogLines
<1>2. "garbage" \notin EntryKinds /\ "header" \notin EntryKinds
  BY DEF EntryKinds
<1>3. CASE how = "none"
  <2>1. Log!Write(ls, x, how) = ls
    BY <1>3 DEF Log!Write
  <2> QED BY <2>1, SoundGrows, KeptAll
<1>4. CASE how # "none" /\ Log!Torn(ls)
  <2> DEFINE g == Log!Garbage(how = "all")
  <2>1. Log!Write(ls, x, how) = Append(Log!Front(ls), g)
    BY <1>4 DEF Log!Write
  <2>2. g \in LogLines /\ g.kind = "garbage"
    BY DEF Log!Garbage, Log!Line, Log!Root, LogLines
  <2> HIDE DEF g
  <2> QED BY <1>4, <2>1, <2>2, OverTornSound
<1>5. CASE how = "part" /\ ~Log!Torn(ls)
  <2>1. Log!Write(ls, x, how) = Append(ls, Log!Garbage(FALSE))
    BY <1>5 DEF Log!Write
  <2> QED BY <1>1, <1>2, <2>1, AppendSound
<1>6. CASE how \in {"whole", "all"} /\ ~Log!Torn(ls)
  <2> DEFINE y == [x EXCEPT !.nl = (how = "all")]
  <2>1. Log!Write(ls, x, how) = Append(ls, y)
    BY <1>6 DEF Log!Write
  <2>2. y \in LogLines /\ y.kind = x.kind /\ y.id = x.id /\ y.up = x.up
    BY DEF LogLines
  <2> HIDE DEF y
  <2> QED BY <1>2, <2>1, <2>2, AppendSound
<1> QED BY <1>3, <1>4, <1>5, <1>6 DEF Log!Wrote

-----------------------------------------------------------------------------
\* Number sets that are not empty have a least member, bounded ones a greatest.
LEMMA NatMin ==
  ASSUME NEW T, T \subseteq Nat, T # {}
  PROVE  \E x \in T : \A y \in T : x <= y
<1> DEFINE R == OpToRel(<, Nat)
<1>1. \E x \in T : \A y \in T : ~ (<<y, x>> \in R)
  <2>1. IsWellFoundedOn(R, Nat)
    BY NatLessThanWellFounded
  <2> HIDE DEF R
  <2> QED BY <2>1, WFMin
<1>2. ASSUME NEW x \in Nat, NEW y \in Nat, y < x PROVE <<y, x>> \in R
  <2>1. <<y, x>> \in Nat \X Nat /\ <<y, x>>[1] < <<y, x>>[2]
    BY <1>2
  <2> QED BY <2>1 DEF OpToRel
<1> HIDE DEF R
<1>3. PICK x \in T : \A y \in T : ~ (<<y, x>> \in R)
  BY <1>1
<1>4. \A y \in T : ~(y < x)
  BY <1>2, <1>3
<1>5. \A y \in T : x <= y
  BY <1>3, <1>4
<1> QED BY <1>3, <1>5

LEMMA MaxIn ==
  ASSUME NEW n \in Nat, NEW T, T \subseteq 1..n, T # {}
  PROVE  Log!Max(T) \in T
<1> DEFINE U == {n - i : i \in T}
<1>1. U \subseteq Nat /\ U # {}
  <2>1. \A i \in T : n - i \in Nat
    OBVIOUS
  <2> QED BY <2>1
<1>2. PICK x \in U : \A y \in U : x <= y
  BY <1>1, NatMin
<1>3. PICK i \in T : x = n - i
  BY <1>2
<1>4. \A j \in T : n - i <= n - j
  BY <1>2, <1>3
<1>5. \A j \in T : i >= j
  BY <1>4
<1> QED BY <1>3, <1>5 DEF Log!Max

\* A load finds its leaf among the entries.
LEMMA LeafIn ==
  ASSUME NEW ls, NEW n \in Nat, FileSound(ls, n)
  PROVE  Log!Leaf(ls) \in IdsIn(ls) \cup {0} /\ Log!Leaf(ls) \in 0..n
<1>1. ls \in Seq(LogLines) /\ Len(ls) \in Nat
  BY DEF FileSound
<1>2. CASE Log!Entries(ls) = {}
  BY <1>2 DEF Log!Leaf, Log!Root
<1>3. CASE Log!Entries(ls) # {}
  <2> DEFINE k == Log!Max(Log!Entries(ls))
  <2>1. Log!Entries(ls) \subseteq 1..Len(ls)
    BY <1>1, EntryIn
  <2>2. k \in Log!Entries(ls)
    BY <1>1, <1>3, <2>1, MaxIn
  <2>3. Log!Leaf(ls) = ls[k].id
    BY <1>3 DEF Log!Leaf
  <2> HIDE DEF k
  <2>4. k \in 1..Len(ls) /\ ls[k].kind \in EntryKinds
    BY <1>1, <2>2, EntryIn
  <2>5. ls[k].id \in 1..n
    BY <2>4 DEF FileSound
  <2> QED BY <2>2, <2>3, <2>5 DEF IdsIn
<1> QED BY <1>2, <1>3

\* Two files with the same lines, but for their newlines.
SaysSame(ls, m) ==
  /\ Len(m) = Len(ls) /\ Log!Entries(m) = Log!Entries(ls)
  /\ \A i \in 1..Len(ls) : /\ m[i].kind = ls[i].kind /\ m[i].id = ls[i].id
                            /\ m[i].up = ls[i].up /\ m[i].kept = ls[i].kept

\* The newline behind a torn tail changes nothing else.
LEMMA NewlineSound ==
  ASSUME NEW ls, NEW n \in Nat, FileSound(ls, n)
  PROVE  LET m == Log!Newline(ls)
         IN /\ FileSound(m, n) /\ KeptIn(ls, m) /\ Loses(ls, m)
            /\ IdsIn(m) = IdsIn(ls) /\ Log!HasHeader(m) = Log!HasHeader(ls) /\ ~Log!Torn(m)
            /\ SaysSame(ls, m)
<1> DEFINE m == Log!Newline(ls) k == Len(ls)
<1>1. CASE ~Log!Torn(ls)
  <2>1. m = ls
    BY <1>1 DEF Log!Newline
  <2> QED BY <1>1, <2>1, KeptAll DEF SaysSame
<1>2. CASE Log!Torn(ls)
  <2>1. ls \in Seq(LogLines) /\ ls # <<>> /\ ~ls[k].nl
    BY <1>2 DEF FileSound, Log!Torn, Log!Last
  <2> DEFINE x == [ls[k] EXCEPT !.nl = TRUE]
  <2>2. m = Append(Log!Front(ls), x)
    BY <1>2 DEF Log!Newline, Log!Last
  <2>3. k \in Nat \ {0} /\ ls[k] \in LogLines
    BY <2>1
  <2>4. x \in LogLines /\ x.kind = ls[k].kind /\ x.id = ls[k].id /\ x.up = ls[k].up
        /\ x.kept = ls[k].kept /\ x.nl
    BY <2>3 DEF LogLines
  <2> HIDE DEF x
  <2>5. /\ Log!Front(ls) \in Seq(LogLines) /\ Len(Log!Front(ls)) = k - 1
        /\ \A i \in 1..(k - 1) : Log!Front(ls)[i] = ls[i]
    BY <2>1, FrontIs
  <2>6. /\ m \in Seq(LogLines) /\ Len(m) = k /\ m[k] = x
        /\ \A i \in 1..(k - 1) : m[i] = ls[i]
    BY <2>2, <2>3, <2>4, <2>5
  <2>7. \A i \in 1..k : i \in 1..(k - 1) \/ i = k
    BY <2>3
  <2> HIDE DEF m, k
  <2>8. \A i \in 1..k : /\ m[i].kind = ls[i].kind /\ m[i].id = ls[i].id
                         /\ m[i].up = ls[i].up /\ m[i].kept = ls[i].kept
    BY <2>4, <2>6, <2>7
  <2>9. Log!HasHeader(m) = Log!HasHeader(ls)
    <3>1. Log!Decoded(m) = {i \in 1..k : m[i].kind # "garbage"}
      BY <2>6 DEF Log!Decoded
    <3>2. Log!Decoded(ls) = {i \in 1..k : ls[i].kind # "garbage"}
      BY <2>1 DEF Log!Decoded, k
    <3>3. Log!Decoded(m) = Log!Decoded(ls) /\ \A i \in Log!Decoded(ls) : i \in 1..k
      BY <2>8, <3>1, <3>2
    <3> QED BY <2>8, <3>3 DEF Log!HasHeader
  <2>10. Log!Entries(m) = Log!Entries(ls)
    <3>1. Log!Entries(m) = {i \in 1..k : Log!HasHeader(m) /\ m[i].kind \in EntryKinds}
      BY <2>6, EntriesAre
    <3>2. Log!Entries(ls) = {i \in 1..k : Log!HasHeader(ls) /\ ls[i].kind \in EntryKinds}
      BY <2>1, EntriesAre DEF k
    <3> QED BY <2>8, <2>9, <3>1, <3>2
  <2>11. \A i \in Log!Entries(ls) : i \in 1..k
    BY <2>1, EntryIn DEF k
  <2>12. LinksIn(m) = LinksIn(ls) /\ IdsIn(m) = IdsIn(ls)
    BY <2>8, <2>10, <2>11 DEF LinksIn, IdsIn
  <2>13. KeptIn(ls, m)
    <3>1. ASSUME NEW i \in Log!Entries(ls), ls[i].nl PROVE m[i] = ls[i]
      BY <2>1, <2>6, <2>7, <2>11, <3>1 DEF k
    <3> QED BY <2>10, <3>1 DEF KeptIn
  <2>14. FileSound(m, n)
    <3>1. \A i \in 1..k : m[i].kind = "header" => i = 1
      BY <2>8 DEF FileSound, k
    <3>2. \A i \in 1..k : m[i].kind \in EntryKinds => m[i].id \in 1..n /\ m[i].up < m[i].id
      BY <2>8 DEF FileSound, k
    <3>3. \A i, j \in 1..k :
            i < j /\ m[i].kind \in EntryKinds /\ m[j].kind \in EntryKinds => m[i].id < m[j].id
      BY <2>8 DEF FileSound, k
    <3> QED BY <2>6, <3>1, <3>2, <3>3 DEF FileSound
  <2>15. ~Log!Torn(m)
    BY <2>4, <2>6 DEF Log!Torn, Log!Last
  <2>16. SaysSame(ls, m)
    BY <2>6, <2>8, <2>10 DEF SaysSame, k
  <2> QED BY <2>9, <2>12, <2>13, <2>14, <2>15, <2>16, SameLinks DEF m
<1> QED BY <1>1, <1>2

-----------------------------------------------------------------------------
HandleStates == {"none", "new", "header", "open", "unlinked", "loaded"}

\* What a process has of the session, when n entries were drawn: a load remembers a
\* header and a leaf that it saw.
HandleOk(h, n) ==
  /\ h = [st |-> h.st, seen |-> h.seen, leaf |-> h.leaf, branch |-> h.branch]
  /\ h.st \in HandleStates /\ h.seen \in Seq(LogLines) /\ h.leaf \in 0..n
  /\ h.st \in {"new", "header"} => h.leaf = 0
  /\ h.st = "loaded" => Log!HasHeader(h.seen) /\ h.leaf \in IdsIn(h.seen) \cup {0}

LogTypes ==
  /\ there \in BOOLEAN /\ drawn \in 0..MaxLogEntries /\ FileSound(lines, drawn)
  /\ handle = [p \in Procs |-> handle[p]] /\ \A p \in Procs : HandleOk(handle[p], drawn)
  /\ sole \subseteq Procs

\* One process at most is about to write the first entry, and nothing was acknowledged yet.
LogPhases ==
  /\ ~there => lines = <<>> /\ acked = {}
  /\ \A p \in Procs : handle[p].st = "new" => ~there
  /\ \A p \in Procs : handle[p].st \in {"header", "open"} => there
  /\ \A p, q \in Procs :
       handle[p].st \in {"new", "header"} /\ handle[q].st \in {"new", "header"} => p = q
  /\ \A p \in Procs : handle[p].st = "header" => acked = {}

\* A line that is written behind these hangs from a readable entry, or from the root.
Whole(ls, leaf) == Log!HasHeader(ls) /\ ~Log!Torn(ls) /\ leaf \in IdsIn(ls) \cup {0}

\* The process that is alone with the file is the only one that may write, and
\* finds it whole.
SoleOwns ==
  \A p \in sole :
    /\ \A q \in Procs : handle[q].st \in {"new", "header", "open"} => q = p
    /\ handle[p].st \in {"header", "open"} => Whole(lines, handle[p].leaf)

LogInv == LogTypes /\ LogPhases /\ SoleOwns /\ StandIn(acked, lines)

USE LogAssumption

LEMMA LogStep ==
  ASSUME LogInv, LogTypes', LogPhases', SoleOwns', KeptIn(lines, lines'),
         Grows(lines, lines') \/ Loses(lines, lines'), acked' = acked
  PROVE  LogInv' /\ Log!Tree!TreeNext
<1>1. StandIn(acked, lines') /\ acked \subseteq IdsIn(lines')
  BY StandKept DEF LogInv
<1>2. Log!Tree!TreeNext
  BY <1>1, UnackedStep
<1> QED BY <1>1, <1>2 DEF LogInv

LEMMA LogStill ==
  ASSUME LogInv, LogTypes', LogPhases', SoleOwns', lines' = lines, acked' = acked
  PROVE  LogInv' /\ Log!Tree!TreeNext
<1>1. KeptIn(lines, lines') /\ Loses(lines, lines')
  BY KeptAll
<1> QED BY <1>1, LogStep

LEMMA ClosedOk ==
  ASSUME NEW n \in Nat
  PROVE  /\ HandleOk(Log!Closed, n) /\ Log!Closed.st = "none"
         /\ HandleOk([Log!Closed EXCEPT !.st = "new"], n)
         /\ [Log!Closed EXCEPT !.st = "new"].st = "new"
<1>1. <<>> \in Seq(LogLines)
  OBVIOUS
<1> QED BY <1>1 DEF Log!Closed, Log!Root, HandleOk, HandleStates

\* One handle changes.
LEMMA HandlesOk ==
  ASSUME LogTypes, NEW p \in Procs, NEW h, handle' = [handle EXCEPT ![p] = h],
         HandleOk(h, drawn'), drawn' \in 0..MaxLogEntries, drawn <= drawn'
  PROVE  /\ handle' = [q \in Procs |-> handle'[q]]
         /\ \A q \in Procs : HandleOk(handle'[q], drawn')
         /\ handle'[p] = h /\ \A q \in Procs \ {p} : handle'[q] = handle[q]
<1>1. /\ handle'[p] = h /\ handle' = [q \in Procs |-> handle'[q]]
      /\ \A q \in Procs \ {p} : handle'[q] = handle[q]
  BY DEF LogTypes
<1>2. \A q \in Procs \ {p} : HandleOk(handle[q], drawn')
  BY DEF LogTypes, HandleOk
<1> QED BY <1>1, <1>2

\* A session file does not exist yet: nobody has it open.
LEMMA LogCreate ==
  ASSUME LogInv, NEW p \in Procs, Log!Create(p)
  PROVE  LogInv' /\ Log!Tree!TreeNext
<1> DEFINE h == [Log!Closed EXCEPT !.st = "new"]
<1>1. /\ ~there /\ Log!Alive = {} /\ handle' = [handle EXCEPT ![p] = h] /\ sole' = {p}
      /\ UNCHANGED <<there, lines, drawn, acked>>
  BY DEF Log!Create
<1>2. /\ handle' = [q \in Procs |-> handle'[q]]
      /\ \A q \in Procs : HandleOk(handle'[q], drawn')
      /\ handle'[p] = h /\ h.st = "new" /\ \A q \in Procs \ {p} : handle'[q] = handle[q]
  <2>1. drawn \in Nat /\ drawn \in 0..MaxLogEntries /\ drawn <= drawn' /\ drawn' = drawn /\ LogTypes
    BY <1>1 DEF LogInv, LogTypes
  <2>2. HandleOk(h, drawn) /\ h.st = "new"
    BY <2>1, ClosedOk
  <2> HIDE DEF h
  <2> QED BY <1>1, <2>1, <2>2, HandlesOk
<1> HIDE DEF h
<1>3. \A q \in Procs : handle[q].st \notin {"new", "header", "open"}
  BY <1>1 DEF Log!Alive
<1>4. LogTypes'
  BY <1>1, <1>2 DEF LogInv, LogTypes
<1>5. LogPhases'
  BY <1>1, <1>2, <1>3 DEF LogInv, LogPhases
<1>6. SoleOwns'
  BY <1>1, <1>2, <1>3 DEF SoleOwns
<1> QED BY <1>1, <1>4, <1>5, <1>6, LogStill

\* The header alone: no entry yet.
LEMMA HeaderSound ==
  ASSUME NEW n \in Nat, NEW how \in Log!Wrote
  PROVE  LET m == Log!Write(<<>>, Log!Header, how)
         IN FileSound(m, n) /\ KeptIn(<<>>, m) /\ Loses(<<>>, m)
<1> DEFINE m == Log!Write(<<>>, Log!Header, how)
<1>1. /\ Log!Garbage(FALSE) \in LogLines /\ Log!Garbage(FALSE).kind = "garbage"
      /\ Log!Header \in LogLines /\ Log!Header.kind = "header"
  BY DEF Log!Garbage, Log!Header, Log!Line, Log!Root, LogLines
<1>2. ~Log!Torn(<<>>)
  BY DEF Log!Torn
<1>3. PICK x \in LogLines : x.kind \in {"header", "garbage"} /\ m \in {<<>>, <<x>>}
  <2>1. CASE how = "none"
    <3>1. m = <<>>
      BY <2>1 DEF Log!Write
    <3> QED BY <1>1, <3>1
  <2>2. CASE how = "part"
    <3>1. m = <<Log!Garbage(FALSE)>>
      <4>1. m = Append(<<>>, Log!Garbage(FALSE))
        BY <1>2, <2>2 DEF Log!Write
      <4> HIDE DEF m
      <4> QED BY <1>1, <4>1
    <3> QED BY <1>1, <3>1
  <2>3. CASE how \in {"whole", "all"}
    <3> DEFINE x == [Log!Header EXCEPT !.nl = (how = "all")]
    <3>1. m = <<x>>
      BY <1>2, <2>3 DEF Log!Write
    <3>2. x \in LogLines /\ x.kind = "header"
      BY <1>1 DEF LogLines
    <3> HIDE DEF x, m
    <3> QED BY <3>1, <3>2
  <2> QED BY <2>1, <2>2, <2>3 DEF Log!Wrote
<1> HIDE DEF m
<1>4. /\ m \in Seq(LogLines) /\ Len(m) \in Nat
      /\ \A i \in 1..Len(m) : i = 1 /\ m[i].kind \notin EntryKinds
  <2>1. CASE m = <<>>
    BY <2>1
  <2>2. CASE m = <<x>>
    <3>1. m \in Seq(LogLines) /\ Len(m) = 1 /\ m[1] = x
      BY <2>2
    <3> QED BY <1>3, <3>1 DEF EntryKinds
  <2> QED BY <1>3, <2>1, <2>2
<1>5. FileSound(m, n)
  BY <1>4 DEF FileSound
<1>6. Log!Entries(m) = {} /\ Log!Entries(<<>>) = {}
  <2>1. Log!Entries(m) = {}
    BY <1>4, EntriesAre
  <2>2. <<>> \in Seq(LogLines) /\ Len(<<>>) = 0
    OBVIOUS
  <2>3. Log!Entries(<<>>) = {i \in 1..0 : Log!HasHeader(<<>>) /\ <<>>[i].kind \in EntryKinds}
    BY <2>2, EntriesAre
  <2>4. Log!Entries(<<>>) = {}
    BY <2>3
  <2> QED BY <2>1, <2>4
<1>7. KeptIn(<<>>, m) /\ Loses(<<>>, m)
  BY <1>6 DEF KeptIn, Loses, LinksIn, IdsIn
<1> QED BY <1>5, <1>7 DEF m

LEMMA HeaderWhole == Log!HasHeader(<<Log!Header>>) /\ ~Log!Torn(<<Log!Header>>)
<1>1. Log!Header \in LogLines /\ Log!Header.kind = "header" /\ Log!Header.nl
  BY DEF Log!Header, Log!Line, Log!Root, LogLines
<1> DEFINE h == Log!Header
<1> HIDE DEF h
<1>2. <<h>> \in Seq(LogLines) /\ Len(<<h>>) = 1 /\ <<h>>[1] = h
  BY <1>1 DEF h
<1>3. Log!HasHeader(<<h>>)
  <2>1. 1 \in 1..Len(<<h>>) /\ <<h>>[1].kind = "header" /\ \A i \in 1..Len(<<h>>) : 1 <= i
    BY <1>1, <1>2 DEF h
  <2> QED BY <1>2, <2>1, HeaderIs
<1>4. ~Log!Torn(<<h>>)
  BY <1>1, <1>2 DEF Log!Torn, Log!Last, h
<1> QED BY <1>3, <1>4 DEF h

LEMMA HeaderWritten == Log!Write(<<>>, Log!Header, "all") = <<Log!Header>>
<1>1. Log!Write(<<>>, Log!Header, "all") = Append(<<>>, [Log!Header EXCEPT !.nl = ("all" = "all")])
  BY DEF Log!Write, Log!Torn
<1>2. [Log!Header EXCEPT !.nl = ("all" = "all")] = Log!Header
  <2>1. Log!Header.nl = TRUE /\ ("all" = "all") = TRUE
    BY DEF Log!Header, Log!Line
  <2>2. Log!Header \in LogLines
    BY DEF Log!Header, Log!Line, Log!Root, LogLines
  <2> QED BY <2>1, <2>2 DEF LogLines
<1> QED BY <1>1, <1>2

\* The header alone is written by a process that is alone with the file.
LEMMA LogFirstWriteHeader ==
  ASSUME LogInv, NEW p \in Procs, Log!FirstWriteHeader(p)
  PROVE  LogInv' /\ Log!Tree!TreeNext
<1> DEFINE h == [handle[p] EXCEPT !.st = "header"]
<1>1. LogTypes /\ LogPhases /\ SoleOwns /\ HandleOk(handle[p], drawn) /\ drawn \in 0..MaxLogEntries
  BY DEF LogInv, LogTypes
<1>2. CASE /\ there' = TRUE /\ lines' = <<Log!Header>>
           /\ handle' = [handle EXCEPT ![p].st = "header"]
  <2>1. /\ handle[p].st = "new" /\ ~there /\ lines = <<>> /\ acked = {}
        /\ handle' = [handle EXCEPT ![p] = h] /\ UNCHANGED <<drawn, sole, acked>>
    BY <1>1, <1>2 DEF Log!FirstWriteHeader, LogPhases, LogTypes
  <2>2. HandleOk(h, drawn) /\ h.st = "header" /\ h.leaf = 0
    BY <1>1, <2>1 DEF HandleOk, HandleStates
  <2> HIDE DEF h
  <2>3. /\ handle' = [q \in Procs |-> handle'[q]]
        /\ \A q \in Procs : HandleOk(handle'[q], drawn')
        /\ handle'[p] = h /\ \A q \in Procs \ {p} : handle'[q] = handle[q]
    <3>1. drawn' = drawn /\ drawn <= drawn'
      BY <1>1, <2>1
    <3> QED BY <1>1, <2>1, <2>2, <3>1, HandlesOk
  <2>4. FileSound(lines', drawn') /\ KeptIn(lines, lines') /\ Loses(lines, lines')
    <3>1. "all" \in Log!Wrote /\ drawn \in Nat
      BY <1>1 DEF Log!Wrote
    <3> QED BY <1>2, <2>1, <3>1, HeaderWritten, HeaderSound
  <2>5. \A q \in Procs : handle[q].st \in {"new", "header", "open"} => q = p
    BY <1>1, <2>1 DEF LogPhases
  <2>6. LogTypes'
    BY <1>1, <1>2, <2>1, <2>3, <2>4 DEF LogTypes
  <2>7. LogPhases'
    BY <1>1, <1>2, <2>1, <2>2, <2>3, <2>5 DEF LogPhases
  <2>8. Whole(lines', 0)
    BY <1>2, HeaderWhole DEF Whole
  <2>9. SoleOwns'
    BY <1>1, <2>1, <2>2, <2>3, <2>5, <2>8 DEF SoleOwns
  <2> QED BY <2>1, <2>4, <2>6, <2>7, <2>9, LogStep
<1>3. CASE UNCHANGED <<there, lines, handle>>
  <2>1. UNCHANGED <<there, lines, handle, drawn, sole, acked>>
    BY <1>3 DEF Log!FirstWriteHeader
  <2>2. LogTypes' /\ LogPhases' /\ SoleOwns'
    BY <1>1, <2>1 DEF LogTypes, LogPhases, SoleOwns
  <2> QED BY <2>1, <2>2, LogStill
<1> QED BY <1>2, <1>3 DEF Log!FirstWriteHeader

\* Closing a handle, or dying with one that writes nothing.
LEMMA LogGone ==
  ASSUME LogInv, NEW p \in Procs, Log!Gone(p),
         drawn' \in 0..MaxLogEntries, drawn <= drawn', UNCHANGED <<there, lines, acked>>
  PROVE  LogInv' /\ Log!Tree!TreeNext
<1>1. LogTypes /\ LogPhases /\ SoleOwns /\ drawn \in 0..MaxLogEntries /\ drawn' \in Nat
  BY DEF LogInv, LogTypes
<1>2. handle' = [handle EXCEPT ![p] = Log!Closed] /\ sole' = sole \ {p}
  BY DEF Log!Gone
<1>3. /\ handle' = [q \in Procs |-> handle'[q]]
      /\ \A q \in Procs : HandleOk(handle'[q], drawn')
      /\ handle'[p] = Log!Closed /\ \A q \in Procs \ {p} : handle'[q] = handle[q]
  BY <1>1, <1>2, ClosedOk, HandlesOk
<1>4. handle'[p].st = "none"
  BY <1>1, <1>3, ClosedOk
<1>5. FileSound(lines, drawn')
  BY <1>1 DEF LogTypes, FileSound
<1>6. LogTypes'
  BY <1>1, <1>2, <1>3, <1>5 DEF LogTypes
<1>7. LogPhases'
  BY <1>1, <1>3, <1>4 DEF LogPhases
<1>8. SoleOwns'
  BY <1>1, <1>2, <1>3, <1>4 DEF SoleOwns
<1> QED BY <1>6, <1>7, <1>8, LogStill

\* A load remembers what it saw, and writes nothing.
LEMMA LogOpenLoad ==
  ASSUME LogInv, NEW p \in Procs, Log!OpenLoad(p)
  PROVE  LogInv' /\ Log!Tree!TreeNext
<1> DEFINE h == [st |-> "loaded", seen |-> lines, leaf |-> Log!Leaf(lines),
                 branch |-> Log!ActiveBranch(lines)]
<1>1. LogTypes /\ LogPhases /\ SoleOwns /\ drawn \in 0..MaxLogEntries /\ drawn \in Nat
  BY DEF LogInv, LogTypes
<1>2. /\ handle[p].st = "none" /\ Log!HasHeader(lines) /\ handle' = [handle EXCEPT ![p] = h]
      /\ UNCHANGED <<there, lines, drawn, sole, acked>>
  BY DEF Log!OpenLoad, Log!Loads
<1>3. HandleOk(h, drawn) /\ h.st = "loaded"
  <2>1. FileSound(lines, drawn) /\ lines \in Seq(LogLines)
    BY <1>1 DEF LogTypes, FileSound
  <2>2. Log!Leaf(lines) \in IdsIn(lines) \cup {0} /\ Log!Leaf(lines) \in 0..drawn
    BY <1>1, <2>1, LeafIn
  <2> QED BY <1>2, <2>1, <2>2 DEF HandleOk, HandleStates
<1> HIDE DEF h
<1>4. /\ handle' = [q \in Procs |-> handle'[q]]
      /\ \A q \in Procs : HandleOk(handle'[q], drawn')
      /\ handle'[p] = h /\ \A q \in Procs \ {p} : handle'[q] = handle[q]
  <2>1. drawn' = drawn /\ drawn <= drawn'
    BY <1>1, <1>2
  <2> QED BY <1>1, <1>2, <1>3, <2>1, HandlesOk
<1>5. LogTypes'
  BY <1>1, <1>2, <1>4 DEF LogTypes
<1>6. LogPhases'
  BY <1>1, <1>2, <1>3, <1>4 DEF LogPhases
<1>7. SoleOwns'
  BY <1>1, <1>2, <1>3, <1>4 DEF SoleOwns
<1> QED BY <1>2, <1>5, <1>6, <1>7, LogStill

\* An open that fails forgets what it loaded, and leaves the file with its lines: it
\* may have written the newline.
LEMMA LogOpenFails ==
  ASSUME LogInv, NEW p \in Procs, handle[p].st = "loaded",
         handle' = [handle EXCEPT ![p] = Log!Closed], lines' \in {lines, Log!Newline(lines)},
         UNCHANGED <<there, drawn, sole, acked>>
  PROVE  LogInv' /\ Log!Tree!TreeNext
<1>1. /\ LogTypes /\ LogPhases /\ SoleOwns /\ drawn \in 0..MaxLogEntries /\ drawn \in Nat
      /\ FileSound(lines, drawn)
  BY DEF LogInv, LogTypes
<1>2. /\ handle' = [q \in Procs |-> handle'[q]]
      /\ \A q \in Procs : HandleOk(handle'[q], drawn')
      /\ handle'[p] = Log!Closed /\ \A q \in Procs \ {p} : handle'[q] = handle[q]
  <2>1. drawn' = drawn /\ drawn <= drawn'
    BY <1>1
  <2> QED BY <1>1, <2>1, ClosedOk, HandlesOk
<1>3. handle'[p].st = "none"
  BY <1>1, <1>2, ClosedOk
<1>4. /\ FileSound(lines', drawn) /\ KeptIn(lines, lines') /\ Loses(lines, lines')
      /\ IdsIn(lines') = IdsIn(lines) /\ Log!HasHeader(lines') = Log!HasHeader(lines)
      /\ ~Log!Torn(lines) => lines' = lines
  <2>1. CASE lines' = lines
    BY <1>1, <2>1, KeptAll
  <2>2. CASE lines' = Log!Newline(lines)
    <3>1. ~Log!Torn(lines) => lines' = lines
      BY <2>2 DEF Log!Newline
    <3> QED BY <1>1, <2>2, <3>1, NewlineSound
  <2> QED BY <2>1, <2>2
<1>5. LogTypes'
  BY <1>1, <1>2, <1>4 DEF LogTypes
<1>6. LogPhases'
  <2>1. ~there => lines' = <<>>
    BY <1>1, <1>4 DEF LogPhases, Log!Torn
  <2> QED BY <1>1, <1>2, <1>3, <2>1 DEF LogPhases
<1>7. SoleOwns'
  BY <1>1, <1>2, <1>3, <1>4 DEF SoleOwns, Whole
<1> QED BY <1>4, <1>5, <1>6, <1>7, LogStep

\* The session is open: alone, if nobody could write and it is the file that was loaded.
LEMMA LogOpened ==
  ASSUME LogInv, NEW p \in Procs, handle[p].st = "loaded", there,
         handle' = [handle EXCEPT ![p].st = "open", ![p].seen = <<>>],
         lines' = Log!Terminated(p),
         sole' = IF Log!Alive = {} /\ handle[p].seen = lines THEN {p} ELSE {},
         UNCHANGED <<there, drawn, acked>>
  PROVE  LogInv' /\ Log!Tree!TreeNext
<1> DEFINE h == [handle[p] EXCEPT !.st = "open", !.seen = <<>>]
<1>1. /\ LogTypes /\ LogPhases /\ SoleOwns /\ drawn \in 0..MaxLogEntries /\ drawn \in Nat
      /\ FileSound(lines, drawn) /\ HandleOk(handle[p], drawn)
  BY DEF LogInv, LogTypes
<1>2. HandleOk(h, drawn) /\ h.st = "open" /\ h.leaf = handle[p].leaf
  <2>1. <<>> \in Seq(LogLines)
    OBVIOUS
  <2>2. h = [st |-> "open", seen |-> <<>>, leaf |-> handle[p].leaf, branch |-> handle[p].branch]
    <3> DEFINE g == handle[p]
    <3>1. g = [st |-> g.st, seen |-> g.seen, leaf |-> g.leaf, branch |-> g.branch]
      BY <1>1 DEF HandleOk
    <3> HIDE DEF g
    <3>2. [g EXCEPT !.st = "open", !.seen = <<>>] =
            [st |-> "open", seen |-> <<>>, leaf |-> g.leaf, branch |-> g.branch]
      <4> DEFINE m == [g EXCEPT !.st = "open"]
      <4>1. m = [st |-> "open", seen |-> g.seen, leaf |-> g.leaf, branch |-> g.branch]
        BY <3>1
      <4> HIDE DEF m
      <4>2. [m EXCEPT !.seen = <<>>] =
              [st |-> "open", seen |-> <<>>, leaf |-> g.leaf, branch |-> g.branch]
        BY <4>1
      <4> QED BY <4>2 DEF m
    <3> QED BY <3>2 DEF g
  <2>3. handle[p].leaf \in 0..drawn
    BY <1>1 DEF HandleOk
  <2> HIDE DEF h
  <2> QED BY <2>1, <2>2, <2>3 DEF HandleOk, HandleStates
<1>3. handle' = [handle EXCEPT ![p] = h]
  BY <1>1 DEF LogTypes
<1> HIDE DEF h
<1>4. /\ handle' = [q \in Procs |-> handle'[q]]
      /\ \A q \in Procs : HandleOk(handle'[q], drawn')
      /\ handle'[p] = h /\ \A q \in Procs \ {p} : handle'[q] = handle[q]
  <2>1. drawn' \in 0..MaxLogEntries /\ drawn <= drawn' /\ HandleOk(h, drawn') /\ LogTypes
    BY <1>1, <1>2
  <2> QED BY <1>3, <2>1, HandlesOk
<1>5. /\ FileSound(lines', drawn) /\ KeptIn(lines, lines') /\ Loses(lines, lines')
      /\ IdsIn(lines') = IdsIn(lines) /\ Log!HasHeader(lines') = Log!HasHeader(lines)
      /\ handle[p].seen = lines => ~Log!Torn(lines')
  <2>1. CASE Log!Torn(handle[p].seen)
    <3>1. lines' = Log!Newline(lines)
      BY <2>1 DEF Log!Terminated
    <3> QED BY <1>1, <3>1, NewlineSound
  <2>2. CASE ~Log!Torn(handle[p].seen)
    <3>1. lines' = lines
      BY <2>2 DEF Log!Terminated
    <3> QED BY <1>1, <2>2, <3>1, KeptAll
  <2> QED BY <2>1, <2>2
<1>6. LogTypes'
  BY <1>1, <1>4, <1>5 DEF LogTypes
<1>7. LogPhases'
  BY <1>1, <1>2, <1>4 DEF LogPhases
<1>8. SoleOwns'
  <2>1. SUFFICES ASSUME Log!Alive = {}, handle[p].seen = lines, sole' = {p} PROVE SoleOwns'
    BY DEF SoleOwns
  <2>2. \A q \in Procs : handle[q].st \notin {"new", "header", "open"}
    BY <2>1 DEF Log!Alive
  <2>3. Log!HasHeader(lines) /\ handle[p].leaf \in IdsIn(lines) \cup {0}
    BY <1>1, <2>1 DEF HandleOk
  <2>4. Whole(lines', handle[p].leaf)
    BY <1>5, <2>1, <2>3 DEF Whole
  <2> QED BY <1>2, <1>4, <2>1, <2>2, <2>4 DEF SoleOwns
<1> QED BY <1>5, <1>6, <1>7, <1>8, LogStep

\* An append that succeeds: alone with the file, the entry stands there at once, on a
\* whole line under a readable entry, and is acknowledged.
LEMMA LogAppended ==
  ASSUME LogInv, NEW p \in Procs, handle[p].st \in {"header", "open"}, drawn < MaxLogEntries,
         NEW kind \in EntryKinds, NEW kept \in Nat,
         drawn' = drawn + 1, lines' = Log!Write(lines, Log!NewEntry(p, kind, kept), "all"),
         Log!Appended(p, Log!NewEntry(p, kind, kept)), UNCHANGED <<there, sole>>
  PROVE  LogInv' /\ Log!Tree!TreeNext
<1> DEFINE e == Log!NewEntry(p, kind, kept)
           h == [handle[p] EXCEPT !.st = "open", !.leaf = e.id, !.branch = Append(@, e.id)]
<1>1. /\ LogTypes /\ LogPhases /\ SoleOwns /\ drawn \in Nat /\ there
      /\ FileSound(lines, drawn) /\ HandleOk(handle[p], drawn) /\ StandIn(acked, lines)
  BY DEF LogInv, LogTypes, LogPhases
<1>2. /\ e \in LogLines /\ e.kind \in EntryKinds /\ e.kind # "header"
      /\ e.id = drawn + 1 /\ e.up <= drawn /\ e.up = handle[p].leaf /\ e.nl
  <2>1. handle[p].leaf \in 0..drawn
    BY <1>1 DEF HandleOk
  <2>2. e = Log!Line(kind, drawn + 1, handle[p].leaf, kept, TRUE)
    BY DEF Log!NewEntry
  <2>3. e = [kind |-> kind, id |-> drawn + 1, up |-> handle[p].leaf, kept |-> kept, nl |-> TRUE]
    BY <2>2 DEF Log!Line
  <2> HIDE DEF e
  <2> QED BY <1>1, <2>1, <2>3 DEF LogLines, EntryKinds
<1>3. /\ handle' = [handle EXCEPT ![p].st = "open", ![p].leaf = e.id,
                                  ![p].branch = Append(@, e.id)]
      /\ acked' = IF p \in sole THEN acked \cup {e.id} ELSE acked
      /\ lines' = Log!Write(lines, e, "all")
  BY DEF Log!Appended
<1> HIDE DEF e
<1>4. HandleOk(h, drawn') /\ h.st = "open" /\ h.leaf = drawn + 1
  <2>1. h = [st |-> "open", seen |-> handle[p].seen, leaf |-> e.id,
             branch |-> Append(handle[p].branch, e.id)]
    <3> DEFINE g == handle[p] a == e.id b == Append(handle[p].branch, e.id)
    <3>1. g = [st |-> g.st, seen |-> g.seen, leaf |-> g.leaf, branch |-> g.branch]
      BY <1>1 DEF HandleOk
    <3> HIDE DEF g, a, b
    <3>2. [g EXCEPT !.st = "open", !.leaf = a, !.branch = b] =
            [st |-> "open", seen |-> g.seen, leaf |-> a, branch |-> b]
      <4> DEFINE m == [g EXCEPT !.st = "open"]
                 n == [m EXCEPT !.leaf = a]
      <4>1. m = [st |-> "open", seen |-> g.seen, leaf |-> g.leaf, branch |-> g.branch]
        BY <3>1
      <4> HIDE DEF m
      <4>2. n = [st |-> "open", seen |-> g.seen, leaf |-> a, branch |-> g.branch]
        BY <4>1
      <4> HIDE DEF n
      <4>3. [n EXCEPT !.branch = b] =
              [st |-> "open", seen |-> g.seen, leaf |-> a, branch |-> b]
        BY <4>2
      <4> QED BY <4>3 DEF m, n
    <3> QED BY <3>2 DEF g, a, b
  <2>2. handle[p].seen \in Seq(LogLines)
    BY <1>1 DEF HandleOk
  <2>3. e.id \in 0..drawn' /\ e.id = drawn + 1
    BY <1>1, <1>2
  <2> HIDE DEF h
  <2> QED BY <2>1, <2>2, <2>3 DEF HandleOk, HandleStates
<1>5. handle' = [handle EXCEPT ![p] = h]
  BY <1>1, <1>3 DEF LogTypes
<1> HIDE DEF h
<1>6. /\ handle' = [q \in Procs |-> handle'[q]]
      /\ \A q \in Procs : HandleOk(handle'[q], drawn')
      /\ handle'[p] = h /\ \A q \in Procs \ {p} : handle'[q] = handle[q]
  <2>1. drawn' \in 0..MaxLogEntries /\ drawn <= drawn'
    BY <1>1
  <2> QED BY <1>1, <1>4, <1>5, <2>1, HandlesOk
<1>7. /\ FileSound(lines', drawn') /\ KeptIn(lines, lines')
      /\ Grows(lines, lines') \/ Loses(lines, lines')
  <2>1. "all" \in Log!Wrote
    BY DEF Log!Wrote
  <2> QED BY <1>1, <1>2, <1>3, <2>1, WriteSound
<1>8. LogTypes'
  <2>1. drawn' \in 0..MaxLogEntries
    BY <1>1
  <2> QED BY <1>1, <1>6, <1>7, <2>1 DEF LogTypes
<1>9. CASE p \notin sole
  <2>1. acked' = acked
    BY <1>3, <1>9
  <2>2. sole = {}
    BY <1>1, <1>9 DEF SoleOwns
  <2>3. LogPhases'
    BY <1>1, <1>4, <1>6, <2>1 DEF LogPhases
  <2>4. SoleOwns'
    BY <2>2 DEF SoleOwns
  <2> QED BY <1>7, <1>8, <2>1, <2>3, <2>4, LogStep
<1>10. CASE p \in sole
  <2>1. /\ acked' = acked \cup {drawn + 1} /\ Whole(lines, handle[p].leaf)
        /\ \A q \in Procs : handle[q].st \in {"new", "header", "open"} => q = p
    BY <1>1, <1>2, <1>3, <1>10 DEF SoleOwns
  <2>2. lines' = Append(lines, e) /\ lines \in Seq(LogLines)
    <3>1. lines' = Append(lines, [e EXCEPT !.nl = ("all" = "all")])
      BY <1>3, <2>1 DEF Log!Write, Whole
    <3>2. [e EXCEPT !.nl = ("all" = "all")] = e
      BY <1>2 DEF LogLines
    <3> QED BY <1>1, <3>1, <3>2 DEF FileSound
  <2>3. /\ LinksIn(lines') = LinksIn(lines) \cup {<<drawn + 1, handle[p].leaf>>}
        /\ IdsIn(lines') = IdsIn(lines) \cup {drawn + 1}
        /\ Log!Entries(lines') = Log!Entries(lines) \cup {Len(lines) + 1}
        /\ Log!HasHeader(lines')
    <3>1. Log!HasHeader(lines)
      BY <2>1 DEF Whole
    <3>2. Log!Entries(lines') = Log!Entries(lines) \cup {Len(lines) + 1} /\ Log!HasHeader(lines')
      BY <1>2, <2>2, <3>1, AppendLine
    <3>3. /\ LinksIn(lines') = LinksIn(lines) \cup {<<e.id, e.up>>}
          /\ IdsIn(lines') = IdsIn(lines) \cup {e.id}
      BY <1>2, <2>2, <3>1, LinksAppend
    <3> QED BY <1>2, <3>2, <3>3
  <2>4. lines'[Len(lines) + 1] = e /\ ~Log!Torn(lines')
    <3>1. Len(lines') = Len(lines) + 1 /\ lines'[Len(lines) + 1] = e
      BY <1>2, <2>2
    <3> QED BY <1>2, <3>1 DEF Log!Torn, Log!Last
  <2>5. StandIn(acked', lines')
    <3>1. StandIn(acked, lines')
      BY <1>1, <1>7, StandKept
    <3>2. lines'[Len(lines) + 1].id = drawn + 1 /\ lines'[Len(lines) + 1].nl
      BY <1>2, <2>4
    <3> QED BY <2>1, <2>3, <3>1, <3>2 DEF StandIn
  <2>6. Log!Tree!TreeNext
    <3> DEFINE new == <<drawn + 1, handle[p].leaf>>
    <3>1. drawn + 1 \notin IdsIn(lines)
      <4>1. \A i \in Log!Entries(lines) : i \in 1..Len(lines) /\ lines[i].kind \in EntryKinds
        BY <2>2, EntryIn
      <4>2. \A i \in Log!Entries(lines) : lines[i].id \in 1..drawn
        BY <1>1, <4>1 DEF FileSound
      <4>3. \A i \in Log!Entries(lines) : lines[i].id # drawn + 1
        BY <1>1, <4>2
      <4> QED BY <4>3 DEF IdsIn
    <3>2. new \notin LinksIn(lines) /\ new[1] = drawn + 1 /\ new[2] = handle[p].leaf
      BY <3>1 DEF LinksIn, IdsIn
    <3>3. new[2] \in IdsIn(lines) \cup {Log!Tree!Root}
      BY <2>1, <3>2 DEF Whole, Log!Tree!Root
    <3>4. Log!Tree!Add(LinksIn(lines), LinksIn(lines'))
      <4> HIDE DEF new
      <4>1. LinksIn(lines') = LinksIn(lines) \cup {new}
        BY <2>3 DEF new
      <4>2. Log!Tree!Entries(LinksIn(lines)) = IdsIn(lines)
        BY TreeIds
      <4> QED BY <2>1, <3>1, <3>2, <3>3, <4>1, <4>2 DEF Log!Tree!Add
    <3> QED BY <3>4 DEF Log!Tree!TreeNext, Log!Tree!Change, LinksIn
  <2>7. LogPhases'
    BY <1>1, <1>4, <1>6, <2>1 DEF LogPhases
  <2>8. SoleOwns'
    <3>1. Whole(lines', drawn + 1)
      BY <2>3, <2>4 DEF Whole
    <3>2. \A q \in Procs : handle'[q].st \in {"new", "header", "open"} => q = p
      BY <1>6, <2>1
    <3>3. sole = {p}
      BY <1>1, <1>10, <1>6, <2>1 DEF SoleOwns
    <3> QED BY <1>4, <1>6, <3>1, <3>2, <3>3 DEF SoleOwns
  <2> QED BY <1>8, <2>5, <2>6, <2>7, <2>8 DEF LogInv
<1> QED BY <1>9, <1>10

\* Whatever else a write of an entry leaves: it is not acknowledged, and either nobody
\* is alone with the file any more or the process that was has gone.
LEMMA LogWritten ==
  ASSUME LogInv, NEW p \in Procs, handle[p].st \in {"header", "open"}, drawn < MaxLogEntries,
         NEW kind \in EntryKinds, NEW kept \in Nat, NEW how \in Log!Wrote,
         drawn' = drawn + 1, lines' = Log!Write(lines, Log!NewEntry(p, kind, kept), how),
         \/ handle' = handle /\ sole' = {} /\ handle[p].st = "open"
         \/ handle' = [handle EXCEPT ![p] = Log!Closed] /\ sole' = sole \ {p},
         UNCHANGED <<there, acked>>
  PROVE  LogInv' /\ Log!Tree!TreeNext
<1> DEFINE e == Log!NewEntry(p, kind, kept)
<1>1. /\ LogTypes /\ LogPhases /\ SoleOwns /\ drawn \in Nat /\ there
      /\ FileSound(lines, drawn) /\ HandleOk(handle[p], drawn)
  BY DEF LogInv, LogTypes, LogPhases
<1>2. /\ e \in LogLines /\ e.kind \in EntryKinds /\ e.id = drawn + 1 /\ e.up <= drawn
  <2>1. handle[p].leaf \in 0..drawn
    BY <1>1 DEF HandleOk
  <2>2. e = [kind |-> kind, id |-> drawn + 1, up |-> handle[p].leaf, kept |-> kept, nl |-> TRUE]
    BY DEF Log!NewEntry, Log!Line
  <2> HIDE DEF e
  <2> QED BY <1>1, <2>1, <2>2 DEF LogLines, EntryKinds
<1>3. lines' = Log!Write(lines, e, how)
  OBVIOUS
<1> HIDE DEF e
<1>4. /\ FileSound(lines', drawn') /\ KeptIn(lines, lines')
      /\ Grows(lines, lines') \/ Loses(lines, lines')
  BY <1>1, <1>2, <1>3, WriteSound
<1>5. drawn' \in 0..MaxLogEntries /\ drawn <= drawn'
  BY <1>1
<1>6. sole' = {} \/ sole \ {p} = {}
  BY <1>1 DEF SoleOwns
<1>7. /\ handle' = [q \in Procs |-> handle'[q]]
      /\ \A q \in Procs : HandleOk(handle'[q], drawn')
      /\ \A q \in Procs : handle'[q] = handle[q] \/ handle'[q].st = "none"
  <2>1. CASE handle' = handle
    <3>1. \A q \in Procs : HandleOk(handle[q], drawn')
      BY <1>1, <1>5 DEF LogTypes, HandleOk
    <3> QED BY <1>1, <2>1, <3>1 DEF LogTypes
  <2>2. CASE handle' = [handle EXCEPT ![p] = Log!Closed]
    <3>1. HandleOk(Log!Closed, drawn') /\ Log!Closed.st = "none"
      BY <1>5, ClosedOk
    <3> QED BY <1>1, <1>5, <2>2, <3>1, HandlesOk
  <2> QED BY <2>1, <2>2
<1>8. LogTypes'
  BY <1>1, <1>4, <1>5, <1>7 DEF LogTypes
<1>9. LogPhases'
  BY <1>1, <1>7 DEF LogPhases
<1>10. SoleOwns'
  BY <1>6 DEF SoleOwns
<1> QED BY <1>4, <1>8, <1>9, <1>10, LogStep

\* The clean-up behind a failed first write: nothing was acknowledged in that file.
LEMMA LogRemoved ==
  ASSUME LogInv, NEW p \in Procs, handle[p].st = "header", drawn < MaxLogEntries,
         drawn' = drawn + 1, there' = FALSE, lines' = <<>>,
         handle' = [q \in Procs |->
           CASE q = p -> [handle[p] EXCEPT !.st = "new"]
             [] handle[q].st = "open" -> [handle[q] EXCEPT !.st = "unlinked"]
             [] OTHER -> handle[q]],
         UNCHANGED <<sole, acked>>
  PROVE  LogInv' /\ Log!Tree!TreeNext
<1>1. /\ LogTypes /\ LogPhases /\ SoleOwns /\ drawn \in Nat /\ acked = {}
      /\ \A q \in Procs : HandleOk(handle[q], drawn)
      /\ drawn' \in 0..MaxLogEntries /\ drawn <= drawn'
  BY DEF LogInv, LogTypes, LogPhases
<1>2. /\ <<>> \in Seq(LogLines) /\ Len(<<>>) = 0
  OBVIOUS
<1>3. FileSound(<<>>, drawn')
  BY <1>2 DEF FileSound
<1>4. Log!Entries(<<>>) = {}
  <2>1. Log!Entries(<<>>) = {i \in 1..0 : Log!HasHeader(<<>>) /\ <<>>[i].kind \in EntryKinds}
    BY <1>2, EntriesAre
  <2> QED BY <2>1
<1>5. Loses(lines, lines')
  BY <1>4 DEF Loses, LinksIn, IdsIn
<1>6. /\ handle' = [q \in Procs |-> handle'[q]]
      /\ handle'[p] = [handle[p] EXCEPT !.st = "new"]
      /\ \A q \in Procs : q # p /\ handle[q].st = "open" =>
           handle'[q] = [handle[q] EXCEPT !.st = "unlinked"]
      /\ \A q \in Procs : q # p /\ handle[q].st # "open" => handle'[q] = handle[q]
  OBVIOUS
<1>7. \A q \in Procs :
        \/ q = p /\ handle'[q].st = "new" /\ HandleOk(handle'[q], drawn')
        \/ q # p /\ handle'[q].st = "unlinked" /\ HandleOk(handle'[q], drawn')
        \/ q # p /\ handle'[q] = handle[q] /\ handle[q].st # "open" /\ HandleOk(handle[q], drawn')
  <2> SUFFICES ASSUME NEW q \in Procs
      PROVE  \/ q = p /\ handle'[q].st = "new" /\ HandleOk(handle'[q], drawn')
             \/ q # p /\ handle'[q].st = "unlinked" /\ HandleOk(handle'[q], drawn')
             \/ /\ q # p /\ handle'[q] = handle[q] /\ handle[q].st # "open"
                /\ HandleOk(handle[q], drawn')
    OBVIOUS
  <2>1. HandleOk(handle[q], drawn')
    BY <1>1 DEF HandleOk
  <2>2. CASE q = p
    <3>1. handle'[q] = [handle[q] EXCEPT !.st = "new"] /\ handle[q].st = "header"
      BY <1>6, <2>2
    <3>2. HandleOk(handle'[q], drawn') /\ handle'[q].st = "new"
      BY <2>1, <3>1 DEF HandleOk, HandleStates
    <3> QED BY <2>2, <3>2
  <2>3. CASE q # p /\ handle[q].st = "open"
    <3>1. handle'[q] = [handle[q] EXCEPT !.st = "unlinked"]
      BY <1>6, <2>3
    <3>2. HandleOk(handle'[q], drawn') /\ handle'[q].st = "unlinked"
      BY <2>1, <2>3, <3>1 DEF HandleOk, HandleStates
    <3> QED BY <2>3, <3>2
  <2>4. CASE q # p /\ handle[q].st # "open"
    BY <1>6, <2>1, <2>4
  <2> QED BY <2>2, <2>3, <2>4
<1>8. \A q \in Procs : q # p => handle[q].st \notin {"new", "header"}
  BY <1>1 DEF LogPhases
<1>9. LogTypes'
  BY <1>1, <1>3, <1>6, <1>7 DEF LogTypes
<1>10. LogPhases'
  <2>1. \A q \in Procs : q # p => handle'[q].st \notin {"new", "header", "open"}
    BY <1>7, <1>8
  <2>2. handle'[p].st = "new"
    BY <1>7
  <2> QED BY <1>1, <2>1, <2>2 DEF LogPhases
<1>11. SoleOwns'
  <2>1. \A q \in Procs : handle'[q].st \in {"new", "header", "open"} => q = p
    BY <1>7, <1>8
  <2>2. handle'[p].st = "new"
    BY <1>7
  <2>3. \A q \in sole : q = p
    BY <1>1 DEF SoleOwns
  <2> QED BY <2>1, <2>2, <2>3 DEF SoleOwns
<1>12. Log!Tree!TreeNext
  BY <1>1, <1>5, UnackedStep
<1>13. StandIn(acked', lines')
  BY <1>1 DEF StandIn
<1> QED BY <1>9, <1>10, <1>11, <1>12, <1>13 DEF LogInv

\* A crash in the middle of the header.
LEMMA LogHeaderCrash ==
  ASSUME LogInv, NEW p \in Procs, handle[p].st = "new", NEW how \in Log!Wrote, Log!Gone(p),
         drawn' \in 0..MaxLogEntries, drawn <= drawn', there' = TRUE,
         lines' = Log!Write(<<>>, Log!Header, how), UNCHANGED acked
  PROVE  LogInv' /\ Log!Tree!TreeNext
<1>1. /\ LogTypes /\ LogPhases /\ SoleOwns /\ drawn \in 0..MaxLogEntries /\ drawn' \in Nat
      /\ ~there /\ lines = <<>> /\ acked = {}
  BY DEF LogInv, LogTypes, LogPhases
<1>2. handle' = [handle EXCEPT ![p] = Log!Closed] /\ sole' = sole \ {p}
  BY DEF Log!Gone
<1>3. /\ handle' = [q \in Procs |-> handle'[q]]
      /\ \A q \in Procs : HandleOk(handle'[q], drawn')
      /\ handle'[p] = Log!Closed /\ \A q \in Procs \ {p} : handle'[q] = handle[q]
  BY <1>1, <1>2, ClosedOk, HandlesOk
<1>4. handle'[p].st = "none"
  BY <1>1, <1>3, ClosedOk
<1>5. FileSound(lines', drawn') /\ KeptIn(lines, lines') /\ Loses(lines, lines')
  BY <1>1, HeaderSound
<1>6. LogTypes'
  BY <1>1, <1>2, <1>3, <1>5 DEF LogTypes
<1>7. \A q \in Procs : q # p => handle[q].st \notin {"new", "header", "open"}
  BY <1>1 DEF LogPhases
<1>8. LogPhases'
  BY <1>1, <1>3, <1>4, <1>7 DEF LogPhases
<1>9. SoleOwns'
  BY <1>1, <1>2, <1>3, <1>4, <1>7 DEF SoleOwns
<1> QED BY <1>1, <1>5, <1>6, <1>8, <1>9, LogStep

\* A crash draws an entry, if there is one left to draw.
LEMMA NextDrawn ==
  ASSUME drawn \in 0..MaxLogEntries
  PROVE  LET n == Log!Min({drawn + 1, MaxLogEntries})
         IN /\ drawn < MaxLogEntries => n = drawn + 1
            /\ drawn = MaxLogEntries => n = drawn
<1>1. CASE drawn < MaxLogEntries
  <2>1. \A x \in {drawn + 1, MaxLogEntries} :
          (\A y \in {drawn + 1, MaxLogEntries} : x <= y) <=> x = drawn + 1
    BY <1>1
  <2> QED BY <1>1, <2>1 DEF Log!Min
<1>2. CASE drawn = MaxLogEntries
  <2>1. \A x \in {drawn + 1, MaxLogEntries} :
          (\A y \in {drawn + 1, MaxLogEntries} : x <= y) <=> x = MaxLogEntries
    BY <1>2
  <2> QED BY <1>2, <2>1 DEF Log!Min
<1> QED BY <1>1, <1>2

\* A crash costs the process, and one write it may have been in.
LEMMA LogCrash ==
  ASSUME LogInv, NEW p \in Procs, Log!Crash(p)
  PROVE  LogInv' /\ Log!Tree!TreeNext
<1>1. /\ LogTypes /\ LogPhases /\ drawn \in 0..MaxLogEntries /\ drawn \in Nat
      /\ Log!Gone(p) /\ UNCHANGED acked /\ drawn' = Log!Min({drawn + 1, MaxLogEntries})
  BY DEF LogInv, LogTypes, Log!Crash
<1>2. /\ drawn < MaxLogEntries => drawn' = drawn + 1
      /\ drawn = MaxLogEntries => drawn' = drawn
  BY <1>1, NextDrawn
<1>3. drawn' \in 0..MaxLogEntries /\ drawn <= drawn'
  BY <1>1, <1>2
<1>4. CASE handle[p].st = "new" /\ ~there
  <2>1. PICK how \in Log!Wrote : there' = TRUE /\ lines' = Log!Write(<<>>, Log!Header, how)
    BY <1>4 DEF Log!Crash
  <2> QED BY <1>1, <1>3, <1>4, <2>1, LogHeaderCrash
<1>5. CASE handle[p].st \in {"header", "open"} /\ drawn < MaxLogEntries
  <2>1. /\ \E how \in Log!Wrote :
             lines' = Log!Write(lines, Log!NewEntry(p, "message", Log!Root), how)
        /\ UNCHANGED there
    BY <1>5 DEF Log!Crash
  <2>2. PICK how \in Log!Wrote :
          lines' = Log!Write(lines, Log!NewEntry(p, "message", Log!Root), how)
    BY <2>1
  <2>3. "message" \in EntryKinds /\ Log!Root \in Nat
    BY DEF EntryKinds, Log!Root
  <2>4. handle' = [handle EXCEPT ![p] = Log!Closed] /\ sole' = sole \ {p}
    BY <1>1 DEF Log!Gone
  <2> QED BY <1>1, <1>2, <1>5, <2>1, <2>2, <2>3, <2>4, LogWritten
<1>6. CASE ~(handle[p].st = "new" /\ ~there)
           /\ ~(handle[p].st \in {"header", "open"} /\ drawn < MaxLogEntries)
  <2>1. UNCHANGED <<there, lines>>
    BY <1>6 DEF Log!Crash
  <2> QED BY <1>1, <1>3, <2>1, LogGone
<1> QED BY <1>4, <1>5, <1>6

LEMMA LogInit == ASSUME Log!Init PROVE LogInv /\ Log!Tree!TreeInit
<1>1. /\ <<>> \in Seq(LogLines) /\ Len(<<>>) = 0
  OBVIOUS
<1>2. /\ there = FALSE /\ lines = <<>> /\ handle = [p \in Procs |-> Log!Closed] /\ drawn = 0
      /\ sole = {} /\ acked = {}
  BY DEF Log!Init
<1>3. FileSound(<<>>, 0)
  BY <1>1 DEF FileSound
<1>4. HandleOk(Log!Closed, 0) /\ Log!Closed.st = "none"
  BY ClosedOk
<1>5. LogTypes
  <2>1. \A p \in Procs : handle[p] = Log!Closed
    BY <1>2
  <2>2. handle = [p \in Procs |-> handle[p]]
    BY <1>2
  <2>3. FileSound(lines, drawn) /\ \A p \in Procs : HandleOk(handle[p], drawn)
    BY <1>2, <1>3, <1>4, <2>1
  <2>4. there \in BOOLEAN /\ drawn \in 0..MaxLogEntries /\ sole \subseteq Procs
    <3>1. there \in BOOLEAN
      BY <1>2
    <3>2. drawn \in 0..MaxLogEntries
      BY <1>2
    <3>3. sole \subseteq Procs
      BY <1>2
    <3> QED BY <3>1, <3>2, <3>3
  <2> QED BY <2>2, <2>3, <2>4 DEF LogTypes
<1>6. LogPhases /\ SoleOwns /\ StandIn(acked, lines)
  BY <1>2, <1>4 DEF LogPhases, SoleOwns, StandIn
<1>7. LinksIn(lines) = {}
  <2>1. Log!Entries(<<>>) = {i \in 1..0 : Log!HasHeader(<<>>) /\ <<>>[i].kind \in EntryKinds}
    BY <1>1, EntriesAre
  <2> QED BY <1>2, <2>1 DEF LinksIn
<1>8. Log!Tree!TreeInit
  BY <1>2, <1>7 DEF Log!Tree!TreeInit, LinksIn
<1> QED BY <1>5, <1>6, <1>8 DEF LogInv

\* Every step keeps the invariant and is one of the tree's.
LEMMA LogMoves ==
  ASSUME LogInv, NEW p \in Procs,
         \/ Log!Create(p) \/ Log!FirstWriteHeader(p) \/ Log!FirstWriteLine(p)
         \/ \E kind \in {"message", "compaction"}, kept \in 0..MaxLogEntries :
              Log!AppendEntry(p, kind, kept)
         \/ Log!Close(p) \/ Log!Crash(p)
         \/ Log!OpenLoad(p) \/ Log!OpenRefused(p) \/ Log!OpenLock(p)
  PROVE  LogInv' /\ Log!Tree!TreeNext
<1>1. /\ drawn \in 0..MaxLogEntries /\ drawn <= drawn
  BY DEF LogInv, LogTypes
<1>2. "message" \in EntryKinds /\ Log!Root \in Nat
  BY DEF EntryKinds, Log!Root
<1>3. CASE Log!FirstWriteLine(p)
  <2>1. /\ handle[p].st = "header" /\ drawn < MaxLogEntries /\ drawn' = drawn + 1
        /\ UNCHANGED sole
    BY <1>3 DEF Log!FirstWriteLine, Log!MayDraw
  <2>2. CASE /\ lines' = Log!Write(lines, Log!NewEntry(p, "message", Log!Root), "all")
             /\ Log!Appended(p, Log!NewEntry(p, "message", Log!Root)) /\ UNCHANGED there
    BY <1>2, <2>1, <2>2, LogAppended
  <2>3. CASE /\ there' = FALSE /\ lines' = <<>> /\ UNCHANGED acked
             /\ handle' = [q \in Procs |->
                  CASE q = p -> [handle[p] EXCEPT !.st = "new"]
                    [] handle[q].st = "open" -> [handle[q] EXCEPT !.st = "unlinked"]
                    [] OTHER -> handle[q]]
    BY <2>1, <2>3, LogRemoved
  <2> QED BY <1>3, <2>2, <2>3 DEF Log!FirstWriteLine
<1>4. ASSUME NEW kind \in {"message", "compaction"}, NEW kept \in 0..MaxLogEntries,
             Log!AppendEntry(p, kind, kept)
      PROVE  LogInv' /\ Log!Tree!TreeNext
  <2>1. /\ handle[p].st = "open" /\ drawn < MaxLogEntries /\ drawn' = drawn + 1
        /\ UNCHANGED there /\ kind \in EntryKinds /\ kept \in Nat
    BY <1>4 DEF Log!AppendEntry, Log!MayDraw, EntryKinds
  <2>2. CASE /\ lines' = Log!Write(lines, Log!NewEntry(p, kind, kept), "all")
             /\ Log!Appended(p, Log!NewEntry(p, kind, kept)) /\ UNCHANGED sole
    BY <2>1, <2>2, LogAppended
  <2>3. CASE /\ \E how \in Log!Wrote : lines' = Log!Write(lines, Log!NewEntry(p, kind, kept), how)
             /\ sole' = {} /\ UNCHANGED <<handle, acked>>
    <3>1. PICK how \in Log!Wrote : lines' = Log!Write(lines, Log!NewEntry(p, kind, kept), how)
      BY <2>3
    <3> QED BY <2>1, <2>3, <3>1, LogWritten
  <2> QED BY <1>4, <2>2, <2>3 DEF Log!AppendEntry
<1>5. CASE Log!Close(p)
  BY <1>1, <1>5, LogGone DEF Log!Close
<1>6. CASE Log!OpenRefused(p)
  BY <1>6, LogOpenFails DEF Log!OpenRefused
<1>7. CASE Log!OpenLock(p)
  <2>1. handle[p].st = "loaded" /\ there /\ UNCHANGED <<there, drawn, acked>>
    BY <1>7 DEF Log!OpenLock
  <2>2. CASE /\ lines' = Log!Terminated(p)
             /\ handle' = [handle EXCEPT ![p].st = "open", ![p].seen = <<>>]
             /\ sole' = IF Log!Alive = {} /\ handle[p].seen = lines THEN {p} ELSE {}
    BY <2>1, <2>2, LogOpened
  <2>3. CASE /\ lines' \in {lines, Log!Terminated(p)} /\ handle' = [handle EXCEPT ![p] = Log!Closed]
             /\ UNCHANGED sole
    <3>1. lines' \in {lines, Log!Newline(lines)}
      BY <2>3 DEF Log!Terminated
    <3> QED BY <2>1, <2>3, <3>1, LogOpenFails
  <2> QED BY <1>7, <2>2, <2>3 DEF Log!OpenLock
<1> QED BY <1>3, <1>4, <1>5, <1>6, <1>7, LogCreate, LogFirstWriteHeader, LogCrash, LogOpenLoad

\* Every step of the processes, too.
LEMMA LogNext ==
  ASSUME LogInv, Log!Next \/ UNCHANGED logVars
  PROVE  LogInv' /\ [Log!Tree!TreeNext]_(Log!Tree!vars)
<1>1. CASE Log!Next
  <2>1. PICK p \in Procs :
          \/ Log!Create(p) \/ Log!FirstWriteHeader(p) \/ Log!FirstWriteLine(p)
          \/ \E kind \in {"message", "compaction"}, kept \in 0..MaxLogEntries :
               Log!AppendEntry(p, kind, kept)
          \/ Log!Close(p) \/ Log!Crash(p)
          \/ Log!OpenLoad(p) \/ Log!OpenRefused(p) \/ Log!OpenLock(p)
    BY <1>1 DEF Log!Next
  <2> QED BY <2>1, LogMoves
<1>2. CASE UNCHANGED logVars
  <2>1. UNCHANGED <<there, lines, handle, drawn, sole, acked>>
    BY <1>2 DEF logVars
  <2>2. LogTypes' /\ LogPhases' /\ SoleOwns'
    BY <2>1 DEF LogInv, LogTypes, LogPhases, SoleOwns
  <2> QED BY <2>1, <2>2, LogStill
<1> QED BY <1>1, <1>2

HIDE LogAssumption

-----------------------------------------------------------------------------
(* What a load builds is what the writer has.  The way from an entry to the  *)
(* root is a recursive function; an entry hangs from an older one, so there  *)
(* is one such function, and a line behind the file only extends it.         *)

\* The ways of an index, given those of the older entries.
Wayed(by, p) ==
  p = [id \in DOMAIN by |->
         IF by[id].up \in DOMAIN by THEN Append(p[by[id].up], id) ELSE <<id>>]

\* The entries of an index, numbered up to n, hang from older ones.
Rooted(by, n) ==
  DOMAIN by \subseteq 1..n /\ \A id \in DOMAIN by : by[id].up \in Nat /\ by[id].up < id

\* A set of numbers that holds 0 and the next of each holds all.
LEMMA NatSteps ==
  ASSUME NEW T, 0 \in T, \A n \in Nat : n \in T => n + 1 \in T
  PROVE  Nat \subseteq T
<1> SUFFICES ASSUME Nat \ T # {} PROVE FALSE
  OBVIOUS
<1>1. PICK m \in Nat \ T : \A y \in Nat \ T : m <= y
  BY NatMin
<1>2. m # 0 /\ m - 1 \in Nat
  BY <1>1
<1>3. m - 1 \in T
  BY <1>1, <1>2
<1> QED BY <1>1, <1>2, <1>3

LEMMA WayExists ==
  ASSUME NEW by, NEW n \in Nat, Rooted(by, n)
  PROVE  \E p : Wayed(by, p)
<1> DEFINE D == DOMAIN by
           Upto(m) == {id \in D : id <= m}
           Step(g, id) == IF by[id].up \in D THEN Append(g[by[id].up], id) ELSE <<id>>
           T == {m \in Nat : \E g : g = [id \in Upto(m) |-> Step(g, id)]}
<1>1. D \subseteq 1..n /\ \A id \in D : by[id].up \in Nat /\ by[id].up < id
  BY DEF Rooted
<1>2. 0 \in T
  <2> DEFINE g == [id \in {} |-> <<>>]
  <2>1. Upto(0) = {}
    BY <1>1
  <2>2. g = [id \in Upto(0) |-> Step(g, id)]
    BY <2>1
  <2> QED BY <2>2
<1>3. ASSUME NEW m \in Nat, m \in T PROVE m + 1 \in T
  <2>1. PICK g : g = [id \in Upto(m) |-> Step(g, id)]
    BY <1>3
  <2> DEFINE h == [id \in Upto(m + 1) |-> IF id \in Upto(m) THEN g[id] ELSE Step(g, id)]
  <2>2. \A id \in Upto(m + 1) : h[id] = Step(g, id)
    BY <2>1
  <2>3. \A id \in Upto(m) : id \in Upto(m + 1) /\ h[id] = g[id]
    BY <1>1
  <2> HIDE DEF h
  <2>4. \A id \in Upto(m + 1) : Step(g, id) = Step(h, id)
    <3> SUFFICES ASSUME NEW id \in Upto(m + 1), by[id].up \in D
                 PROVE  Step(g, id) = Step(h, id)
      OBVIOUS
    <3>1. by[id].up \in Upto(m)
      BY <1>1
    <3>2. g[by[id].up] = h[by[id].up]
      BY <2>3, <3>1
    <3> QED BY <3>2
  <2>5. h = [id \in Upto(m + 1) |-> Step(h, id)]
    <3>1. h = [id \in Upto(m + 1) |-> h[id]]
      BY DEF h
    <3> QED BY <3>1, <2>2, <2>4
  <2>6. \E f : f = [id \in Upto(m + 1) |-> Step(f, id)]
    <3> HIDE DEF Step, Upto
    <3> WITNESS h
    <3> QED BY <2>5
  <2>7. m + 1 \in Nat
    OBVIOUS
  <2> QED BY ONLY <2>6, <2>7
<1>4. n \in T
  <2> HIDE DEF T
  <2>1. Nat \subseteq T
    BY <1>2, <1>3, NatSteps
  <2> QED BY <2>1
<1>5. PICK g : g = [id \in Upto(n) |-> Step(g, id)]
  BY <1>4
<1>6. Upto(n) = D
  BY <1>1
<1> QED BY <1>5, <1>6 DEF Wayed

\* Two indexes that agree on the entries of the first have the same ways there.
\* What an index has for an entry, from what it has for the one it hangs from.
LEMMA WayIs ==
  ASSUME NEW by, NEW p, Wayed(by, p)
  PROVE  \A id \in DOMAIN by :
           p[id] = IF by[id].up \in DOMAIN by THEN Append(p[by[id].up], id) ELSE <<id>>
BY DEF Wayed

LEMMA WaysAgree ==
  ASSUME NEW by, NEW bz, NEW n \in Nat, Rooted(by, n), NEW p, NEW q, Wayed(by, p), Wayed(bz, q),
         DOMAIN by \subseteq DOMAIN bz,
         \A id \in DOMAIN by : /\ bz[id].up = by[id].up
                               /\ by[id].up \in DOMAIN bz => by[id].up \in DOMAIN by
  PROVE  \A id \in DOMAIN by : q[id] = p[id]
<1> DEFINE D == DOMAIN by
           U == {id \in D : q[id] # p[id]}
<1>1. D \subseteq Nat /\ \A id \in D : by[id].up < id
  BY DEF Rooted
<1>2. /\ \A id \in D : p[id] = IF by[id].up \in D THEN Append(p[by[id].up], id) ELSE <<id>>
      /\ \A id \in D :
           q[id] = IF by[id].up \in D THEN Append(q[by[id].up], id) ELSE <<id>>
  BY WayIs
<1> SUFFICES ASSUME U # {} PROVE FALSE
  OBVIOUS
<1>3. PICK x \in U : \A y \in U : x <= y
  BY <1>1, NatMin
<1>4. CASE by[x].up \in D
  <2>1. by[x].up \notin U
    BY <1>1, <1>3, <1>4
  <2>2. q[by[x].up] = p[by[x].up]
    BY <1>4, <2>1
  <2> QED BY ONLY <1>2, <1>3, <1>4, <2>2
<1>5. CASE by[x].up \notin D
  BY <1>2, <1>3, <1>5
<1> QED BY <1>4, <1>5

\* A way climbs from older entries to the one it leads to.
Climbs(way, id, D) ==
  /\ way \in Seq(D) /\ Len(way) \in Nat \ {0} /\ way[Len(way)] = id
  /\ \A i, j \in 1..Len(way) : i < j => way[i] < way[j]

LEMMA WayClimbs ==
  ASSUME NEW by, NEW n \in Nat, Rooted(by, n), NEW p, Wayed(by, p)
  PROVE  \A id \in DOMAIN by : Climbs(p[id], id, DOMAIN by)
<1> DEFINE D == DOMAIN by
           U == {id \in D : ~Climbs(p[id], id, D)}
<1>1. /\ D \subseteq 1..n /\ D \subseteq Nat /\ \A id \in D : by[id].up \in Nat /\ by[id].up < id
      /\ \A id \in D : p[id] = IF by[id].up \in D THEN Append(p[by[id].up], id) ELSE <<id>>
  <2>1. D \subseteq 1..n /\ \A id \in D : by[id].up \in Nat /\ by[id].up < id
    BY DEF Rooted
  <2>2. \A id \in D : p[id] = IF by[id].up \in D THEN Append(p[by[id].up], id) ELSE <<id>>
    BY WayIs
  <2> QED BY <2>1, <2>2
<1> HIDE DEF D
<1> SUFFICES ASSUME U # {} PROVE FALSE
  BY DEF D
<1>2. PICK x \in U : \A y \in U : x <= y
  BY <1>1, NatMin
<1>3. CASE by[x].up \in D
  <2> DEFINE w == p[by[x].up] k == Len(w) v == p[x]
  <2>1. Climbs(w, by[x].up, D)
    BY <1>1, <1>2, <1>3
  <2>2. v = Append(w, x) /\ x \in D /\ w \in Seq(D)
    BY <1>1, <1>2, <1>3, <2>1 DEF Climbs
  <2> HIDE DEF w, v
  <2>3. /\ v \in Seq(D) /\ Len(v) = k + 1 /\ v[k + 1] = x /\ k \in Nat
        /\ \A i \in 1..k : v[i] = w[i] /\ w[i] \in D
    BY <2>2
  <2>4. \A i \in 1..k : w[i] < x
    <3> SUFFICES ASSUME NEW i \in 1..k PROVE w[i] < x
      OBVIOUS
    <3>1. k \in 1..k /\ w[k] = by[x].up /\ (i < k => w[i] < w[k]) /\ (i < k \/ i = k)
      BY <2>1, <2>3 DEF Climbs
    <3>2. w[k] < x /\ w[i] \in Nat /\ w[k] \in Nat /\ x \in Nat
      BY <1>1, <2>2, <2>3, <3>1
    <3> QED BY <3>1, <3>2
  <2>5. \A i, j \in 1..Len(v) : i < j => v[i] < v[j]
    <3> SUFFICES ASSUME NEW i \in 1..(k + 1), NEW j \in 1..(k + 1), i < j PROVE v[i] < v[j]
      BY <2>3
    <3>1. i \in 1..k /\ (j \in 1..k \/ j = k + 1)
      BY <2>3
    <3> QED BY <2>1, <2>3, <2>4, <3>1 DEF Climbs
  <2>6. Len(v) \in Nat \ {0} /\ v[Len(v)] = x
    BY <2>3
  <2> QED BY <1>2, <2>3, <2>5, <2>6 DEF Climbs, v
<1>4. CASE by[x].up \notin D
  <2> DEFINE v == <<x>>
  <2>1. p[x] = v /\ x \in D
    BY <1>1, <1>2, <1>4
  <2>2. v \in Seq(D) /\ Len(v) = 1 /\ v[1] = x /\ \A i, j \in 1..1 : ~(i < j)
    BY <2>1
  <2> HIDE DEF v
  <2> QED BY <1>2, <2>1, <2>2 DEF Climbs
<1> QED BY <1>3, <1>4

\* The way that an index has to each of its entries.
Way(by) == CHOOSE p : p = [id \in DOMAIN by |->
             IF by[id].up \in DOMAIN by THEN Append(p[by[id].up], id) ELSE <<id>>]

LEMMA WayOk == ASSUME NEW by, NEW n \in Nat, Rooted(by, n) PROVE Wayed(by, Way(by))
BY WayExists DEF Way, Wayed

LEMMA BranchIs ==
  ASSUME NEW ls, NEW from
  PROVE  Log!Branch(ls, from) =
           IF from \in DOMAIN Log!ById(ls) THEN Way(Log!ById(ls))[from] ELSE <<>>
BY DEF Log!Branch, Way

\* The index of a file has every entry under its id, for ids do not repeat.
LEMMA IndexIs ==
  ASSUME NEW ls, NEW n \in Nat, FileSound(ls, n)
  PROVE  /\ DOMAIN Log!ById(ls) = IdsIn(ls)
         /\ \A i \in Log!Entries(ls) : Log!ById(ls)[ls[i].id] = ls[i]
         /\ Rooted(Log!ById(ls), n)
<1> DEFINE E == Log!Entries(ls)
           T(id) == {j \in E : ls[j].id = id}
           by == Log!ById(ls)
<1>1. /\ ls \in Seq(LogLines) /\ Len(ls) \in Nat /\ E \subseteq 1..Len(ls)
      /\ \A i \in E : ls[i] \in LogLines /\ ls[i].kind \in EntryKinds
  <2>1. ls \in Seq(LogLines)
    BY DEF FileSound
  <2> QED BY <2>1, EntryIn
<1>2. /\ \A i \in E : ls[i].id \in 1..n /\ ls[i].up < ls[i].id
      /\ \A i, j \in E : i < j => ls[i].id < ls[j].id
  BY <1>1 DEF FileSound
<1>3. by = [id \in IdsIn(ls) |-> ls[Log!Max(T(id))]]
  BY DEF Log!ById, IdsIn
<1> HIDE DEF E, by
<1>4. ASSUME NEW i \in E PROVE by[ls[i].id] = ls[i]
  <2>1. T(ls[i].id) # {} /\ T(ls[i].id) \subseteq 1..Len(ls)
    BY <1>1
  <2>2. Log!Max(T(ls[i].id)) \in T(ls[i].id)
    BY <1>1, <2>1, MaxIn
  <2>3. PICK j \in E : j = Log!Max(T(ls[i].id)) /\ ls[j].id = ls[i].id
    BY <2>2
  <2>4. i = j
    <3>1. i \in 1..Len(ls) /\ j \in 1..Len(ls) /\ ls[i].id \in 1..n /\ ls[j].id \in 1..n
      BY <1>1, <1>2
    <3>2. ~(i < j) /\ ~(j < i)
      BY <1>2, <2>3, <3>1
    <3> QED BY ONLY <1>1, <3>1, <3>2
  <2>5. ls[i].id \in IdsIn(ls)
    BY DEF IdsIn, E
  <2> QED BY <1>3, <2>3, <2>4, <2>5
<1>5. Rooted(by, n)
  <2>1. ASSUME NEW id \in IdsIn(ls)
        PROVE  id \in 1..n /\ by[id].up \in Nat /\ by[id].up < id
    <3>1. PICK i \in E : id = ls[i].id
      BY DEF IdsIn, E
    <3>2. by[id] = ls[i] /\ ls[i].up \in Nat
      BY <1>1, <1>4, <3>1 DEF LogLines
    <3> QED BY <1>2, <3>1, <3>2
  <2>2. DOMAIN by = IdsIn(ls)
    BY <1>3
  <2> QED BY <2>1, <2>2 DEF Rooted
<1> QED BY <1>3, <1>4, <1>5 DEF E, by

\* A branch of a file climbs, and its entries are in the file.
LEMMA BranchClimbs ==
  ASSUME NEW ls, NEW n \in Nat, FileSound(ls, n), NEW from
  PROVE  /\ from \in IdsIn(ls) => Climbs(Log!Branch(ls, from), from, IdsIn(ls))
         /\ from \notin IdsIn(ls) => Log!Branch(ls, from) = <<>>
<1> DEFINE by == Log!ById(ls)
<1>1. DOMAIN by = IdsIn(ls) /\ Rooted(by, n)
  BY IndexIs
<1>2. Log!Branch(ls, from) = IF from \in DOMAIN by THEN Way(by)[from] ELSE <<>>
  BY BranchIs
<1> HIDE DEF by
<1>3. Wayed(by, Way(by))
  BY <1>1, WayOk
<1>4. \A id \in DOMAIN by : Climbs(Way(by)[id], id, DOMAIN by)
  BY <1>1, <1>3, WayClimbs
<1> QED BY <1>1, <1>2, <1>4

\* The active branch, as numbers.
LEMMA ActiveClimbs ==
  ASSUME NEW ls, NEW n \in Nat, FileSound(ls, n)
  PROVE  LET b == Log!ActiveBranch(ls)
         IN /\ b \in Seq(IdsIn(ls)) /\ b \in Seq(1..n) /\ Len(b) \in Nat
            /\ \A i, j \in 1..Len(b) : i < j => b[i] < b[j]
<1> DEFINE b == Log!ActiveBranch(ls)
<1>1. \/ Climbs(b, Log!Leaf(ls), IdsIn(ls))
      \/ b = <<>>
  BY BranchClimbs DEF Log!ActiveBranch
<1>2. IdsIn(ls) \subseteq 1..n
  BY IndexIs DEF Rooted
<1> HIDE DEF b
<1>3. b \in Seq(IdsIn(ls)) /\ \A i, j \in 1..Len(b) : i < j => b[i] < b[j]
  <2>1. CASE b = <<>>
    BY <2>1
  <2>2. CASE Climbs(b, Log!Leaf(ls), IdsIn(ls))
    BY <2>2 DEF Climbs
  <2> QED BY <1>1, <2>1, <2>2
<1>4. b \in Seq(1..n) /\ Len(b) \in Nat
  BY <1>2, <1>3
<1> QED BY <1>3, <1>4 DEF b

\* The entry that is appended under the leaf ends the active branch.
LEMMA AppendBranch ==
  ASSUME NEW ls, NEW n \in Nat, FileSound(ls, n), Log!HasHeader(ls),
         NEW x \in LogLines, x.kind \in EntryKinds, x.id = n + 1, x.up = Log!Leaf(ls)
  PROVE  LET m == Append(ls, x)
         IN Log!Leaf(m) = n + 1 /\ Log!ActiveBranch(m) = Append(Log!ActiveBranch(ls), n + 1)
<1> DEFINE m == Append(ls, x) k == Len(ls) by == Log!ById(ls) bz == Log!ById(m)
           b == Log!ActiveBranch(ls)
<1>1. /\ ls \in Seq(LogLines) /\ k \in Nat /\ x.kind # "header" /\ x.up \in 0..n
      /\ x.up \in IdsIn(ls) \cup {0}
  <2>1. ls \in Seq(LogLines)
    BY DEF FileSound
  <2>2. x.kind # "header"
    BY DEF EntryKinds
  <2> QED BY <2>1, <2>2, LeafIn
<1>2. FileSound(m, n + 1)
  <2>1. x.up <= n
    BY <1>1
  <2> QED BY <1>1, <2>1, AppendSound
<1>3. /\ Log!Entries(m) = Log!Entries(ls) \cup {k + 1} /\ IdsIn(m) = IdsIn(ls) \cup {n + 1}
      /\ \A i \in Log!Entries(ls) : i \in 1..k
  BY <1>1, AppendLine, LinksAppend, EntryIn
<1>4. /\ m[k + 1] = x /\ \A i \in 1..k : m[i] = ls[i]
  BY <1>1
<1> HIDE DEF m, k
<1>5. Log!Leaf(m) = n + 1
  <2>1. \A i \in Log!Entries(m) : (\A j \in Log!Entries(m) : i >= j) <=> i = k + 1
    <3>1. \A i \in Log!Entries(ls) : i \in Nat /\ i <= k
      BY <1>1, <1>3
    <3> DEFINE E == Log!Entries(ls) F == Log!Entries(m)
    <3>2. F = E \cup {k + 1} /\ k \in Nat
      BY <1>1, <1>3
    <3> HIDE DEF E, F
    <3>3. ASSUME NEW i \in F PROVE (\A j \in F : i >= j) <=> i = k + 1
      <4>1. CASE i \in E
        BY ONLY <3>1, <3>2, <4>1 DEF E
      <4>2. CASE i = k + 1
        <5>1. \A j \in F : j \in Nat /\ j <= k + 1
          BY ONLY <3>1, <3>2 DEF E
        <5> QED BY ONLY <3>2, <4>2, <5>1
      <4> QED BY ONLY <3>2, <3>3, <4>1, <4>2
    <3> QED BY <3>3 DEF F
  <2>2. Log!Max(Log!Entries(m)) = k + 1
    BY <1>3, <2>1 DEF Log!Max
  <2> QED BY <1>3, <1>4, <2>2 DEF Log!Leaf
<1>6. /\ DOMAIN by = IdsIn(ls) /\ DOMAIN bz = IdsIn(ls) \cup {n + 1}
      /\ Rooted(by, n) /\ Rooted(bz, n + 1)
      /\ \A i \in Log!Entries(ls) : by[ls[i].id] = ls[i]
      /\ \A i \in Log!Entries(m) : bz[m[i].id] = m[i]
  <2>1. n + 1 \in Nat
    OBVIOUS
  <2>2. /\ DOMAIN bz = IdsIn(m) /\ Rooted(bz, n + 1)
        /\ \A i \in Log!Entries(m) : bz[m[i].id] = m[i]
    BY <1>2, <2>1, IndexIs
  <2>3. /\ DOMAIN by = IdsIn(ls) /\ Rooted(by, n)
        /\ \A i \in Log!Entries(ls) : by[ls[i].id] = ls[i]
    BY IndexIs
  <2> QED BY <1>3, <2>2, <2>3
<1> HIDE DEF by, bz
<1>7. bz[n + 1] = x
  BY <1>3, <1>4, <1>6
<1>8. \A id \in DOMAIN by : bz[id] = by[id]
  <2>1. ASSUME NEW id \in DOMAIN by PROVE bz[id] = by[id]
    <3>1. PICK i \in Log!Entries(ls) : id = ls[i].id
      BY <1>6 DEF IdsIn
    <3>2. i \in Log!Entries(m) /\ m[i] = ls[i]
      BY <1>3, <1>4
    <3> QED BY <1>6, <3>1, <3>2
  <2> QED BY <2>1
<1>9. Wayed(by, Way(by)) /\ Wayed(bz, Way(bz))
  <2>1. n + 1 \in Nat
    OBVIOUS
  <2> QED BY <1>6, <2>1, WayOk
<1>10. \A id \in DOMAIN by : Way(bz)[id] = Way(by)[id]
  <2>1. \A id \in DOMAIN by : by[id].up \in DOMAIN bz => by[id].up \in DOMAIN by
    <3>1. \A id \in DOMAIN by : by[id].up # n + 1
      BY <1>6 DEF Rooted
    <3> QED BY <1>6, <3>1
  <2>2. DOMAIN by \subseteq DOMAIN bz /\ \A id \in DOMAIN by : bz[id].up = by[id].up
    BY <1>6, <1>8
  <2> QED BY <1>6, <1>9, <2>1, <2>2, WaysAgree
<1>11. Log!ActiveBranch(m) = Way(bz)[n + 1]
  <2>1. n + 1 \in DOMAIN bz
    BY <1>6
  <2> QED BY <1>5, <2>1, BranchIs DEF Log!ActiveBranch, bz
<1>12. Way(bz)[n + 1] =
         IF x.up \in DOMAIN bz THEN Append(Way(bz)[x.up], n + 1) ELSE <<n + 1>>
  <2>1. n + 1 \in DOMAIN bz
    BY <1>6
  <2> QED BY <1>7, <1>9, <2>1, WayIs
<1>13. b = IF x.up \in DOMAIN by THEN Way(by)[x.up] ELSE <<>>
  BY BranchIs DEF Log!ActiveBranch, by
<1> HIDE DEF b
<1>14. Log!ActiveBranch(m) = Append(b, n + 1)
  <2>1. CASE x.up \in IdsIn(ls)
    <3>1. x.up \in DOMAIN bz /\ x.up \in DOMAIN by
      BY <1>6, <2>1
    <3> QED BY <1>10, <1>11, <1>12, <1>13, <3>1
  <2>2. CASE x.up \notin IdsIn(ls)
    <3>1. x.up \notin DOMAIN by /\ x.up \notin DOMAIN bz
      <4>1. x.up = 0 /\ n + 1 # 0
        BY <1>1, <2>2
      <4> QED BY <1>6, <2>2, <4>1
    <3>2. b = <<>> /\ Log!ActiveBranch(m) = <<n + 1>>
      BY <1>11, <1>12, <1>13, <3>1
    <3>3. Append(<<>>, n + 1) = <<n + 1>>
      OBVIOUS
    <3> QED BY <3>2, <3>3
  <2> QED BY <2>1, <2>2
<1> QED BY <1>5, <1>14 DEF m, b

\* Newlines change neither the leaf nor the active branch.
LEMMA SameBranch ==
  ASSUME NEW ls, NEW m, NEW n \in Nat, FileSound(ls, n), FileSound(m, n), SaysSame(ls, m)
  PROVE  Log!Leaf(m) = Log!Leaf(ls) /\ Log!ActiveBranch(m) = Log!ActiveBranch(ls)
<1> DEFINE by == Log!ById(ls) bz == Log!ById(m) E == Log!Entries(ls)
<1>1. /\ ls \in Seq(LogLines) /\ E \subseteq 1..Len(ls) /\ Log!Entries(m) = E
      /\ Len(ls) \in Nat
      /\ \A i \in E : m[i].id = ls[i].id /\ m[i].up = ls[i].up
  <2>1. ls \in Seq(LogLines)
    BY DEF FileSound
  <2>2. E \subseteq 1..Len(ls) /\ Len(ls) \in Nat
    BY <2>1, EntryIn
  <2> QED BY <2>1, <2>2 DEF SaysSame
<1>2. IdsIn(m) = IdsIn(ls)
  BY <1>1 DEF IdsIn
<1>3. Log!Leaf(m) = Log!Leaf(ls)
  <2>1. CASE E = {}
    BY <1>1, <2>1 DEF Log!Leaf
  <2>2. CASE E # {}
    <3>1. Log!Max(E) \in E
      BY <1>1, <2>2, MaxIn
    <3> QED BY <1>1, <2>2, <3>1 DEF Log!Leaf
  <2> QED BY <2>1, <2>2
<1>4. /\ DOMAIN by = IdsIn(ls) /\ DOMAIN bz = IdsIn(ls) /\ Rooted(by, n) /\ Rooted(bz, n)
      /\ \A i \in E : by[ls[i].id] = ls[i]
      /\ \A i \in E : bz[m[i].id] = m[i]
  BY <1>1, <1>2, IndexIs
<1> HIDE DEF by, bz
<1>5. \A id \in DOMAIN by : bz[id].up = by[id].up
  <2>1. ASSUME NEW id \in DOMAIN by PROVE bz[id].up = by[id].up
    <3>1. PICK i \in E : id = ls[i].id
      BY <1>4 DEF IdsIn
    <3> QED BY <1>1, <1>4, <3>1
  <2> QED BY <2>1
<1>6. Wayed(by, Way(by)) /\ Wayed(bz, Way(bz))
  BY <1>4, WayOk
<1>7. \A id \in DOMAIN by : Way(bz)[id] = Way(by)[id]
  BY <1>4, <1>5, <1>6, WaysAgree
<1>8. /\ Log!ActiveBranch(m) =
           IF Log!Leaf(m) \in DOMAIN bz THEN Way(bz)[Log!Leaf(m)] ELSE <<>>
      /\ Log!ActiveBranch(ls) =
           IF Log!Leaf(ls) \in DOMAIN by THEN Way(by)[Log!Leaf(ls)] ELSE <<>>
  BY BranchIs DEF Log!ActiveBranch, by, bz
<1> QED BY <1>3, <1>4, <1>7, <1>8

\* A compaction names an entry before it, or none.
KeptLower(ls) == \A i \in 1..Len(ls) : ls[i].kind \in EntryKinds => ls[i].kept < ls[i].id

\* A load shows what the active branch asks for: the branch climbs, so what its last
\* compaction names is on it once, before the compaction, or not at all.
LEMMA ContextIs ==
  ASSUME NEW ls, NEW n \in Nat, FileSound(ls, n), KeptLower(ls)
  PROVE  LET b == Log!ActiveBranch(ls)
         IN /\ Log!Range(b) \subseteq DOMAIN Log!ById(ls)
            /\ Log!Shows(Log!BuildContextEntries(ls), b, Log!ById(ls))
<1> DEFINE b == Log!ActiveBranch(ls) by == Log!ById(ls) k == Len(b)
           compacted == {i \in DOMAIN b : by[b[i]].kind = "compaction"}
           c == Log!Max(compacted)
           kept == {i \in 1..(c - 1) : b[i] = by[b[c]].kept}
           first == CHOOSE i \in DOMAIN b : b[i] = by[b[c]].kept
           from == IF by[b[c]].kept \in Log!Range(b) THEN first ELSE c
<1>1. /\ b \in Seq(IdsIn(ls)) /\ b \in Seq(1..n) /\ k \in Nat
      /\ \A i, j \in 1..k : i < j => b[i] < b[j]
  BY ActiveClimbs
<1>2. DOMAIN by = IdsIn(ls) /\ \A i \in Log!Entries(ls) : by[ls[i].id] = ls[i]
  BY IndexIs
<1>3. \A id \in IdsIn(ls) : by[id].kept < id /\ by[id].kept \in Nat
  <2>1. ls \in Seq(LogLines)
    BY DEF FileSound
  <2>2. ASSUME NEW id \in IdsIn(ls) PROVE by[id].kept < id /\ by[id].kept \in Nat
    <3>1. PICK i \in Log!Entries(ls) : id = ls[i].id
      BY DEF IdsIn
    <3>2. i \in 1..Len(ls) /\ ls[i] \in LogLines /\ ls[i].kind \in EntryKinds
      BY <2>1, EntryIn
    <3>3. ls[i].kept < ls[i].id /\ ls[i].kept \in Nat
      BY <3>2 DEF KeptLower, LogLines
    <3> QED BY <1>2, <3>1, <3>3
  <2> QED BY <2>2
<1>4. Log!BuildContextEntries(ls) =
        IF compacted = {} THEN b
        ELSE <<b[c]>> \o Log!KeptBefore(b, by, c) \o SubSeq(b, c + 1, k)
  BY DEF Log!BuildContextEntries
<1>5. Log!KeptBefore(b, by, c) = IF kept = {} THEN <<>> ELSE SubSeq(b, Log!Min(kept), c - 1)
  BY DEF Log!KeptBefore
<1> HIDE DEF b, by
<1>6. Log!Range(b) = {b[i] : i \in 1..k} /\ DOMAIN b = 1..k /\ \A i \in 1..k : b[i] \in IdsIn(ls)
  BY <1>1 DEF Log!Range
<1>7. ASSUME compacted # {} PROVE Log!KeptBefore(b, by, c) = SubSeq(b, from, c - 1)
  <2>1. c \in 1..k
    <3>1. compacted \subseteq 1..k
      BY <1>6
    <3>2. c \in compacted
      BY <1>1, <1>7, <3>1, MaxIn
    <3> QED BY <3>1, <3>2
  <2> HIDE DEF c
  <2> DEFINE x == by[b[c]].kept
  <2>2. x \in Nat /\ x < b[c] /\ b[c] \in Nat
    <3>1. b[c] \in IdsIn(ls) /\ b[c] \in 1..n
      BY <1>1, <1>6, <2>1
    <3> QED BY <1>3, <3>1
  <2> HIDE DEF x
  <2>3. \A i \in 1..k : b[i] = x => i \in 1..(c - 1)
    <3>1. ASSUME NEW i \in 1..k, b[i] = x PROVE i \in 1..(c - 1)
      <4>1. i # c /\ ~(c < i)
        <5>1. c < i => b[c] < b[i]
          BY <1>1, <2>1
        <5> QED BY <2>2, <3>1, <5>1
      <4> QED BY <1>1, <2>1, <4>1
    <3> QED BY <3>1
  <2>4. CASE x \in Log!Range(b)
    <3>1. PICK f \in 1..k : b[f] = x
      BY <1>6, <2>4
    <3>2. \A i \in 1..k : b[i] = x => i = f
      <4>1. ASSUME NEW i \in 1..k, b[i] = x PROVE i = f
        <5>1. ~(i < f) /\ ~(f < i)
          BY <1>1, <2>2, <3>1, <4>1
        <5> QED BY <1>1, <5>1
      <4> QED BY <4>1
    <3>3. first = f
      BY <1>6, <3>1, <3>2 DEF x
    <3>4. kept = {f}
      <4>1. \A i \in 1..(c - 1) : i \in 1..k
        BY <1>1, <2>1
      <4> QED BY <2>3, <3>1, <3>2, <4>1 DEF x
    <3>5. Log!Min({f}) = f
      <4>1. f \in Int
        OBVIOUS
      <4> QED BY <4>1 DEF Log!Min
    <3> QED BY <1>5, <2>4, <3>3, <3>4, <3>5 DEF x
  <2>5. CASE x \notin Log!Range(b)
    <3>1. kept = {}
      <4>1. \A i \in 1..(c - 1) : i \in 1..k
        BY <1>1, <2>1
      <4> QED BY <1>6, <2>5, <4>1 DEF x
    <3>2. SubSeq(b, c, c - 1) = <<>>
      BY <1>1, <2>1
    <3> QED BY <1>5, <2>5, <3>1, <3>2 DEF x
  <2> QED BY <2>4, <2>5
<1>8. Log!Shows(Log!BuildContextEntries(ls), b, by)
  BY <1>4, <1>7 DEF Log!Shows
<1> QED BY <1>2, <1>6, <1>8 DEF b, by

-----------------------------------------------------------------------------
\* A handle's branch, when n entries were drawn: a load's is the active one it saw.
BranchOk(h, n) ==
  /\ h.branch \in Seq(1..n)
  /\ h.st \in {"new", "header"} => h.branch = <<>>
  /\ h.st = "loaded" => /\ FileSound(h.seen, n) /\ h.leaf = Log!Leaf(h.seen)
                        /\ h.branch = Log!ActiveBranch(h.seen)

\* The process that is alone with the file knows what a load would find.
SoleKnows ==
  \A p \in sole : handle[p].st \in {"header", "open"} =>
    handle[p].leaf = Log!Leaf(lines) /\ handle[p].branch = Log!ActiveBranch(lines)

WriterInv ==
  KeptLower(lines) /\ (\A p \in Procs : BranchOk(handle[p], drawn)) /\ SoleKnows

\* Entries drawn later do not concern a file or a handle.
LEMMA BranchOkGrows ==
  ASSUME NEW h, NEW n \in Nat, NEW m \in Nat, n <= m, BranchOk(h, n)
  PROVE  BranchOk(h, m)
<1>1. h.branch \in Seq(1..m)
  <2>1. h.branch \in Seq(1..n) /\ 1..n \subseteq 1..m
    BY DEF BranchOk
  <2> QED BY <2>1
<1>2. FileSound(h.seen, n) => FileSound(h.seen, m)
  BY DEF FileSound
<1> QED BY <1>1, <1>2 DEF BranchOk

\* One handle changes.
LEMMA WriterStep ==
  ASSUME LogInv, WriterInv, NEW p \in Procs, NEW h, handle' = [handle EXCEPT ![p] = h],
         BranchOk(h, drawn'), drawn' \in Nat, drawn <= drawn', KeptLower(lines'), SoleKnows'
  PROVE  WriterInv'
<1>1. /\ drawn \in Nat /\ handle'[p] = h
      /\ \A q \in Procs \ {p} : handle'[q] = handle[q]
  <2>1. handle = [q \in Procs |-> handle[q]] /\ drawn \in 0..MaxLogEntries
    BY DEF LogInv, LogTypes
  <2> QED BY <2>1
<1>2. ASSUME NEW q \in Procs PROVE BranchOk(handle'[q], drawn')
  <2>1. CASE q = p
    BY <1>1, <2>1
  <2>2. CASE q # p
    <3>1. handle'[q] = handle[q] /\ BranchOk(handle[q], drawn)
      BY <1>1, <2>2 DEF WriterInv
    <3> QED BY <1>1, <3>1, BranchOkGrows
  <2> QED BY <2>1, <2>2
<1> QED BY <1>2 DEF WriterInv

LEMMA ClosedBranch ==
  ASSUME NEW n \in Nat
  PROVE  BranchOk(Log!Closed, n) /\ BranchOk([Log!Closed EXCEPT !.st = "new"], n)
<1>1. <<>> \in Seq(1..n)
  OBVIOUS
<1> QED BY <1>1 DEF Log!Closed, BranchOk

\* A file without entries.
LEMMA NoBranch ==
  ASSUME NEW ls, FileSound(ls, 0)
  PROVE  Log!Leaf(ls) = 0 /\ Log!ActiveBranch(ls) = <<>> /\ KeptLower(ls)
<1>1. Log!Leaf(ls) \in 0..0
  BY LeafIn
<1>2. Log!ActiveBranch(ls) \in Seq(1..0)
  BY ActiveClimbs
<1>3. KeptLower(ls)
  BY DEF FileSound, KeptLower
<1> DEFINE b == Log!ActiveBranch(ls)
<1> HIDE DEF b
<1>4. b = <<>>
  <2>1. b \in Seq({})
    BY <1>2 DEF b
  <2> QED BY <2>1
<1> QED BY <1>1, <1>3, <1>4 DEF b

\* What a compaction keeps is on a line that a write leaves, or goes with it.
LEMMA KeptAppend ==
  ASSUME NEW ls \in Seq(LogLines), NEW x \in LogLines, KeptLower(ls),
         x.kind \in EntryKinds => x.kept < x.id
  PROVE  KeptLower(Append(ls, x))
<1> DEFINE m == Append(ls, x) k == Len(ls)
<1>1. /\ k \in Nat /\ Len(m) = k + 1 /\ m[k + 1] = x
      /\ \A i \in 1..k : m[i] = ls[i]
  OBVIOUS
<1> HIDE DEF m
<1>2. ASSUME NEW i \in 1..(k + 1), m[i].kind \in EntryKinds PROVE m[i].kept < m[i].id
  <2>1. CASE i \in 1..k
    BY <1>1, <1>2, <2>1 DEF KeptLower
  <2>2. CASE i = k + 1
    BY <1>1, <1>2, <2>2
  <2> QED BY <1>1, <2>1, <2>2
<1> QED BY <1>1, <1>2 DEF KeptLower, m

LEMMA KeptWrite ==
  ASSUME NEW ls \in Seq(LogLines), NEW x \in LogLines, KeptLower(ls), x.kept < x.id,
         NEW how \in Log!Wrote
  PROVE  KeptLower(Log!Write(ls, x, how))
<1>1. \A nl \in BOOLEAN : Log!Garbage(nl) \in LogLines /\ Log!Garbage(nl).kind \notin EntryKinds
  BY DEF Log!Garbage, Log!Line, Log!Root, LogLines, EntryKinds
<1>2. CASE how = "none"
  <2>1. Log!Write(ls, x, how) = ls
    BY <1>2 DEF Log!Write
  <2> QED BY <2>1
<1>3. CASE how # "none" /\ Log!Torn(ls)
  <2> DEFINE f == Log!Front(ls) g == Log!Garbage(how = "all")
  <2>1. Log!Write(ls, x, how) = Append(f, g)
    BY <1>3 DEF Log!Write
  <2>2. g \in LogLines /\ g.kind \notin EntryKinds
    BY <1>1
  <2>3. f \in Seq(LogLines) /\ KeptLower(f)
    <3>1. ls # <<>>
      BY <1>3 DEF Log!Torn
    <3>2. /\ f \in Seq(LogLines) /\ Len(f) = Len(ls) - 1 /\ Len(ls) \in Nat
          /\ \A i \in 1..(Len(ls) - 1) : f[i] = ls[i]
      BY <3>1, FrontIs
    <3> HIDE DEF f
    <3> QED BY <3>2 DEF KeptLower
  <2> HIDE DEF f, g
  <2> QED BY <2>1, <2>2, <2>3, KeptAppend
<1>4. CASE how = "part" /\ ~Log!Torn(ls)
  <2>1. Log!Write(ls, x, how) = Append(ls, Log!Garbage(FALSE))
    BY <1>4 DEF Log!Write
  <2> QED BY <1>1, <2>1, KeptAppend
<1>5. CASE how \in {"whole", "all"} /\ ~Log!Torn(ls)
  <2> DEFINE y == [x EXCEPT !.nl = (how = "all")]
  <2>1. Log!Write(ls, x, how) = Append(ls, y)
    BY <1>5 DEF Log!Write
  <2>2. y \in LogLines /\ y.kept = x.kept /\ y.id = x.id
    BY DEF LogLines
  <2> HIDE DEF y
  <2> QED BY <2>1, <2>2, KeptAppend
<1> QED BY <1>2, <1>3, <1>4, <1>5 DEF Log!Wrote

LEMMA KeptSame ==
  ASSUME NEW ls, NEW m, KeptLower(ls), SaysSame(ls, m)
  PROVE  KeptLower(m)
BY DEF KeptLower, SaysSame

\* The newline of a torn tail changes nothing that a load finds.
LEMMA NewlineKnown ==
  ASSUME NEW ls, NEW n \in Nat, FileSound(ls, n), KeptLower(ls),
         NEW m \in {ls, Log!Newline(ls)}
  PROVE  /\ KeptLower(m)
         /\ Log!Leaf(m) = Log!Leaf(ls) /\ Log!ActiveBranch(m) = Log!ActiveBranch(ls)
<1>1. CASE m = ls
  BY <1>1
<1>2. CASE m = Log!Newline(ls)
  <2>1. FileSound(m, n) /\ SaysSame(ls, m)
    BY <1>2, NewlineSound
  <2> QED BY <2>1, KeptSame, SameBranch
<1> QED BY <1>1, <1>2

-----------------------------------------------------------------------------
\* The types that the steps below need.
LEMMA WriterTypes ==
  ASSUME LogInv, WriterInv
  PROVE  /\ drawn \in Nat /\ FileSound(lines, drawn) /\ lines \in Seq(LogLines)
         /\ KeptLower(lines) /\ SoleKnows
         /\ handle = [q \in Procs |-> handle[q]] /\ sole \subseteq Procs
         /\ \A q \in Procs : HandleOk(handle[q], drawn) /\ BranchOk(handle[q], drawn)
         /\ \A p \in sole, q \in Procs : handle[q].st \in {"new", "header", "open"} => q = p
BY DEF LogInv, LogTypes, SoleOwns, WriterInv, FileSound

\* A handle is closed, or forgets a load: what the others know stays, if a load of the
\* file finds the same.
LEMMA WriterClosed ==
  ASSUME LogInv, WriterInv, NEW p \in Procs, handle' = [handle EXCEPT ![p] = Log!Closed],
         sole' \subseteq sole, drawn' \in Nat, drawn <= drawn',
         lines' \in {lines, Log!Newline(lines)}
  PROVE  WriterInv'
<1>1. /\ KeptLower(lines') /\ Log!Leaf(lines') = Log!Leaf(lines)
      /\ Log!ActiveBranch(lines') = Log!ActiveBranch(lines)
  BY WriterTypes, NewlineKnown
<1>2. SoleKnows'
  <2>1. SUFFICES ASSUME NEW q \in sole', handle'[q].st \in {"header", "open"}
                 PROVE  handle'[q].leaf = Log!Leaf(lines)
                          /\ handle'[q].branch = Log!ActiveBranch(lines)
    BY <1>1 DEF SoleKnows
  <2>2. q \in sole /\ q \in Procs
    BY <2>1, WriterTypes
  <2>3. q # p
    <3>1. SUFFICES ASSUME q = p PROVE FALSE
      OBVIOUS
    <3>2. handle'[q] = Log!Closed
      BY <2>2, <3>1, WriterTypes
    <3> QED BY <2>1, <3>2 DEF Log!Closed
  <2>4. handle'[q] = handle[q]
    BY <2>2, <2>3, WriterTypes
  <2> QED BY <2>1, <2>2, <2>4, WriterTypes DEF SoleKnows
<1>3. BranchOk(Log!Closed, drawn')
  BY ClosedBranch
<1> QED BY <1>1, <1>2, <1>3, WriterStep

\* The file gets its header, or the process dies writing it.
LEMMA WriterHeader ==
  ASSUME LogInv, WriterInv, NEW p \in Procs, handle[p].st = "new", NEW how \in Log!Wrote,
         lines' = Log!Write(<<>>, Log!Header, how), drawn' \in Nat, drawn <= drawn',
         \/ handle' = [handle EXCEPT ![p] = Log!Closed] /\ sole' = sole \ {p}
         \/ handle' = [handle EXCEPT ![p].st = "header"] /\ sole' = sole
  PROVE  WriterInv'
<1>1. FileSound(lines', 0)
  BY HeaderSound
<1>2. Log!Leaf(lines') = 0 /\ Log!ActiveBranch(lines') = <<>> /\ KeptLower(lines')
  BY <1>1, NoBranch
<1>3. \A q \in sole : q = p
  BY WriterTypes
<1>4. CASE handle' = [handle EXCEPT ![p] = Log!Closed] /\ sole' = sole \ {p}
  <2>1. SoleKnows'
    BY <1>3, <1>4 DEF SoleKnows
  <2>2. BranchOk(Log!Closed, drawn')
    BY ClosedBranch
  <2> QED BY <1>2, <1>4, <2>1, <2>2, WriterStep
<1>5. CASE handle' = [handle EXCEPT ![p].st = "header"] /\ sole' = sole
  <2> DEFINE h == [handle[p] EXCEPT !.st = "header"]
  <2>1. HandleOk(handle[p], drawn) /\ BranchOk(handle[p], drawn) /\ drawn \in Nat
    BY WriterTypes
  <2>2. h.st = "header" /\ h.leaf = 0 /\ h.branch = <<>>
    <3>1. handle[p].leaf = 0 /\ handle[p].branch = <<>>
      BY <2>1 DEF HandleOk, BranchOk
    <3> QED BY <2>1, <3>1 DEF HandleOk
  <2>3. handle' = [handle EXCEPT ![p] = h] /\ handle'[p] = h
    BY <1>5, WriterTypes
  <2> HIDE DEF h
  <2>4. BranchOk(h, drawn')
    <3>1. <<>> \in Seq(1..drawn')
      OBVIOUS
    <3> QED BY <2>2, <3>1 DEF BranchOk
  <2>5. SoleKnows'
    BY <1>2, <1>3, <1>5, <2>2, <2>3 DEF SoleKnows
  <2> QED BY <1>2, <2>3, <2>4, <2>5, WriterStep
<1> QED BY <1>4, <1>5

\* The entry of an append, below which everything was drawn before.
LEMMA EntryOk ==
  ASSUME LogInv, NEW p \in Procs, NEW kind \in EntryKinds, NEW kept \in 0..drawn
  PROVE  LET e == Log!NewEntry(p, kind, kept)
         IN /\ e \in LogLines /\ e.kind \in EntryKinds /\ e.kind # "header"
            /\ e.id = drawn + 1 /\ e.up = handle[p].leaf /\ e.nl = TRUE /\ e.kept < e.id
<1> DEFINE e == Log!NewEntry(p, kind, kept)
<1>1. drawn \in Nat /\ handle[p].leaf \in 0..drawn
  BY LogAssumption DEF LogInv, LogTypes, HandleOk
<1>2. e = [kind |-> kind, id |-> drawn + 1, up |-> handle[p].leaf, kept |-> kept, nl |-> TRUE]
  BY DEF Log!NewEntry, Log!Line
<1> HIDE DEF e
<1> QED BY <1>1, <1>2 DEF LogLines, EntryKinds, e

\* What is kept is the root or on the branch of the handle: drawn before.
LEMMA DrawnBefore ==
  ASSUME LogInv, WriterInv, NEW p \in Procs, NEW kind, NEW kept \in Nat,
         Log!MayDraw(p, kind, kept)
  PROVE  kept \in 0..drawn
<1>1. drawn \in Nat /\ handle[p].branch \in Seq(1..drawn)
  BY WriterTypes DEF BranchOk
<1>2. CASE kept = 0
  BY <1>1, <1>2
<1>3. CASE kept # 0
  <2>1. kept \in Log!Range(handle[p].branch)
    BY <1>3 DEF Log!MayDraw, Log!Root
  <2>2. ASSUME NEW S, NEW b \in Seq(S) PROVE Log!Range(b) \subseteq S
    BY DEF Log!Range
  <2>3. Log!Range(handle[p].branch) \subseteq 1..drawn
    BY <1>1, <2>2
  <2> QED BY <1>1, <2>1, <2>3
<1> QED BY <1>2, <1>3

\* An append that succeeds: the entry ends the branch of the handle and of the file.
LEMMA WriterAppended ==
  ASSUME LogInv, WriterInv, NEW p \in Procs, handle[p].st \in {"header", "open"},
         NEW kind \in EntryKinds, NEW kept \in 0..drawn,
         drawn' = drawn + 1, lines' = Log!Write(lines, Log!NewEntry(p, kind, kept), "all"),
         Log!Appended(p, Log!NewEntry(p, kind, kept)), UNCHANGED sole
  PROVE  WriterInv'
<1> DEFINE e == Log!NewEntry(p, kind, kept)
           h == [handle[p] EXCEPT !.st = "open", !.leaf = e.id, !.branch = Append(@, e.id)]
<1>1. /\ drawn \in Nat /\ FileSound(lines, drawn) /\ lines \in Seq(LogLines)
      /\ HandleOk(handle[p], drawn) /\ BranchOk(handle[p], drawn)
  BY WriterTypes
<1>2. /\ e \in LogLines /\ e.kind \in EntryKinds /\ e.kind # "header"
      /\ e.id = drawn + 1 /\ e.up = handle[p].leaf /\ e.nl = TRUE /\ e.kept < e.id
  BY EntryOk
<1>3. /\ handle' = [handle EXCEPT ![p].st = "open", ![p].leaf = e.id,
                                  ![p].branch = Append(@, e.id)]
      /\ lines' = Log!Write(lines, e, "all")
  BY DEF Log!Appended
<1> HIDE DEF e
<1>4. h.st = "open" /\ h.leaf = drawn + 1 /\ h.branch = Append(handle[p].branch, drawn + 1)
  <2> DEFINE g == handle[p] a == e.id b == Append(handle[p].branch, e.id)
  <2>1. g = [st |-> g.st, seen |-> g.seen, leaf |-> g.leaf, branch |-> g.branch]
    BY <1>1 DEF HandleOk
  <2> HIDE DEF g, a, b
  <2> DEFINE f == [g EXCEPT !.st = "open", !.leaf = a, !.branch = b]
  <2>2. f.st = "open" /\ f.leaf = a /\ f.branch = b
    BY <2>1
  <2> QED BY <1>2, <2>2 DEF g, a, b
<1>5. handle' = [handle EXCEPT ![p] = h] /\ handle'[p] = h
  BY <1>3, WriterTypes
<1> HIDE DEF h
<1>6. BranchOk(h, drawn')
  <2>1. handle[p].branch \in Seq(1..drawn) /\ 1..drawn \subseteq 1..(drawn + 1)
    BY <1>1 DEF BranchOk
  <2> DEFINE b == handle[p].branch
  <2>2. b \in Seq(1..(drawn + 1)) /\ drawn + 1 \in 1..(drawn + 1)
    BY <1>1, <2>1
  <2> HIDE DEF b
  <2>3. Append(b, drawn + 1) \in Seq(1..(drawn + 1))
    BY <2>2
  <2> QED BY <1>4, <2>3 DEF BranchOk, b
<1>7. KeptLower(lines')
  <2>1. "all" \in Log!Wrote
    BY DEF Log!Wrote
  <2> QED BY <1>1, <1>2, <1>3, <2>1, KeptWrite, WriterTypes
<1>8. SoleKnows'
  <2>1. CASE p \notin sole
    <3>1. sole = {}
      BY <2>1, WriterTypes
    <3> QED BY <3>1 DEF SoleKnows
  <2>2. CASE p \in sole
    <3>1. /\ \A q \in sole : q = p
          /\ Whole(lines, handle[p].leaf)
          /\ handle[p].leaf = Log!Leaf(lines) /\ handle[p].branch = Log!ActiveBranch(lines)
      BY <2>2, WriterTypes DEF SoleKnows, LogInv, SoleOwns
    <3>2. lines' = Append(lines, e)
      <4>1. lines' = Append(lines, [e EXCEPT !.nl = ("all" = "all")])
        BY <1>3, <3>1 DEF Log!Write, Whole
      <4>2. [e EXCEPT !.nl = ("all" = "all")] = e
        BY <1>2 DEF LogLines
      <4> QED BY <4>1, <4>2
    <3>3. Log!HasHeader(lines) /\ e.up = Log!Leaf(lines)
      BY <1>2, <3>1 DEF Whole
    <3>4. /\ Log!Leaf(lines') = drawn + 1
          /\ Log!ActiveBranch(lines') = Append(Log!ActiveBranch(lines), drawn + 1)
      BY <1>1, <1>2, <3>2, <3>3, AppendBranch
    <3>5. h.leaf = Log!Leaf(lines') /\ h.branch = Log!ActiveBranch(lines')
      BY <1>4, <3>1, <3>4
    <3> QED BY <1>5, <3>1, <3>5 DEF SoleKnows
  <2> QED BY <2>1, <2>2
<1>9. drawn' \in Nat /\ drawn <= drawn'
  BY <1>1
<1> QED BY <1>5, <1>6, <1>7, <1>8, <1>9, WriterStep

\* Whatever else a write of an entry leaves, nobody is alone with the file after it.
LEMMA WriterWritten ==
  ASSUME LogInv, WriterInv, NEW p \in Procs, handle[p].st \in {"header", "open"},
         NEW kind \in EntryKinds, NEW kept \in 0..drawn, NEW how \in Log!Wrote,
         drawn' = drawn + 1, lines' = Log!Write(lines, Log!NewEntry(p, kind, kept), how),
         \/ handle' = handle /\ sole' = {}
         \/ handle' = [handle EXCEPT ![p] = Log!Closed] /\ sole' = sole \ {p}
  PROVE  WriterInv'
<1>1. drawn \in Nat /\ lines \in Seq(LogLines) /\ drawn' \in Nat /\ drawn <= drawn'
  BY WriterTypes
<1>2. KeptLower(lines')
  <2> DEFINE e == Log!NewEntry(p, kind, kept)
  <2>1. e \in LogLines /\ e.kept < e.id
    BY EntryOk
  <2> HIDE DEF e
  <2>2. lines' = Log!Write(lines, e, how)
    BY DEF e
  <2> QED BY <1>1, <2>1, <2>2, KeptWrite, WriterTypes
<1>3. SoleKnows'
  <2>1. sole' = {}
    BY WriterTypes
  <2> QED BY <2>1 DEF SoleKnows
<1>4. CASE handle' = [handle EXCEPT ![p] = Log!Closed]
  <2>1. BranchOk(Log!Closed, drawn')
    BY <1>1, ClosedBranch
  <2> QED BY <1>1, <1>2, <1>3, <1>4, <2>1, WriterStep
<1>5. CASE handle' = handle
  <2>1. \A q \in Procs : BranchOk(handle'[q], drawn')
    BY <1>1, <1>5, BranchOkGrows, WriterTypes
  <2> QED BY <1>2, <1>3, <2>1 DEF WriterInv
<1> QED BY <1>4, <1>5

\* The clean-up behind a failed first write: the process is to write a header again.
LEMMA WriterRemoved ==
  ASSUME LogInv, WriterInv, NEW p \in Procs, handle[p].st = "header",
         drawn' = drawn + 1, lines' = <<>>,
         handle' = [q \in Procs |->
           CASE q = p -> [handle[p] EXCEPT !.st = "new"]
             [] handle[q].st = "open" -> [handle[q] EXCEPT !.st = "unlinked"]
             [] OTHER -> handle[q]],
         UNCHANGED sole
  PROVE  WriterInv'
<1>1. drawn \in Nat /\ drawn' \in Nat /\ drawn <= drawn'
  BY WriterTypes
<1>2. KeptLower(lines')
  <2>1. Len(<<>>) = 0
    OBVIOUS
  <2> QED BY <2>1 DEF KeptLower
<1>3. ASSUME NEW q \in Procs PROVE BranchOk(handle'[q], drawn')
  <2>1. BranchOk(handle[q], drawn') /\ HandleOk(handle[q], drawn)
    BY <1>1, BranchOkGrows, WriterTypes
  <2>2. CASE q = p
    <3>1. handle'[q] = [handle[q] EXCEPT !.st = "new"]
      BY <2>2
    <3>2. handle'[q].st = "new" /\ handle'[q].branch = handle[q].branch
      BY <2>1, <3>1 DEF HandleOk
    <3> QED BY <2>1, <2>2, <3>2 DEF BranchOk
  <2>3. CASE q # p /\ handle[q].st = "open"
    <3>1. handle'[q] = [handle[q] EXCEPT !.st = "unlinked"]
      BY <2>3
    <3>2. handle'[q].st = "unlinked" /\ handle'[q].branch = handle[q].branch
      BY <2>1, <3>1 DEF HandleOk
    <3> QED BY <2>1, <3>2 DEF BranchOk
  <2>4. CASE q # p /\ handle[q].st # "open"
    BY <2>1, <2>4
  <2> QED BY <2>2, <2>3, <2>4
<1>4. SoleKnows'
  <2>1. \A q \in sole : q = p
    BY WriterTypes
  <2>2. handle'[p].st = "new"
    BY WriterTypes DEF HandleOk
  <2> QED BY <2>1, <2>2 DEF SoleKnows
<1> QED BY <1>2, <1>3, <1>4 DEF WriterInv

\* A crash costs the process, and one write it may have been in.
LEMMA WriterCrash ==
  ASSUME LogInv, WriterInv, NEW p \in Procs, Log!Crash(p)
  PROVE  WriterInv'
<1>1. /\ drawn \in 0..MaxLogEntries /\ drawn \in Nat
      /\ handle' = [handle EXCEPT ![p] = Log!Closed] /\ sole' = sole \ {p}
      /\ drawn' = Log!Min({drawn + 1, MaxLogEntries})
  BY LogAssumption DEF LogInv, LogTypes, Log!Crash, Log!Gone
<1>2. /\ drawn < MaxLogEntries => drawn' = drawn + 1
      /\ drawn = MaxLogEntries => drawn' = drawn
  BY <1>1, NextDrawn
<1>3. drawn' \in Nat /\ drawn <= drawn'
  BY <1>1, <1>2, LogAssumption
<1>4. CASE handle[p].st = "new" /\ ~there
  <2>1. PICK how \in Log!Wrote : lines' = Log!Write(<<>>, Log!Header, how)
    BY <1>4 DEF Log!Crash
  <2> QED BY <1>1, <1>3, <1>4, <2>1, WriterHeader
<1>5. CASE handle[p].st \in {"header", "open"} /\ drawn < MaxLogEntries
  <2>1. \E how \in Log!Wrote : lines' = Log!Write(lines, Log!NewEntry(p, "message", Log!Root), how)
    BY <1>5 DEF Log!Crash
  <2>2. PICK how \in Log!Wrote :
          lines' = Log!Write(lines, Log!NewEntry(p, "message", Log!Root), how)
    BY <2>1
  <2>3. "message" \in EntryKinds /\ Log!Root \in 0..drawn
    BY <1>1 DEF EntryKinds, Log!Root
  <2> QED BY <1>1, <1>2, <1>5, <2>2, <2>3, WriterWritten
<1>6. CASE ~(handle[p].st = "new" /\ ~there)
           /\ ~(handle[p].st \in {"header", "open"} /\ drawn < MaxLogEntries)
  <2>1. lines' = lines
    BY <1>6 DEF Log!Crash
  <2> QED BY <1>1, <1>3, <2>1, WriterClosed
<1> QED BY <1>4, <1>5, <1>6

\* A load knows what it saw.
LEMMA WriterLoad ==
  ASSUME LogInv, WriterInv, NEW p \in Procs, Log!OpenLoad(p)
  PROVE  WriterInv'
<1> DEFINE h == [st |-> "loaded", seen |-> lines, leaf |-> Log!Leaf(lines),
                 branch |-> Log!ActiveBranch(lines)]
<1>1. /\ handle' = [handle EXCEPT ![p] = h] /\ UNCHANGED <<lines, drawn, sole>>
      /\ drawn \in Nat /\ FileSound(lines, drawn) /\ KeptLower(lines)
  BY WriterTypes DEF Log!OpenLoad
<1>2. BranchOk(h, drawn) /\ h.st = "loaded"
  <2>1. Log!ActiveBranch(lines) \in Seq(1..drawn)
    BY <1>1, ActiveClimbs
  <2> QED BY <1>1, <2>1 DEF BranchOk
<1> HIDE DEF h
<1>3. handle'[p] = h /\ \A q \in Procs \ {p} : handle'[q] = handle[q]
  BY <1>1, WriterTypes
<1>4. SoleKnows'
  <2>1. \A q \in sole : q \in Procs
    BY WriterTypes
  <2> QED BY <1>1, <1>2, <1>3, <2>1, WriterTypes DEF SoleKnows
<1>5. drawn <= drawn' /\ drawn' \in Nat
  BY <1>1
<1> QED BY <1>1, <1>2, <1>4, <1>5, WriterStep

\* The session is open: alone with the file, if it is the one that was loaded.
LEMMA WriterOpened ==
  ASSUME LogInv, WriterInv, NEW p \in Procs, handle[p].st = "loaded",
         handle' = [handle EXCEPT ![p].st = "open", ![p].seen = <<>>],
         lines' = Log!Terminated(p),
         sole' = IF Log!Alive = {} /\ handle[p].seen = lines THEN {p} ELSE {},
         UNCHANGED drawn
  PROVE  WriterInv'
<1> DEFINE h == [handle[p] EXCEPT !.st = "open", !.seen = <<>>]
<1>1. /\ drawn \in Nat /\ FileSound(lines, drawn) /\ KeptLower(lines)
      /\ HandleOk(handle[p], drawn) /\ BranchOk(handle[p], drawn)
  BY WriterTypes
<1>2. h.st = "open" /\ h.leaf = handle[p].leaf /\ h.branch = handle[p].branch
  <2> DEFINE g == handle[p]
  <2>1. g = [st |-> g.st, seen |-> g.seen, leaf |-> g.leaf, branch |-> g.branch]
    BY <1>1 DEF HandleOk
  <2> HIDE DEF g
  <2> DEFINE f == [g EXCEPT !.st = "open", !.seen = <<>>]
  <2>2. f.st = "open" /\ f.leaf = g.leaf /\ f.branch = g.branch
    BY <2>1
  <2> QED BY <2>2 DEF g
<1>3. handle' = [handle EXCEPT ![p] = h] /\ handle'[p] = h
  BY WriterTypes
<1> HIDE DEF h
<1>4. lines' \in {lines, Log!Newline(lines)}
  BY DEF Log!Terminated
<1>5. /\ KeptLower(lines') /\ Log!Leaf(lines') = Log!Leaf(lines)
      /\ Log!ActiveBranch(lines') = Log!ActiveBranch(lines)
  BY <1>1, <1>4, NewlineKnown
<1>6. BranchOk(h, drawn')
  BY <1>1, <1>2 DEF BranchOk
<1>7. SoleKnows'
  <2>1. SUFFICES ASSUME handle[p].seen = lines, sole' = {p} PROVE SoleKnows'
    BY DEF SoleKnows
  <2>2. h.leaf = Log!Leaf(lines) /\ h.branch = Log!ActiveBranch(lines)
    BY <1>1, <1>2, <2>1 DEF BranchOk
  <2> QED BY <1>3, <1>5, <2>1, <2>2 DEF SoleKnows
<1>8. drawn' \in Nat /\ drawn <= drawn'
  BY <1>1
<1> QED BY <1>3, <1>5, <1>6, <1>7, <1>8, WriterStep

LEMMA WriterInit == ASSUME Log!Init PROVE WriterInv
<1>1. /\ lines = <<>> /\ drawn = 0 /\ sole = {} /\ handle = [p \in Procs |-> Log!Closed]
  BY DEF Log!Init
<1>2. KeptLower(lines)
  <2>1. Len(<<>>) = 0
    OBVIOUS
  <2> QED BY <1>1, <2>1 DEF KeptLower
<1>3. BranchOk(Log!Closed, 0)
  BY ClosedBranch
<1> QED BY <1>1, <1>2, <1>3 DEF WriterInv, SoleKnows

LEMMA WriterMoves ==
  ASSUME LogInv, WriterInv, NEW p \in Procs,
         \/ Log!Create(p) \/ Log!FirstWriteHeader(p) \/ Log!FirstWriteLine(p)
         \/ \E kind \in {"message", "compaction"}, kept \in 0..MaxLogEntries :
              Log!AppendEntry(p, kind, kept)
         \/ Log!Close(p) \/ Log!Crash(p)
         \/ Log!OpenLoad(p) \/ Log!OpenRefused(p) \/ Log!OpenLock(p)
  PROVE  WriterInv'
<1>1. drawn \in Nat /\ drawn <= drawn /\ KeptLower(lines)
  BY WriterTypes
<1>2. "message" \in EntryKinds /\ Log!Root \in 0..drawn
  BY <1>1 DEF EntryKinds, Log!Root
<1>3. CASE Log!Create(p)
  <2> DEFINE h == [Log!Closed EXCEPT !.st = "new"]
  <2>1. /\ handle' = [handle EXCEPT ![p] = h] /\ sole' = {p} /\ UNCHANGED <<lines, drawn>>
    BY <1>3 DEF Log!Create
  <2>2. BranchOk(h, drawn) /\ h.st = "new"
    BY <1>1, ClosedBranch, ClosedOk
  <2> HIDE DEF h
  <2>3. handle'[p].st = "new"
    BY <2>1, <2>2, WriterTypes
  <2>4. SoleKnows'
    BY <2>1, <2>3 DEF SoleKnows
  <2> QED BY <1>1, <2>1, <2>2, <2>4, WriterStep
<1>4. CASE Log!FirstWriteHeader(p)
  <2>1. handle[p].st = "new" /\ UNCHANGED <<drawn, sole>>
    BY <1>4 DEF Log!FirstWriteHeader
  <2>2. CASE lines' = <<Log!Header>> /\ handle' = [handle EXCEPT ![p].st = "header"]
    <3>1. "all" \in Log!Wrote /\ lines' = Log!Write(<<>>, Log!Header, "all")
      BY <2>2, HeaderWritten DEF Log!Wrote
    <3> QED BY <1>1, <2>1, <2>2, <3>1, WriterHeader
  <2>3. CASE UNCHANGED <<lines, handle>>
    BY <2>1, <2>3 DEF WriterInv, SoleKnows
  <2> QED BY <1>4, <2>2, <2>3 DEF Log!FirstWriteHeader
<1>5. CASE Log!FirstWriteLine(p)
  <2>1. handle[p].st = "header" /\ drawn' = drawn + 1 /\ UNCHANGED sole
    BY <1>5 DEF Log!FirstWriteLine
  <2>2. CASE /\ lines' = Log!Write(lines, Log!NewEntry(p, "message", Log!Root), "all")
             /\ Log!Appended(p, Log!NewEntry(p, "message", Log!Root))
    BY <1>2, <2>1, <2>2, WriterAppended
  <2>3. CASE /\ lines' = <<>>
             /\ handle' = [q \in Procs |->
                  CASE q = p -> [handle[p] EXCEPT !.st = "new"]
                    [] handle[q].st = "open" -> [handle[q] EXCEPT !.st = "unlinked"]
                    [] OTHER -> handle[q]]
    BY <2>1, <2>3, WriterRemoved
  <2> QED BY <1>5, <2>2, <2>3 DEF Log!FirstWriteLine
<1>6. ASSUME NEW kind \in {"message", "compaction"}, NEW kept \in 0..MaxLogEntries,
             Log!AppendEntry(p, kind, kept)
      PROVE  WriterInv'
  <2>1. handle[p].st = "open" /\ drawn' = drawn + 1 /\ kind \in EntryKinds
    BY <1>6 DEF Log!AppendEntry, EntryKinds
  <2>2. kept \in 0..drawn
    <3>1. kept \in Nat /\ Log!MayDraw(p, kind, kept)
      BY <1>6, LogAssumption DEF Log!AppendEntry
    <3> QED BY <3>1, DrawnBefore
  <2>3. CASE /\ lines' = Log!Write(lines, Log!NewEntry(p, kind, kept), "all")
             /\ Log!Appended(p, Log!NewEntry(p, kind, kept)) /\ UNCHANGED sole
    BY <2>1, <2>2, <2>3, WriterAppended
  <2>4. CASE /\ \E how \in Log!Wrote : lines' = Log!Write(lines, Log!NewEntry(p, kind, kept), how)
             /\ sole' = {} /\ UNCHANGED handle
    <3>1. PICK how \in Log!Wrote : lines' = Log!Write(lines, Log!NewEntry(p, kind, kept), how)
      BY <2>4
    <3> QED BY <2>1, <2>2, <2>4, <3>1, WriterWritten
  <2> QED BY <1>6, <2>3, <2>4 DEF Log!AppendEntry
<1>7. CASE Log!Close(p) \/ Log!OpenRefused(p)
  <2>1. /\ handle' = [handle EXCEPT ![p] = Log!Closed] /\ sole' \subseteq sole
        /\ UNCHANGED <<lines, drawn>>
    BY <1>7 DEF Log!Close, Log!OpenRefused, Log!Gone
  <2> QED BY <1>1, <2>1, WriterClosed
<1>8. CASE Log!OpenLock(p)
  <2>1. handle[p].st = "loaded" /\ UNCHANGED drawn
    BY <1>8 DEF Log!OpenLock
  <2>2. CASE /\ lines' = Log!Terminated(p)
             /\ handle' = [handle EXCEPT ![p].st = "open", ![p].seen = <<>>]
             /\ sole' = IF Log!Alive = {} /\ handle[p].seen = lines THEN {p} ELSE {}
    BY <2>1, <2>2, WriterOpened
  <2>3. CASE /\ lines' \in {lines, Log!Terminated(p)} /\ handle' = [handle EXCEPT ![p] = Log!Closed]
             /\ UNCHANGED sole
    <3>1. lines' \in {lines, Log!Newline(lines)}
      BY <2>3 DEF Log!Terminated
    <3> QED BY <1>1, <2>1, <2>3, <3>1, WriterClosed
  <2> QED BY <1>8, <2>2, <2>3 DEF Log!OpenLock
<1> QED BY <1>3, <1>4, <1>5, <1>6, <1>7, <1>8, WriterCrash, WriterLoad

LEMMA WriterNext ==
  ASSUME LogInv, WriterInv, Log!Next \/ UNCHANGED logVars
  PROVE  WriterInv'
<1>1. CASE Log!Next
  <2>1. PICK p \in Procs :
          \/ Log!Create(p) \/ Log!FirstWriteHeader(p) \/ Log!FirstWriteLine(p)
          \/ \E kind \in {"message", "compaction"}, kept \in 0..MaxLogEntries :
               Log!AppendEntry(p, kind, kept)
          \/ Log!Close(p) \/ Log!Crash(p)
          \/ Log!OpenLoad(p) \/ Log!OpenRefused(p) \/ Log!OpenLock(p)
    BY <1>1 DEF Log!Next
  <2> QED BY <2>1, WriterMoves
<1>2. CASE UNCHANGED logVars
  BY <1>2 DEF logVars, WriterInv, SoleKnows
<1> QED BY <1>1, <1>2

\* What a load builds is what the branch of the writer asks for.
LEMMA WriterContext == ASSUME LogInv, WriterInv PROVE Log!ContextOfWriter
<1>1. SUFFICES ASSUME NEW p \in sole, handle[p].st = "open"
               PROVE  /\ Log!Range(handle[p].branch) \subseteq DOMAIN Log!ById(lines)
                      /\ Log!Shows(Log!BuildContextEntries(lines), handle[p].branch,
                                   Log!ById(lines))
  BY DEF Log!ContextOfWriter
<1>2. handle[p].branch = Log!ActiveBranch(lines)
  BY <1>1, WriterTypes DEF SoleKnows
<1> QED BY <1>2, ContextIs, WriterTypes
=============================================================================
