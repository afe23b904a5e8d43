---------------------------- MODULE CredentialStore ----------------------------
(***************************************************************************)
(* auth.json, shared by processes (internal/authstore).  A process keeps   *)
(* the credentials it last read; a change takes the file lock, reads the   *)
(* file again, applies itself, and replaces the file by a renamed copy.    *)
(* The kernel releases the lock of a process that dies.                    *)
(***************************************************************************)
EXTENDS Naturals, FiniteSets

CONSTANTS
  Procs,
  Providers,
  MaxChanges,  \* bound: changes begun
  MaxFaults    \* bound: crashes and failing file operations

VARIABLES
  file,      \* the credentials in auth.json: provider to number of the change
  lock,      \* the process that holds auth.json.lock, or "none"
  at,        \* where a process stands: "down", "idle", "locking", "locked", "applied"
  data,      \* the credentials a process has in memory
  change,    \* the change it is making: provider and value, 0 to remove it
  copy,      \* the content it is about to put in place
  succeeded, \* what the processes were told: provider to the last change that
             \* succeeded, or may have: one whose process died after the rename
  files,     \* every content the file has had
  changes, faults

vars == <<file, lock, at, data, change, copy, succeeded, files, changes, faults>>

\* Load: a process starts and reads the file, without the lock.
Load(p) ==
  /\ at[p] = "down" /\ at' = [at EXCEPT ![p] = "idle"]
  /\ data' = [data EXCEPT ![p] = file]
  /\ UNCHANGED <<file, lock, change, copy, succeeded, files, changes, faults>>

\* Set and Remove enter mutate.
Begin(p, provider, value) ==
  /\ at[p] = "idle" /\ changes < MaxChanges /\ changes' = changes + 1
  /\ at' = [at EXCEPT ![p] = "locking"]
  /\ change' = [change EXCEPT ![p] = [provider |-> provider, value |-> value]]
  /\ UNCHANGED <<file, lock, data, copy, succeeded, files, faults>>

AcquireFileLock(p) ==
  /\ at[p] = "locking" /\ lock = "none"
  /\ lock' = p /\ at' = [at EXCEPT ![p] = "locked"]
  /\ UNCHANGED <<file, data, change, copy, succeeded, files, changes, faults>>

\* MUTANT of Current: the change is applied to what the process remembers.
MutantCurrent(p) == data[p]

\* readStoreData under the lock.
Current(p) == file

Apply(p) ==
  /\ at[p] = "locked" /\ at' = [at EXCEPT ![p] = "applied"]
  /\ copy' = [copy EXCEPT ![p] = [Current(p) EXCEPT ![change[p].provider] = change[p].value]]
  /\ UNCHANGED <<file, lock, data, change, succeeded, files, changes, faults>>

\* writeStoreData renames the copy over the file, unless nothing changed; the
\* process remembers it.
Replace(p) ==
  /\ at[p] = "applied" /\ at' = [at EXCEPT ![p] = "releasing"]
  /\ file' = copy[p] /\ files' = files \union {copy[p]}
  /\ data' = [data EXCEPT ![p] = copy[p]]
  /\ succeeded' = [succeeded EXCEPT ![change[p].provider] = change[p].value]
  /\ UNCHANGED <<lock, change, copy, changes, faults>>

Release(p) ==
  /\ at[p] = "releasing" /\ lock' = "none" /\ at' = [at EXCEPT ![p] = "idle"]
  /\ UNCHANGED <<file, data, change, copy, succeeded, files, changes, faults>>

\* A file operation fails: the change reports an error and leaves no trace.
Fails(p) ==
  /\ at[p] \in {"locked", "applied"} /\ faults < MaxFaults /\ faults' = faults + 1
  /\ lock' = "none" /\ at' = [at EXCEPT ![p] = "idle"]
  /\ UNCHANGED <<file, data, change, copy, succeeded, files, changes>>

Crash(p) ==
  /\ at[p] # "down" /\ faults < MaxFaults /\ faults' = faults + 1
  /\ at' = [at EXCEPT ![p] = "down"]
  /\ lock' = IF lock = p THEN "none" ELSE lock
  /\ UNCHANGED <<file, data, change, copy, succeeded, files, changes>>

Init ==
  /\ file = [v \in Providers |-> 0] /\ lock = "none" /\ at = [p \in Procs |-> "down"]
  /\ data = [p \in Procs |-> file] /\ copy = data
  /\ change = [p \in Procs |-> [provider |-> CHOOSE v \in Providers : TRUE, value |-> 0]]
  /\ succeeded = file /\ files = {file} /\ changes = 0 /\ faults = 0

Next ==
  \E p \in Procs :
    \/ Load(p) \/ AcquireFileLock(p) \/ Apply(p) \/ Replace(p) \/ Release(p)
    \/ Fails(p) \/ Crash(p)
    \/ \E v \in Providers, value \in {0, changes + 1} : Begin(p, v, value)

Spec == Init /\ [][Next]_vars
-----------------------------------------------------------------------------
\* No change is lost to another process's, and none is half made: the file holds
\* the last change of every provider that succeeded, through crashes and failed
\* writes; the lock has one holder, who is making a change; and what a process
\* remembers is a content the file has had, its own last change included until
\* someone else's came after it.
CredentialsKept ==
  /\ file = succeeded
  /\ lock # "none" => at[lock] \in {"locked", "applied", "releasing"}
  /\ Cardinality({p \in Procs : at[p] \in {"locked", "applied", "releasing"}}) <= 1
  /\ \A p \in Procs : at[p] # "down" => data[p] \in files
  /\ \A p \in Procs : at[p] = "releasing" => data[p] = file
===============================================================================
