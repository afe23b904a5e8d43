----------------------------- MODULE StoredData -----------------------------
(*****************************************************************************)
(* The components that keep files which several processes share, side by     *)
(* side: they share no state here.                                           *)
(*****************************************************************************)
EXTENDS Naturals, Sequences, FiniteSets

CONSTANTS
  Procs,                                     \* the processes that share files
  MaxLogEntries, MaxLogFaults,               \* SessionLog
  Packages, Deps, MaxCommands, MaxCrashes,   \* PackageStore
  Providers, MaxChanges, MaxFileFaults       \* CredentialStore

\* A bound on the entries that are drawn.
ASSUME LogAssumption == MaxLogEntries \in Nat

\* There is a package to name.
ASSUME StoreAssumption == Packages # {}

\* No process is called as if nobody held the lock.
ASSUME CredentialAssumption == "none" \notin Procs

VARIABLES
  \* SessionLog
  there, lines, sessionLock, handle, drawn, faults, sole, acked,
  \* PackageStore
  installed, active, dir, lock, stale, at, op, target, todo, snap, commands, crashes,
  damaged, overlap,
  \* CredentialStore
  file, fileLock, place, data, change, copy, succeeded, files, changes, ioFaults

Log ==
  INSTANCE SessionLog
    WITH Strict <- FALSE, MaxEntries <- MaxLogEntries, MaxFaults <- MaxLogFaults,
         lock <- sessionLock
Store == INSTANCE PackageStore
Credentials ==
  INSTANCE CredentialStore
    WITH MaxFaults <- MaxFileFaults, lock <- fileLock, at <- place, faults <- ioFaults

logVars == <<there, lines, sessionLock, handle, drawn, faults, sole, acked>>
storeVars == <<installed, active, dir, lock, stale, at, op, target, todo, snap, commands,
               crashes, damaged, overlap>>
credentialVars == <<file, fileLock, place, data, change, copy, succeeded, files, changes,
                    ioFaults>>
=============================================================================
