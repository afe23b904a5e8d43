------------------------------ MODULE PackageStore ------------------------------
(***************************************************************************)
(* The package store that several smidja processes share                   *)
(* (internal/packages): index.json read and replaced as a whole under a    *)
(* lock file, directories that are staged, renamed into place and given a  *)
(* receipt, and the commands of internal/cli/pkg.go over it.  A process    *)
(* may fail at each step, or be killed with the lock file in place; a lock *)
(* older than StaleLockAge is removed by whoever finds it.                 *)
(***************************************************************************)
EXTENDS Naturals, FiniteSets

CONSTANTS Procs, Packages,
          Deps,        \* [Packages -> SUBSET Packages], the recorded closure
          MaxCommands, \* bound: commands started
          MaxCrashes   \* bound: processes killed

Nobody == "nobody"

VARIABLES
  installed, active, \* index.json
  dir,               \* of a package: "none", "tree" or "whole" (with its receipt)
  lock, stale,       \* who created the lock file; it is older than StaleLockAge
  at, op, target,    \* of a process: its step, its command, its package
  todo,              \* packages an install still has to install, after Resolve
  snap,              \* the index a process read under the lock
  commands, crashes, \* commands started, processes killed
  damaged,           \* packages a cut or failed command left behind
  overlap            \* two processes were in the store at once

vars == <<installed, active, dir, lock, stale, at, op, target, todo, snap, commands,
          crashes, damaged, overlap>>
index == <<installed, active>>
faults == <<commands, crashes, damaged>>

Empty == [installed |-> {}, active |-> {}]

Init ==
  /\ installed = {} /\ active = {} /\ dir = [q \in Packages |-> "none"]
  /\ lock = Nobody /\ stale = FALSE
  /\ at = [p \in Procs |-> "idle"] /\ op = [p \in Procs |-> "none"]
  /\ target = [p \in Procs |-> CHOOSE q \in Packages : TRUE]
  /\ todo = [p \in Procs |-> {}] /\ snap = [p \in Procs |-> Empty]
  /\ commands = 0 /\ crashes = 0 /\ damaged = {} /\ overlap = FALSE

Goto(p, from, to) == at[p] = from /\ at' = [at EXCEPT ![p] = to]
Forget(p) ==
  /\ op' = [op EXCEPT ![p] = "none"] /\ todo' = [todo EXCEPT ![p] = {}]
  /\ snap' = [snap EXCEPT ![p] = Empty]
  /\ target' = [target EXCEPT ![p] = CHOOSE q \in Packages : TRUE]
Inside == {p \in Procs : at[p] \in {"read", "checked", "moved", "index", "unlock"}}

-----------------------------------------------------------------------------
(* Commands.  An install resolves the dependencies before it takes the lock  *)
(* for each package it misses, dependencies first.                           *)

Begin(p, o, q) ==
  /\ Goto(p, "idle", "lock")
  /\ commands < MaxCommands /\ commands' = commands + 1
  /\ op' = [op EXCEPT ![p] = o]
  /\ todo' = [todo EXCEPT ![p] = IF o = "install" THEN (Deps[q] \ installed) \cup {q} ELSE {q}]
  /\ target' = [target EXCEPT ![p] = q]
  /\ UNCHANGED <<index, dir, lock, stale, snap, crashes, damaged, overlap>>

\* The package at hand: of several to install, one whose dependencies are done.
Chosen(p, q) == q \in todo[p] /\ Deps[q] \cap todo[p] = {}

\* O_CREATE|O_EXCL; the lock of another process, unless stale, ends the command.
Acquired(p, q) ==
  /\ lock' = p /\ stale' = FALSE
  /\ target' = [target EXCEPT ![p] = q]
  /\ overlap' = (overlap \/ Inside # {})

AcquireLock(p, q) ==
  /\ lock = Nobody /\ Chosen(p, q) /\ Goto(p, "lock", "read") /\ Acquired(p, q)
  /\ UNCHANGED <<index, dir, op, todo, snap, faults>>

Locked(p) ==
  /\ lock # Nobody /\ Goto(p, "lock", IF stale THEN "steal" ELSE "idle")
  /\ IF stale THEN UNCHANGED <<op, target, todo, snap>> ELSE Forget(p)
  /\ UNCHANGED <<index, dir, lock, stale, faults, overlap>>

\* acquireLock removes the file it found stale, or the one that is there by now.
RemoveStale(p) ==
  /\ Goto(p, "steal", "relock") /\ lock' = Nobody /\ stale' = FALSE
  /\ UNCHANGED <<index, dir, op, target, todo, snap, faults, overlap>>

RelockLoses(p) ==
  /\ lock # Nobody /\ Goto(p, "relock", "idle") /\ Forget(p)
  /\ UNCHANGED <<index, dir, lock, stale, faults, overlap>>

Relock(p, q) ==
  /\ lock = Nobody /\ Chosen(p, q) /\ Goto(p, "relock", "read") /\ Acquired(p, q)
  /\ UNCHANGED <<index, dir, op, todo, snap, faults>>

-----------------------------------------------------------------------------
(* Under the lock.                                                           *)

Dependents(q) == {r \in installed : q \in Deps[r]}

\* MUTANT of Allowed: an active package may be removed.
MutantAllowed(p) ==
  LET q == target[p] IN
  CASE op[p] = "install"    -> q \notin installed /\ dir[q] = "none"
    [] op[p] = "activate"   -> q \in installed /\ q \notin active
                               /\ \A r \in active \cup Deps[q] \cup {q} :
                                    /\ r \in installed
                                    /\ Deps[r] \subseteq active \cup Deps[q] \cup {q}
    [] op[p] = "deactivate" -> q \in active
    [] op[p] = "remove"     -> q \in installed /\ Dependents(q) = {}

\* What the command wants of the index and of the directory before it acts.
Allowed(p) ==
  LET q == target[p] IN
  CASE op[p] = "install"    -> q \notin installed /\ dir[q] = "none"
    [] op[p] = "activate"   -> q \in installed /\ q \notin active
                               /\ \A r \in active \cup Deps[q] \cup {q} :
                                    /\ r \in installed
                                    /\ Deps[r] \subseteq active \cup Deps[q] \cup {q}
    [] op[p] = "deactivate" -> q \in active
    [] op[p] = "remove"     -> q \in installed \ active /\ Dependents(q) = {}

ReadIndex(p) ==
  /\ Goto(p, "read", IF ~Allowed(p) THEN "unlock"
                     ELSE IF op[p] \in {"install", "remove"} THEN "checked" ELSE "index")
  /\ snap' = [snap EXCEPT ![p] = [installed |-> installed, active |-> active]]
  /\ todo' = IF Allowed(p) THEN todo ELSE [todo EXCEPT ![p] = {}]
  /\ UNCHANGED <<index, dir, lock, stale, op, target, faults, overlap>>

\* Fetching, unpacking and checking happen in .staging, which is removed again.
StagingFails(p) ==
  /\ op[p] = "install" /\ Goto(p, "checked", "unlock") /\ todo' = [todo EXCEPT ![p] = {}]
  /\ UNCHANGED <<index, dir, lock, stale, op, target, snap, faults, overlap>>

MoveIntoPlace(p) ==
  /\ op[p] = "install" /\ dir[target[p]] = "none" /\ Goto(p, "checked", "moved")
  /\ dir' = [dir EXCEPT ![target[p]] = "tree"]
  /\ UNCHANGED <<index, lock, stale, op, target, todo, snap, faults, overlap>>

WriteReceipt(p) ==
  /\ Goto(p, "moved", "index") /\ dir' = [dir EXCEPT ![target[p]] = "whole"]
  /\ UNCHANGED <<index, lock, stale, op, target, todo, snap, faults, overlap>>

RemoveAll(p) ==
  /\ op[p] = "remove" /\ Goto(p, "checked", "index")
  /\ dir' = [dir EXCEPT ![target[p]] = "none"]
  /\ UNCHANGED <<index, lock, stale, op, target, todo, snap, faults, overlap>>

Updated(p) ==
  LET q == target[p] s == snap[p] IN
  CASE op[p] = "install"    -> [s EXCEPT !.installed = @ \cup {q}]
    [] op[p] = "activate"   -> [s EXCEPT !.active = @ \cup Deps[q] \cup {q}]
    [] op[p] = "deactivate" -> [s EXCEPT !.active = @ \ {q}]
    [] op[p] = "remove"     -> [s EXCEPT !.installed = @ \ {q}]

\* writeIndex: a temporary file renamed over index.json.
WriteIndex(p) ==
  /\ Goto(p, "index", "unlock")
  /\ installed' = Updated(p).installed /\ active' = Updated(p).active
  /\ todo' = [todo EXCEPT ![p] = @ \ {target[p]}]
  /\ UNCHANGED <<dir, lock, stale, op, target, snap, faults, overlap>>

\* A step after the directory changed fails: nothing is undone.
Fails(p) ==
  /\ at[p] \in {"moved", "index"} /\ at' = [at EXCEPT ![p] = "unlock"]
  /\ damaged' = IF op[p] \in {"install", "remove"} THEN damaged \cup {target[p]} ELSE damaged
  /\ todo' = [todo EXCEPT ![p] = {}]
  /\ UNCHANGED <<index, dir, lock, stale, op, target, snap, commands, crashes, overlap>>

\* The release removes the file at that path, whoever created it.
Unlock(p) ==
  /\ Goto(p, "unlock", IF todo[p] = {} THEN "idle" ELSE "lock")
  /\ lock' = Nobody /\ stale' = FALSE
  /\ IF todo[p] = {} THEN Forget(p) ELSE UNCHANGED <<op, target, todo, snap>>
  /\ UNCHANGED <<index, dir, faults, overlap>>

-----------------------------------------------------------------------------
\* The process is killed; its lock file stays.  The next one starts idle.
Crash(p) ==
  /\ at[p] # "idle" /\ crashes < MaxCrashes
  /\ crashes' = crashes + 1 /\ at' = [at EXCEPT ![p] = "idle"]
  /\ Forget(p)
  /\ damaged' = IF at[p] \in {"moved", "index"} /\ op[p] \in {"install", "remove"}
                THEN damaged \cup {target[p]} ELSE damaged
  /\ UNCHANGED <<index, dir, lock, stale, commands, overlap>>

\* Ten minutes pass: an orphan, or the lock of a fetch that takes that long.
LockAges ==
  /\ lock # Nobody /\ ~stale /\ stale' = TRUE
  /\ UNCHANGED <<index, dir, lock, at, op, target, todo, snap, faults, overlap>>

Next ==
  \/ \E p \in Procs :
       \/ \E o \in {"install", "activate", "deactivate", "remove"}, q \in Packages : Begin(p, o, q)
       \/ \E q \in Packages : AcquireLock(p, q) \/ Relock(p, q)
       \/ Locked(p) \/ RemoveStale(p) \/ RelockLoses(p) \/ ReadIndex(p)
       \/ StagingFails(p) \/ MoveIntoPlace(p) \/ WriteReceipt(p) \/ RemoveAll(p)
       \/ WriteIndex(p) \/ Fails(p) \/ Unlock(p) \/ Crash(p)
  \/ LockAges

Spec == Init /\ [][Next]_vars

-----------------------------------------------------------------------------
(* Properties.                                                               *)

Working(q) == \E p \in Inside : target[p] = q /\ at[p] \in {"moved", "index"}

(***************************************************************************)
(* As long as no stolen lock let two processes in at once, the index and   *)
(* the directories tell the same story, except for the package a process   *)
(* works on and those a cut or failed command left behind; and whatever is *)
(* active is installed (Install, Remove, Activate, acquireLock).           *)
(***************************************************************************)
StoreConsistent ==
  ~overlap =>
    /\ \A q \in Packages \ damaged :
         Working(q) \/ (q \in installed <=> dir[q] = "whole")
    /\ active \subseteq installed
    /\ Cardinality(Inside) <= 1
===============================================================================
