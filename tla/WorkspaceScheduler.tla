------------------------- MODULE WorkspaceScheduler -------------------------
(***************************************************************************)
(* internal/gateway/scheduler.go: a turn runs only while its actor holds   *)
(* the gate of its workspace (one holder, first come first served) and one *)
(* of MaxActive slots of a semaphore shared by all workspaces.             *)
(*                                                                         *)
(* An actor is the goroutine that calls Acquire and Release.  A critical   *)
(* section under WorkspaceGate.mu is one step; what happens between two of *)
(* them (a receive from the waiter's channel, the choice of a select, a    *)
(* send to the semaphore) is a step of its own.                            *)
(***************************************************************************)
EXTENDS Integers, FiniteSets, Sequences, SequencesExt

CONSTANTS
  Actors,       \* the goroutines that acquire and release
  Workspaces,   \* the keys of Scheduler.gates
  MaxActive,    \* capacity of Scheduler.sem (NewScheduler raises it to 1)
  None

ASSUME SchedulerAssumption ==
  /\ IsFiniteSet(Actors)
  /\ None \notin Workspaces
  /\ MaxActive \in Nat \ {0}

VARIABLES
  busy,       \* WorkspaceGate.busy of each workspace
  wait,       \* WorkspaceGate.wait: the waiters whose channel is still open
  handed,     \* the waiters whose channel release has closed
  sem,        \* len(Scheduler.sem)
  stage,      \* where each actor stands in Acquire and Release
  ws,         \* the workspace an actor has called Acquire with, or None
  cancelled   \* the actors whose turn context is done

schedVars == <<busy, wait, handed, sem, stage, ws, cancelled>>

Stages == {"out", "gate", "handback", "remove", "sem", "refused",
           "in", "leave", "released"}

-----------------------------------------------------------------------------

SchedInit ==
  /\ busy = [w \in Workspaces |-> FALSE]
  /\ wait = [w \in Workspaces |-> <<>>]
  /\ handed = {}
  /\ sem = 0
  /\ stage = [a \in Actors |-> "out"]
  /\ ws = [a \in Actors |-> None]
  /\ cancelled = {}

MutantFreeGate(w) ==
  /\ busy' = [busy EXCEPT ![w] = FALSE]
  /\ UNCHANGED <<wait, handed>>

\* WorkspaceGate.release: the first waiter inherits the gate, which stays
\* busy; without a waiter the gate becomes free.
FreeGate(w) ==
  \/ /\ wait[w] # <<>>
     /\ handed' = handed \cup {Head(wait[w])}
     /\ wait' = [wait EXCEPT ![w] = Tail(@)]
     /\ busy' = busy
  \/ /\ wait[w] = <<>>
     /\ busy' = [busy EXCEPT ![w] = FALSE]
     /\ UNCHANGED <<wait, handed>>

\* The locked half of WorkspaceGate.acquire: take a free gate, or queue.
EnterGate(a, w) ==
  /\ stage[a] = "out"
  /\ ws' = [ws EXCEPT ![a] = w]
  /\ \/ /\ ~busy[w]
        /\ busy' = [busy EXCEPT ![w] = TRUE]
        /\ stage' = [stage EXCEPT ![a] = "sem"]
        /\ wait' = wait
     \/ /\ busy[w]
        /\ wait' = [wait EXCEPT ![w] = Append(@, a)]
        /\ stage' = [stage EXCEPT ![a] = "gate"]
        /\ busy' = busy
  /\ UNCHANGED <<handed, sem, cancelled>>

\* The waiter's channel is closed and its select chooses that case.
TakeHandover(a) ==
  /\ stage[a] = "gate"
  /\ a \in handed
  /\ handed' = handed \ {a}
  /\ stage' = [stage EXCEPT ![a] = "sem"]
  /\ UNCHANGED <<busy, wait, sem, ws, cancelled>>

MutantAbandonWait(a) ==
  /\ stage[a] = "gate"
  /\ a \in cancelled
  /\ handed' = handed \ {a}
  /\ stage' = [stage EXCEPT ![a] = "handback"]
  /\ UNCHANGED <<busy, wait, sem, ws, cancelled>>

\* The select chooses ctx.Done: the waiter looks at its channel once more.  A
\* gate it was handed must be released, otherwise it leaves the queue.
AbandonWait(a) ==
  /\ stage[a] = "gate"
  /\ a \in cancelled
  /\ \/ /\ a \in handed
        /\ handed' = handed \ {a}
        /\ stage' = [stage EXCEPT ![a] = "handback"]
     \/ /\ a \notin handed
        /\ handed' = handed
        /\ stage' = [stage EXCEPT ![a] = "remove"]
  /\ UNCHANGED <<busy, wait, sem, ws, cancelled>>

\* The release of a gate that was handed over too late.
HandBack(a) ==
  /\ stage[a] = "handback"
  /\ FreeGate(ws[a])
  /\ stage' = [stage EXCEPT ![a] = "refused"]
  /\ UNCHANGED <<sem, ws, cancelled>>

\* WorkspaceGate.remove, in a critical section of its own: between the look
\* at the channel and this step the gate may have been handed to the waiter.
LeaveQueue(a) ==
  /\ stage[a] = "remove"
  /\ \/ \E i \in 1..Len(wait[ws[a]]) :
          /\ wait[ws[a]][i] = a
          /\ wait' = [wait EXCEPT ![ws[a]] = RemoveAt(@, i)]
     \/ /\ ~Contains(wait[ws[a]], a)
        /\ wait' = wait
  /\ handed' = handed \ {a}
  /\ stage' = [stage EXCEPT ![a] = "refused"]
  /\ UNCHANGED <<busy, sem, ws, cancelled>>

MutantSemHasRoom == sem <= MaxActive
SemHasRoom == sem < MaxActive

\* Scheduler.Acquire: the send to the semaphore goes through.
EnterSem(a) ==
  /\ stage[a] = "sem"
  /\ SemHasRoom
  /\ sem' = sem + 1
  /\ stage' = [stage EXCEPT ![a] = "in"]
  /\ UNCHANGED <<busy, wait, handed, ws, cancelled>>

\* Scheduler.Acquire: ctx.Done is chosen instead, and the gate is released.
AbandonSem(a) ==
  /\ stage[a] = "sem"
  /\ a \in cancelled
  /\ FreeGate(ws[a])
  /\ stage' = [stage EXCEPT ![a] = "refused"]
  /\ UNCHANGED <<sem, ws, cancelled>>

\* Scheduler.Release: first the semaphore, then the gate.
LeaveSem(a) ==
  /\ stage[a] = "in"
  /\ sem' = sem - 1
  /\ stage' = [stage EXCEPT ![a] = "leave"]
  /\ UNCHANGED <<busy, wait, handed, ws, cancelled>>

LeaveGate(a) ==
  /\ stage[a] = "leave"
  /\ FreeGate(ws[a])
  /\ stage' = [stage EXCEPT ![a] = "released"]
  /\ UNCHANGED <<sem, ws, cancelled>>

\* The caller is done with the turn: its context goes with it.
Return(a) ==
  /\ stage[a] \in {"refused", "released"}
  /\ stage' = [stage EXCEPT ![a] = "out"]
  /\ ws' = [ws EXCEPT ![a] = None]
  /\ cancelled' = cancelled \ {a}
  /\ UNCHANGED <<busy, wait, handed, sem>>

\* Contexts of turns are cancelled: one by a request, all at shutdown.
CancelContexts(S) ==
  /\ cancelled' = cancelled \cup S
  /\ UNCHANGED <<busy, wait, handed, sem, stage, ws>>

\* NewScheduler in a new life of the process: nothing of the old one is left.
NewScheduler ==
  /\ busy' = [w \in Workspaces |-> FALSE]
  /\ wait' = [w \in Workspaces |-> <<>>]
  /\ handed' = {}
  /\ sem' = 0
  /\ stage' = [a \in Actors |-> "out"]
  /\ ws' = [a \in Actors |-> None]
  /\ cancelled' = {}

ActorStep(a) ==
  \/ \E w \in Workspaces : EnterGate(a, w)
  \/ TakeHandover(a)
  \/ AbandonWait(a)
  \/ HandBack(a)
  \/ LeaveQueue(a)
  \/ EnterSem(a)
  \/ AbandonSem(a)
  \/ LeaveSem(a)
  \/ LeaveGate(a)
  \/ Return(a)

SchedNext ==
  \/ \E a \in Actors : ActorStep(a)
  \/ \E S \in SUBSET Actors : CancelContexts(S)
  \/ NewScheduler

SchedSpec == SchedInit /\ [][SchedNext]_schedVars

-----------------------------------------------------------------------------
(* Properties                                                              *)

\* The types of the scheduler's variables.
SchedTypeOK ==
  /\ busy \in [Workspaces -> BOOLEAN]
  /\ wait \in [Workspaces -> Seq(Actors)]
  /\ handed \subseteq Actors
  /\ sem \in Nat
  /\ stage \in [Actors -> Stages]
  /\ ws \in [Actors -> Workspaces \cup {None}]
  /\ cancelled \subseteq Actors

\* The gate of ws[a] is in a's hands, from the moment release closes its
\* channel until it releases the gate itself.
Holds(a) ==
  \/ stage[a] \in {"sem", "in", "leave", "handback"}
  \/ stage[a] \in {"gate", "remove"} /\ a \in handed

\* No two actors are past the gate of one workspace, from acquire to release,
\* so that no two turns of it overlap, whoever gives up while waiting
\* (WorkspaceGate.acquire, release and remove).
MutualExclusion ==
  \A a, b \in Actors :
    /\ {stage[a], stage[b]} \subseteq {"sem", "in", "leave"}
    /\ ws[a] = ws[b]
    => a = b

\* At most MaxActive turns run at once over all workspaces, also when a
\* waiter gives up between the gate and the semaphore.
ActiveCap == Cardinality({a \in Actors : stage[a] = "in"}) <= MaxActive

\* A gate that is marked busy is in somebody's hands, who will pass it on:
\* the workspace can always be used again after a cancelled waiter.
GateHasHolder ==
  \A w \in Workspaces : busy[w] => \E a \in Actors : ws[a] = w /\ Holds(a)
=============================================================================
