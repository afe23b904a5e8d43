----------------------------- MODULE TuiLifecycle -----------------------------
(***************************************************************************)
(* The one worker of the TUI and what surrounds it: the queue of jobs that *)
(* submit and the host append to, the gate that holds jobs back until the  *)
(* extensions have started, the count of session changes that wait, the    *)
(* turn an interrupt cancels, and shutdown from three directions: the end  *)
(* of the program, its context, and a job that panics                      *)
(* (internal/cli/tui_bridge.go).                                           *)
(*                                                                         *)
(* A job is a turn, a session change or anything else.  A turn ends when   *)
(* the model answers, which it need not do, or once it is cancelled.       *)
(***************************************************************************)
EXTENDS Naturals, Sequences, FiniteSets, SequencesExt

CONSTANTS Jobs,       \* the jobs that may be submitted
          TurnJobs,   \* those that run a turn
          ChangeJobs  \* those that change the session

Nothing == "nothing"

VARIABLES
  stopping, workCancelled, \* beginShutdown happened; cancelWork happened
  gate,                    \* "held" until the extensions have started
  pending,                 \* jobs, in the order of their submission
  sessionChanges,          \* session changes submitted and not finished
  worker, job,             \* where the worker is, and with which job
  active, cancelled,       \* the turn an interrupt reaches; its jobs cancelled
  main,                    \* the goroutine of runTUI
  submitted, ran           \* jobs ever accepted, and jobs started, in order

vars == <<stopping, workCancelled, gate, pending, sessionChanges, worker, job,
          active, cancelled, main, submitted, ran>>

Init ==
  /\ stopping = FALSE /\ workCancelled = FALSE /\ gate = "held"
  /\ pending = << >> /\ sessionChanges = 0
  /\ worker = "next" /\ job = Nothing
  /\ active = Nothing /\ cancelled = {} /\ main = "startup"
  /\ submitted = << >> /\ ran = << >>

-----------------------------------------------------------------------------
Counted(j) == IF j \in ChangeJobs THEN 1 ELSE 0

\* A key press, or the host, gives the worker a job; a stopped one refuses it.
Submit(j) ==
  /\ j \notin Range(submitted) /\ ~stopping
  /\ pending' = Append(pending, j) /\ submitted' = Append(submitted, j)
  /\ sessionChanges' = sessionChanges + Counted(j)
  /\ UNCHANGED <<stopping, workCancelled, gate, worker, job, active, cancelled, main, ran>>

CancelTurn ==
  /\ active' = Nothing
  /\ cancelled' = cancelled \cup ({active} \ {Nothing})

Interrupt ==
  /\ active # Nothing /\ CancelTurn
  /\ UNCHANGED <<stopping, workCancelled, gate, pending, sessionChanges, worker,
                 job, main, submitted, ran>>

BeginShutdown ==
  /\ stopping' = TRUE /\ pending' = << >>
  /\ CancelTurn

\* The worker: take a job, wait for admission, run it.
WorkerNext ==
  /\ worker = "next"
  /\ \/ /\ pending # << >>
        /\ job' = Head(pending) /\ pending' = Tail(pending) /\ worker' = "admit"
     \/ /\ pending = << >> /\ stopping
        /\ worker' = "done" /\ UNCHANGED <<job, pending>>
  /\ UNCHANGED <<stopping, workCancelled, gate, sessionChanges, active, cancelled,
                 main, submitted, ran>>

\* The look at gate and stopping, and the wait: a gate that opens and a stop may
\* both be ready, and then either is taken.
AwaitAdmission ==
  /\ worker = "admit"
  /\ worker' = IF stopping THEN "done" ELSE IF gate = "open" THEN "run" ELSE "gated"
  /\ UNCHANGED <<stopping, workCancelled, gate, pending, sessionChanges, job, active,
                 cancelled, main, submitted, ran>>

Gated ==
  /\ worker = "gated"
  /\ \/ gate = "open" /\ worker' = "run"
     \/ stopping /\ worker' = "done"
  /\ UNCHANGED <<stopping, workCancelled, gate, pending, sessionChanges, job, active,
                 cancelled, main, submitted, ran>>

RunJob ==
  /\ worker = "run"
  /\ ran' = Append(ran, job)
  /\ IF job \in TurnJobs THEN worker' = "reload" ELSE worker' = "job"
  /\ UNCHANGED <<stopping, workCancelled, gate, pending, sessionChanges, job, active,
                 cancelled, main, submitted>>

\* A turn reloads the session before an interrupt can reach it.
TrackTurn ==
  /\ worker = "reload"
  /\ active' = job /\ worker' = "turn"
  /\ UNCHANGED <<stopping, workCancelled, gate, pending, sessionChanges, job, cancelled,
                 main, submitted, ran>>

\* MUTANT of TurnCancelled: a turn outlives the context of the worker.
MutantTurnCancelled == job \in cancelled
TurnCancelled == job \in cancelled \/ workCancelled

CompleteTurn ==
  /\ worker = "turn"
  /\ active' = IF active = job THEN Nothing ELSE active
  /\ worker' = "job"
  /\ UNCHANGED <<stopping, workCancelled, gate, pending, sessionChanges, job, cancelled,
                 main, submitted, ran>>

\* MUTANT of FinishSessionChange: a failed or finished change still counts.
MutantFinishSessionChange(j) == sessionChanges

FinishSessionChange(j) == IF j \in ChangeJobs /\ sessionChanges > 0 THEN sessionChanges - 1
                          ELSE sessionChanges

JobEnds ==
  /\ worker = "job"
  /\ sessionChanges' = FinishSessionChange(job)
  /\ worker' = "next" /\ job' = Nothing
  /\ UNCHANGED <<stopping, workCancelled, gate, pending, active, cancelled, main,
                 submitted, ran>>

\* A panic unwinds the turn, stops the lifecycle and asks the program to exit.
JobPanics ==
  /\ worker \in {"reload", "turn", "job"}
  /\ BeginShutdown
  /\ worker' = "next" /\ job' = Nothing
  /\ main' = IF main \in {"startup", "serving"} THEN "leaving" ELSE main
  /\ UNCHANGED <<workCancelled, gate, sessionChanges, submitted, ran>>

-----------------------------------------------------------------------------
\* runTUI: the start of the extensions opens the gate, or fails; the exit of the
\* screen or the end of the context leaves; then shutdown and wait.
StartupDone ==
  /\ main = "startup" /\ main' = "serving"
  /\ gate' \in {"open", "held"}
  /\ UNCHANGED <<stopping, workCancelled, pending, sessionChanges, worker, job, active,
                 cancelled, submitted, ran>>

Leave ==
  /\ main \in {"startup", "serving"} /\ main' = "leaving"
  /\ UNCHANGED <<stopping, workCancelled, gate, pending, sessionChanges, worker, job,
                 active, cancelled, submitted, ran>>

Shutdown ==
  /\ main = "leaving" /\ main' = "cancelling"
  /\ BeginShutdown
  /\ UNCHANGED <<workCancelled, gate, sessionChanges, worker, job, submitted, ran>>

CancelWork ==
  /\ main = "cancelling" /\ main' = "waiting"
  /\ workCancelled' = TRUE
  /\ UNCHANGED <<stopping, gate, pending, sessionChanges, worker, job, active, cancelled,
                 submitted, ran>>

Wait ==
  /\ main = "waiting" /\ worker = "done" /\ main' = "done"
  /\ UNCHANGED <<stopping, workCancelled, gate, pending, sessionChanges, worker, job,
                 active, cancelled, submitted, ran>>

Worker == WorkerNext \/ AwaitAdmission \/ Gated \/ RunJob \/ TrackTurn \/ JobEnds
Main == Shutdown \/ CancelWork \/ Wait
Next ==
  \/ \E j \in Jobs : Submit(j)
  \/ Interrupt \/ CompleteTurn \/ JobPanics \/ StartupDone \/ Leave
  \/ Worker \/ Main

\* Goroutines run on; a turn surely ends only once it is cancelled.
Fair == /\ WF_vars(Worker) /\ WF_vars(Main)
        /\ WF_vars(TurnCancelled /\ CompleteTurn)
Spec == Init /\ [][Next]_vars /\ Fair

-----------------------------------------------------------------------------
(***************************************************************************)
(* While the program serves, sessionChanges is the number of session       *)
(* changes that wait or run.  The stop boundary of a turn asks it whether  *)
(* typed messages still belong to this session (tui_bridge.go:1055).       *)
(***************************************************************************)
ChangesCounted ==
  ~stopping => sessionChanges =
    Cardinality({j \in ChangeJobs : j \in Range(pending) \/ j = job})

\* An interrupt reaches the turn that runs, never one that is over.
InterruptReaches == active # Nothing => worker = "turn" /\ active = job

\* Jobs run in the order of their submission, none before the gate opens.
AdmittedInOrder ==
  /\ ran # << >> => gate = "open"
  /\ IsPrefix(ran, submitted)

LifecycleSafe == ChangesCounted /\ InterruptReaches /\ AdmittedInOrder

(***************************************************************************)
(* The program always gets out: once it leaves, the worker ends, whether   *)
(* it waits for a job, at the gate, is about to start a turn that nobody   *)
(* can cancel yet, or runs one the model never answers.                    *)
(***************************************************************************)
LeavingEnds == main = "leaving" ~> main = "done"
===============================================================================
