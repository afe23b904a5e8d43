------------------------------- MODULE HostJobs -------------------------------
(***************************************************************************)
(* The small components of the interactive host, side by side.  They share *)
(* no state here: Init picks one, and only that one moves.                 *)
(***************************************************************************)
EXTENDS Naturals, FiniteSets

CONSTANTS
  Changes, Kind,                          \* SessionController
  Jobs, TurnJobs, ChangeJobs,             \* TuiLifecycle
  Users,                                  \* CommandInvocation
  Calls, Lists, MaxRestarts, MaxGens,     \* McpClient
  MaxRequests, MaxForced, MaxSuspends,    \* RenderScheduler
  Dialogs, Logins                         \* ModalDialogs

\* A session change has a kind, and is none of the values that stand for no
\* change; so is a job of the worker.  A call is either a tool's or a list.
ASSUME HostJobsAssumption ==
  /\ \A c \in Changes : Kind[c] \in {"new", "open", "fork"}
  /\ Changes \cap {"start", "nobody", "free"} = {}
  /\ TurnJobs \subseteq Jobs /\ ChangeJobs \subseteq Jobs /\ IsFiniteSet(ChangeJobs)
  /\ "nothing" \notin Jobs
  /\ Calls \cap Lists = {}

VARIABLES
  component,
  \* SessionController
  step, prepMu, saved, current, bound, shut, inflight, closer, held, onDisk, committed,
  \* TuiLifecycle
  stopping, workCancelled, gate, pending, sessionChanges, worker, job, active, cancelled,
  main, submitted, ran,
  \* CommandInvocation
  valid, opCancelled, slot, wg, at, handler,
  \* McpClient
  gen, spawned, live, closed, stopped, exhausted, super, next, restarts, corrected, closeOnce,
  closing, callAt, on, attempt, asleep, answers, lost, outcome,
  \* RenderScheduler
  off, suspended, renderRequested, immediateScheduled, renderTimer, armed, fired, schedules,
  immediates, waiting, renderMu, forcing, forced, editor, stopper, requests, forcedRequests,
  suspends, owed,
  \* ModalDialogs
  dialogAt, released, settle, modalClosed, owner, queue, shownModal, sessions, overlays,
  focused, capture, searchActive, searchHandle, input, keyTarget, exit, activeEditor, swap,
  generation, restoring, seen

Controller == INSTANCE SessionController
Lifecycle == INSTANCE TuiLifecycle
Invocation == INSTANCE CommandInvocation WITH Callers <- Users
Mcp ==
  INSTANCE McpClient WITH closer <- closeOnce, at <- callAt, pending <- answers
Frames == INSTANCE RenderScheduler WITH stopped <- off
Modals ==
  INSTANCE ModalDialogs
    WITH Editors <- {}, MaxSwaps <- 0, at <- dialogAt, closed <- modalClosed, waiting <- queue,
         active <- shownModal, stack <- overlays, keys <- input, target <- keyTarget,
         editor <- activeEditor

controllerVars == <<step, prepMu, saved, current, bound, shut, inflight, closer, held,
                    onDisk, committed>>
lifecycleVars == <<stopping, workCancelled, gate, pending, sessionChanges, worker, job,
                   active, cancelled, main, submitted, ran>>
invocationVars == <<valid, opCancelled, slot, wg, at, handler>>
mcpVars == <<gen, spawned, live, closed, stopped, exhausted, super, next, restarts, corrected,
             closeOnce, closing, callAt, on, attempt, asleep, answers, lost, outcome>>
frameVars == <<off, suspended, renderRequested, immediateScheduled, renderTimer, armed, fired,
               schedules, immediates, waiting, renderMu, forcing, forced, editor, stopper,
               requests, forcedRequests, suspends, owed>>
modalVars == <<dialogAt, released, settle, modalClosed, owner, queue, shownModal, sessions,
               overlays, focused, capture, searchActive, searchHandle, input, keyTarget, exit,
               activeEditor, swap, generation, restoring, seen>>
vars == <<component, controllerVars, lifecycleVars, invocationVars, mcpVars, frameVars,
          modalVars>>

Init ==
  /\ component \in {"controller", "lifecycle", "invocation", "mcp", "frames", "modals"}
  /\ Controller!Init /\ Lifecycle!Init /\ Invocation!Init /\ Mcp!Init
  /\ Frames!Init /\ Modals!Init
  /\ component # "mcp" => ~corrected

Next ==
  /\ UNCHANGED component
  /\ IF component = "controller" THEN Controller!Next ELSE UNCHANGED controllerVars
  /\ IF component = "lifecycle" THEN Lifecycle!Next ELSE UNCHANGED lifecycleVars
  /\ IF component = "invocation" THEN Invocation!Next ELSE UNCHANGED invocationVars
  /\ IF component = "mcp" THEN Mcp!Next ELSE UNCHANGED mcpVars
  /\ IF component = "frames" THEN Frames!Next ELSE UNCHANGED frameVars
  /\ IF component = "modals" THEN Modals!Next ELSE UNCHANGED modalVars

On(name) == component = name

Spec ==
  /\ Init /\ [][Next]_vars
  /\ WF_controllerVars(On("controller") /\ Controller!CloseTakes)
  /\ WF_controllerVars(On("controller") /\ Controller!CloseEnds)
  /\ \A c \in Changes : WF_controllerVars(On("controller") /\ Controller!Step(c))
  /\ WF_lifecycleVars(On("lifecycle") /\ Lifecycle!Worker)
  /\ WF_lifecycleVars(On("lifecycle") /\ Lifecycle!Main)
  /\ WF_lifecycleVars(On("lifecycle") /\ Lifecycle!TurnCancelled /\ Lifecycle!CompleteTurn)
  /\ \A g \in Users : WF_invocationVars(On("invocation") /\ Invocation!Caller(g))
  /\ WF_invocationVars(On("invocation") /\ Invocation!CancelOperations)
  /\ WF_invocationVars(On("invocation") /\ Invocation!InvalidateReturns)
  /\ WF_mcpVars(On("mcp") /\ Mcp!Supervise) /\ WF_mcpVars(On("mcp") /\ Mcp!HandshakeEnds)
  /\ WF_mcpVars(On("mcp") /\ Mcp!Close)
  /\ \A c \in Calls \cup Lists : WF_mcpVars(On("mcp") /\ Mcp!Caller(c))
  /\ \A g \in 1..MaxGens : WF_mcpVars(On("mcp") /\ Mcp!Killed(g))
  /\ WF_frameVars(On("frames") /\ Frames!Runtime)
  /\ WF_modalVars(On("modals") /\ Modals!Runtime)

\* The handles, files and display of a session change stay consistent
\* (session_controller.go).
ControllerSafe == Controller!HandlesOwned /\ Controller!FilesStay /\ Controller!ShownIsCurrent

\* The worker's queue keeps its counts, its order and its interrupts.
LifecycleSafe == Lifecycle!LifecycleSafe

\* A command changes the session only while its handler runs.
ChangesWithin == Invocation!ChangesWithin

\* Callers of an MCP server are woken, answered once and given up once.
CallsKept == Mcp!CallsKept

\* What is closed ends: Close of the session controller, a TUI that is left,
\* the invalidation of a command, Close of an MCP client with every call under
\* way, and the shutdown of the dialogs.
ClosingEnds ==
  /\ Controller!CloseReturns /\ Lifecycle!LeavingEnds
  /\ Invocation!InvalidationEnds /\ Mcp!CloseEnds /\ Modals!ShutdownEnds

\* No frame is drawn over the external editor or the shell.
RenderBarrier == Frames!RenderBarrier

\* A request for a frame is merged with others but never lost.
RequestsRendered == Frames!RequestsRendered
===============================================================================
