---------------------------- MODULE RenderScheduler ----------------------------
(***************************************************************************)
(* When the screen is drawn (internal/tui, component.go): any goroutine    *)
(* asks for a frame; requests are merged, a timer spaces the frames, and   *)
(* forced ones go at once.  The external editor suspends the screen and    *)
(* resumes it, and the runner stops it.  b.mu guards the flags, for one    *)
(* action at a time here; renderMu is held while a frame is drawn.         *)
(* time.Timer.Stop does not stop a callback that has fired.                *)
(***************************************************************************)
EXTENDS Naturals, FiniteSets

CONSTANTS
  MaxRequests,  \* bound: plain requests
  MaxForced,    \* bound: forced requests, and calls of RenderNow
  MaxSuspends   \* bound: visits to the external editor

VARIABLES
  stopped, suspended, renderRequested, immediateScheduled,
  renderTimer,  \* "nil", or what became of the timer it names: "armed", "fired"
  armed,        \* timers that may still fire
  fired,        \* callbacks of timers that wait for b.mu
  schedules,    \* AfterFunc(0, scheduleRender) under way
  immediates,   \* callbacks of requestImmediateRender under way
  waiting,      \* renders past b.mu that wait for renderMu, by kind
  renderMu,     \* "free", the kind of the frame it is held for, or "resume"
  forcing,      \* forced requests before resetUnderBarrier
  forced,       \* forced requests in requestImmediateRender, by step
  editor,       \* SuspendScreen and ResumeScreen, step by step
  stopper,      \* Stop, step by step
  requests, forcedRequests, suspends,
  owed          \* a request asked for a frame that has not begun since

vars == <<stopped, suspended, renderRequested, immediateScheduled, renderTimer, armed, fired,
          schedules, immediates, waiting, renderMu, forcing, forced, editor, stopper,
          requests, forcedRequests, suspends, owed>>
flags == <<stopped, suspended, renderRequested>>
timers == <<renderTimer, armed, fired>>
threads == <<forcing, forced, editor, stopper>>
counts == <<requests, forcedRequests, suspends>>

Kinds == {"timer", "immediate", "now"}
Off == stopped \/ suspended

\* cancelRenderTimerLocked
CancelTimer ==
  /\ renderTimer' = "nil"
  /\ armed' = IF renderTimer = "armed" THEN armed - 1 ELSE armed
  /\ UNCHANGED fired

\* RequestRender(false)
Request ==
  /\ requests < MaxRequests /\ requests' = requests + 1
  /\ IF renderRequested \/ suspended THEN UNCHANGED <<renderRequested, schedules>>
     ELSE renderRequested' = TRUE /\ schedules' = schedules + 1
  /\ owed' = (owed \/ ~Off)
  /\ UNCHANGED <<stopped, suspended, immediateScheduled, timers, immediates, waiting,
                 renderMu, threads, forcedRequests, suspends>>

\* scheduleRender: at most one timer is kept.
Arm ==
  IF stopped \/ renderTimer # "nil" \/ ~renderRequested THEN UNCHANGED timers
  ELSE renderTimer' = "armed" /\ armed' = armed + 1 /\ UNCHANGED fired

ScheduleRender ==
  /\ schedules > 0 /\ schedules' = schedules - 1
  /\ Arm
  /\ UNCHANGED <<flags, immediateScheduled, immediates, waiting, renderMu, threads, counts,
                 owed>>

\* A timer goes off: the one renderTimer names, or one it has forgotten.
Fire ==
  /\ armed > 0 /\ armed' = armed - 1 /\ fired' = fired + 1
  /\ \/ renderTimer = "armed" /\ renderTimer' = "fired"
     \/ (renderTimer = "armed" => armed > 1) /\ UNCHANGED renderTimer
  /\ UNCHANGED <<flags, immediateScheduled, schedules, immediates, waiting, renderMu,
                 threads, counts, owed>>

\* The timer's callback, up to the unlock.
TimerCallback ==
  /\ fired > 0 /\ fired' = fired - 1
  /\ renderTimer' = "nil"
  /\ IF Off \/ ~renderRequested THEN UNCHANGED <<renderRequested, waiting>>
     ELSE renderRequested' = FALSE /\ waiting' = [waiting EXCEPT !["timer"] = @ + 1]
  /\ UNCHANGED <<stopped, suspended, immediateScheduled, armed, schedules, immediates,
                 renderMu, threads, counts, owed>>

\* MUTANT of ImmediateCallback: a callback that finds nothing to do leaves the
\* mark that one is under way.
MutantImmediateCallback ==
  /\ immediates > 0 /\ immediates' = immediates - 1
  /\ IF Off \/ ~renderRequested
       THEN UNCHANGED <<renderRequested, immediateScheduled, waiting, timers>>
     ELSE /\ immediateScheduled' = FALSE /\ renderRequested' = FALSE /\ CancelTimer
          /\ waiting' = [waiting EXCEPT !["immediate"] = @ + 1]
  /\ UNCHANGED <<stopped, suspended, schedules, renderMu, threads, counts, owed>>

\* The callback of requestImmediateRender, up to the unlock.
ImmediateCallback ==
  /\ immediates > 0 /\ immediates' = immediates - 1
  /\ immediateScheduled' = FALSE
  /\ IF Off \/ ~renderRequested THEN UNCHANGED <<renderRequested, waiting, timers>>
     ELSE /\ renderRequested' = FALSE /\ CancelTimer
          /\ waiting' = [waiting EXCEPT !["immediate"] = @ + 1]
  /\ UNCHANGED <<stopped, suspended, schedules, renderMu, threads, counts, owed>>

\* renderWithBarrier: the frame begins unless the screen is off by then.
BeginFrame(kind) ==
  /\ waiting[kind] > 0 /\ renderMu = "free"
  /\ waiting' = [waiting EXCEPT ![kind] = @ - 1]
  /\ IF Off
       THEN /\ UNCHANGED <<renderMu, owed>>
            /\ IF kind = "timer" THEN schedules' = schedules + 1 ELSE UNCHANGED schedules
       ELSE renderMu' = kind /\ owed' = FALSE /\ UNCHANGED schedules
  /\ UNCHANGED <<flags, immediateScheduled, timers, immediates, threads, counts>>

\* The frame is drawn; after a timer's one, scheduleRender is called.
EndFrame ==
  /\ renderMu \in Kinds /\ renderMu' = "free"
  /\ schedules' = IF renderMu = "timer" THEN schedules + 1 ELSE schedules
  /\ UNCHANGED <<flags, immediateScheduled, timers, immediates, waiting, threads, counts, owed>>

----------------------------------------------------------------------------
\* RequestRender(true): resetUnderBarrier, then requestImmediateRender.

ForceRequest ==
  /\ forcedRequests < MaxForced /\ forcedRequests' = forcedRequests + 1
  /\ forcing' = forcing + 1
  /\ UNCHANGED <<flags, immediateScheduled, timers, schedules, immediates, waiting, renderMu,
                 forced, editor, stopper, requests, suspends, owed>>

ResetUnderBarrier ==
  /\ forcing > 0 /\ renderMu = "free" /\ forcing' = forcing - 1
  /\ IF Off THEN UNCHANGED <<forced, owed>>
     ELSE forced' = [forced EXCEPT !["cancel"] = @ + 1] /\ owed' = TRUE
  /\ UNCHANGED <<flags, immediateScheduled, timers, schedules, immediates, waiting, renderMu,
                 editor, stopper, counts>>

CancelForImmediate ==
  /\ forced["cancel"] > 0
  /\ forced' = [forced EXCEPT !["cancel"] = @ - 1, !["ask"] = @ + 1]
  /\ CancelTimer
  /\ UNCHANGED <<flags, immediateScheduled, schedules, immediates, waiting, renderMu, forcing,
                 editor, stopper, counts, owed>>

AskImmediate ==
  /\ forced["ask"] > 0 /\ forced' = [forced EXCEPT !["ask"] = @ - 1]
  /\ renderRequested' = TRUE /\ immediateScheduled' = TRUE
  /\ immediates' = IF immediateScheduled THEN immediates ELSE immediates + 1
  /\ UNCHANGED <<stopped, suspended, timers, schedules, waiting, renderMu, forcing, editor,
                 stopper, counts, owed>>

\* RenderNow: the frame is drawn by the caller.
RenderNow ==
  /\ forcedRequests < MaxForced /\ forcedRequests' = forcedRequests + 1
  /\ renderRequested' = FALSE /\ CancelTimer
  /\ waiting' = [waiting EXCEPT !["now"] = @ + 1]
  /\ UNCHANGED <<stopped, suspended, immediateScheduled, schedules, immediates, renderMu,
                 threads, requests, suspends, owed>>

----------------------------------------------------------------------------
\* The external editor: SuspendScreen, the editor, ResumeScreen.

Suspend ==
  /\ editor = "idle" /\ suspends < MaxSuspends /\ suspends' = suspends + 1
  /\ IF Off THEN UNCHANGED <<editor, suspended, renderRequested, timers>>
     ELSE /\ editor' = "suspending" /\ suspended' = TRUE /\ renderRequested' = FALSE
          /\ CancelTimer
  /\ UNCHANGED <<stopped, immediateScheduled, schedules, immediates, waiting, renderMu,
                 forcing, forced, stopper, requests, forcedRequests, owed>>

\* MUTANT of SuspendBarrier: the frame under way is not waited for.
MutantSuspendBarrier ==
  /\ editor = "suspending" /\ editor' = "editing"
  /\ UNCHANGED <<flags, immediateScheduled, timers, schedules, immediates, waiting, renderMu,
                 forcing, forced, stopper, counts, owed>>

SuspendBarrier ==
  /\ editor = "suspending" /\ renderMu = "free" /\ editor' = "editing"
  /\ UNCHANGED <<flags, immediateScheduled, timers, schedules, immediates, waiting, renderMu,
                 forcing, forced, stopper, counts, owed>>

ResumeLocks ==
  /\ editor = "editing"
  /\ IF stopped THEN editor' = "idle" /\ UNCHANGED renderMu
     ELSE renderMu = "free" /\ renderMu' = "resume" /\ editor' = "resuming"
  /\ UNCHANGED <<flags, immediateScheduled, timers, schedules, immediates, waiting, forcing,
                 forced, stopper, counts, owed>>

\* Protocols back, frame forgotten; then the screen is on, unless stopped.
Resume ==
  /\ editor = "resuming" /\ editor' = "idle" /\ renderMu' = "free"
  /\ IF stopped THEN UNCHANGED <<suspended, forcing, owed>>
     ELSE suspended' = FALSE /\ forcing' = forcing + 1 /\ owed' = TRUE
  /\ UNCHANGED <<stopped, renderRequested, immediateScheduled, timers, schedules, immediates,
                 waiting, forced, stopper, counts>>

StopBegins ==
  /\ stopper = "none" /\ stopper' = "stopping" /\ stopped' = TRUE
  /\ CancelTimer
  /\ UNCHANGED <<suspended, renderRequested, immediateScheduled, schedules, immediates,
                 waiting, renderMu, forcing, forced, editor, counts, owed>>

StopBarrier ==
  /\ stopper = "stopping" /\ renderMu = "free" /\ stopper' = "returned"
  /\ UNCHANGED <<flags, immediateScheduled, timers, schedules, immediates, waiting, renderMu,
                 forcing, forced, editor, counts, owed>>

Init ==
  /\ stopped = FALSE /\ suspended = FALSE /\ renderRequested = FALSE
  /\ immediateScheduled = FALSE /\ renderTimer = "nil" /\ armed = 0 /\ fired = 0
  /\ schedules = 0 /\ immediates = 0 /\ waiting = [k \in Kinds |-> 0]
  /\ renderMu = "free" /\ forcing = 0 /\ forced = [k \in {"cancel", "ask"} |-> 0]
  /\ editor = "idle" /\ stopper = "none"
  /\ requests = 0 /\ forcedRequests = 0 /\ suspends = 0 /\ owed = FALSE

Frames == \E kind \in Kinds : BeginFrame(kind)

\* Timers fire, callbacks run, and a free renderMu is taken by one of those who
\* wait for it.
Runtime ==
  \/ ScheduleRender \/ Fire \/ TimerCallback \/ ImmediateCallback \/ Frames \/ EndFrame
  \/ ResetUnderBarrier \/ CancelForImmediate \/ AskImmediate

Next ==
  \/ Request \/ Runtime \/ ForceRequest \/ RenderNow
  \/ Suspend \/ SuspendBarrier \/ ResumeLocks \/ Resume \/ StopBegins \/ StopBarrier

Spec == Init /\ [][Next]_vars /\ WF_vars(Runtime)
-----------------------------------------------------------------------------
\* Once SuspendScreen or Stop has returned, no frame is being drawn: the
\* terminal is the editor's, or the shell's.
RenderBarrier ==
  (suspended /\ editor = "editing") \/ stopper = "returned"
    => renderMu \notin Kinds

\* A request is merged with others but never lost: a frame begins after it,
\* unless the screen is suspended, which asks for one when it resumes, or
\* stopped.
RequestsRendered == owed ~> (~owed \/ Off)
===============================================================================
