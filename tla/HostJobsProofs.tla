----------------------------- MODULE HostJobsProofs -----------------------------
(***************************************************************************)
(* The safety of the small components of the interactive host, for any     *)
(* number of session changes, jobs, callers, calls and requests: one       *)
(* inductive invariant per component, and that a step of HostJobs keeps    *)
(* it.  None of the properties is inductive by itself.                     *)
(***************************************************************************)
EXTENDS HostJobs, Sequences, FiniteSetTheorems, TLAPS

-----------------------------------------------------------------------------
(* SessionController: handles, files and display need each other's company.  *)

ChangeSteps ==
  {"idle", "create", "reopen", "opened", "built", "ready", "applying", "done", "failed"}
Preparing == {"create", "reopen", "opened", "built"}
Candidate == {"opened", "built", "ready", "applying"}

ControllerTypes ==
  step \in [Changes -> ChangeSteps] /\ prepMu \in Changes \cup {Controller!Free}

\* prepMu is held by the change that prepares or commits.
Exclusive == \A c \in Changes : step[c] \in Preparing \cup {"applying"} => prepMu = c

\* The current session, and every one that ever was, is the first or was committed.
Settled ==
  /\ current \in Changes \cup {Controller!Start, Controller!Nobody}
  /\ current \in Changes => step[current] = "done"
  /\ \A c \in committed \ {Controller!Start} : c \in Changes /\ step[c] = "done"

\* The file of a candidate exists until it is disposed of.
FilesThere ==
  /\ Controller!Existing \cup committed \subseteq onDisk
  /\ \A c \in Changes : step[c] \in Candidate \cup {"reopen"} => c \in onDisk

\* During a commit the candidate is shown, and what was shown before is kept.
Displayed ==
  /\ ~Controller!Committing /\ current # Controller!Nobody => bound = current
  /\ \A c \in Changes : step[c] = "applying" =>
       bound = c /\ (current # Controller!Nobody => saved = current)

Handles ==
  held = ({current} \ {Controller!Nobody}) \cup {c \in Changes : step[c] \in Candidate}

ControllerInv ==
  ControllerTypes /\ Exclusive /\ Settled /\ FilesThere /\ Displayed /\ Handles

USE HostJobsAssumption
USE DEF ChangeSteps, Preparing, Candidate, Controller!Goto, Controller!Committing,
        Controller!Existing, Controller!Creates, Controller!Start, Controller!Nobody,
        Controller!Free, Controller!FinishPrepare, Controller!DisposeCandidate,
        ControllerInv, ControllerTypes, Exclusive, Settled, FilesThere, Displayed, Handles

\* Preparations: none of them touches the current session or the screen.
LEMMA PrepareKeeps ==
  ASSUME ControllerInv, NEW c \in Changes,
         \/ Controller!PrepareSession(c) \/ Controller!CreateTrackedSession(c)
         \/ Controller!StoreOpen(c) \/ Controller!BuildActiveSession(c)
         \/ Controller!EndPrepare(c)
  PROVE  ControllerInv'
<1>1. CASE Controller!PrepareSession(c)
  <2>1. /\ UNCHANGED <<saved, current, bound, held, onDisk, committed>>
        /\ step[c] = "idle" /\ prepMu = Controller!Free /\ prepMu' \in {c, Controller!Free}
        /\ \E s \in {"failed", "create", "reopen"} :
             /\ step' = [step EXCEPT ![c] = s] /\ (s # "failed" => prepMu' = c)
             /\ s = "reopen" => Kind[c] = "open"
    BY <1>1 DEF Controller!PrepareSession
  <2> QED
    BY <2>1
<1>2. CASE Controller!CreateTrackedSession(c)
  <2>1. ControllerTypes' /\ Exclusive'
    BY <1>2 DEF Controller!CreateTrackedSession
  <2>2. Settled' /\ FilesThere'
    BY <1>2 DEF Controller!CreateTrackedSession
  <2>3. Displayed' /\ Handles'
    BY <1>2 DEF Controller!CreateTrackedSession
  <2> QED
    BY <2>1, <2>2, <2>3
<1>3. CASE Controller!StoreOpen(c)
  BY <1>3 DEF Controller!StoreOpen
<1>4. CASE Controller!BuildActiveSession(c)
  BY <1>4 DEF Controller!BuildActiveSession
<1>5. CASE Controller!EndPrepare(c)
  BY <1>5 DEF Controller!EndPrepare
<1> QED
  BY <1>1, <1>2, <1>3, <1>4, <1>5

\* Giving a candidate up, before or in the middle of its commit.
LEMMA GiveUpKeeps ==
  ASSUME ControllerInv, NEW c \in Changes,
         Controller!Abort(c) \/ Controller!CommitRefused(c) \/ Controller!ApplyFails(c)
  PROVE  ControllerInv'
<1>1. CASE Controller!Abort(c) \/ Controller!CommitRefused(c)
  BY <1>1 DEF Controller!Abort, Controller!CommitRefused
<1>2. CASE Controller!ApplyFails(c)
  BY <1>2 DEF Controller!ApplyFails, Controller!Restored
<1> QED
  BY <1>1, <1>2

\* A commit: nobody else holds prepMu, so the screen shows the session it replaces.
LEMMA CommitKeeps ==
  ASSUME ControllerInv, NEW c \in Changes,
         Controller!InstallSessionDisplayState(c) \/ Controller!CommitWithContext(c)
  PROVE  ControllerInv'
<1>1. CASE Controller!InstallSessionDisplayState(c)
  BY <1>1 DEF Controller!InstallSessionDisplayState
<1>2. CASE Controller!CommitWithContext(c)
  BY <1>2 DEF Controller!CommitWithContext
<1> QED
  BY <1>1, <1>2

\* Close releases the handle of the current session, and no other.
LEMMA CloseKeeps == ASSUME ControllerInv, Controller!Close PROVE ControllerInv'
BY DEF Controller!Close, Controller!CloseBegins, Controller!CloseTakes, Controller!CloseEnds

\* However changes are prepared, cancelled, refused, applied and closed: every open handle is
\* the current session's or that of a change on its way, no file of a session that existed or
\* was committed is removed, and outside of a commit the screen shows the current session
\* (internal/cli/session_controller.go).
THEOREM ControllerCorrect == Spec => []ControllerSafe
<1>1. Init => ControllerInv
  BY DEF Init, Controller!Init
<1>2. ControllerInv /\ [Next]_vars => ControllerInv'
  <2>1. ASSUME ControllerInv, UNCHANGED controllerVars PROVE ControllerInv'
    BY <2>1 DEF controllerVars
  <2>2. ASSUME ControllerInv, Controller!Next PROVE ControllerInv'
    <3> HIDE DEF ControllerInv
    <3> QED
      BY <2>2, PrepareKeeps, GiveUpKeeps, CommitKeeps, CloseKeeps
         DEF Controller!Next, Controller!Step
  <2> HIDE DEF ControllerInv
  <2> QED
    BY <2>1, <2>2 DEF Next, vars
<1>3. ControllerInv => ControllerSafe
  BY DEF ControllerSafe, Controller!HandlesOwned, Controller!FilesStay,
     Controller!ShownIsCurrent
<1> QED
  BY <1>1, <1>2, <1>3, PTL DEF Spec

HIDE HostJobsAssumption
HIDE DEF ChangeSteps, Preparing, Candidate, Controller!Goto, Controller!Committing,
         Controller!Existing, Controller!Creates, Controller!Start, Controller!Nobody,
         Controller!Free, Controller!FinishPrepare, Controller!DisposeCandidate,
         ControllerInv, ControllerTypes, Exclusive, Settled, FilesThere, Displayed, Handles

-----------------------------------------------------------------------------
(* CommandInvocation: the token and the count, without counting.             *)

InvocationPlaces == {"idle", "queued", "refused", "granted", "changing"}

\* The token is free, or one caller has it; only that one can be changing.
Token ==
  \/ slot = 1 /\ \A g \in Users : at[g] \notin {"granted", "changing"}
  \/ /\ slot = 0
     /\ \E g \in Users :
          /\ at[g] \in {"granted", "changing"}
          /\ \A h \in Users \ {g} : at[h] \notin {"granted", "changing"}

\* The wait group counts the one that is.
Counted ==
  \/ wg = 0 /\ \A g \in Users : at[g] # "changing"
  \/ wg = 1 /\ \E g \in Users : at[g] = "changing"

InvocationInv ==
  /\ at \in [Users -> InvocationPlaces]
  /\ Token /\ Counted
  /\ valid <=> handler = "runs"
  /\ handler = "over" => \A g \in Users : at[g] # "changing"

\* A step of a caller moves the token and the count together.
LEMMA CallerKeeps ==
  ASSUME InvocationInv, NEW g \in Users,
         \/ Invocation!BeginMutation(g) \/ Invocation!SignalEnds(g) \/ Invocation!Caller(g)
  PROVE  InvocationInv'
<1> USE DEF InvocationInv, Token, Counted, InvocationPlaces, Invocation!Goto
<1>1. CASE Invocation!BeginMutation(g) \/ Invocation!SignalEnds(g) \/ Invocation!GiveUp(g)
  BY <1>1 DEF Invocation!BeginMutation, Invocation!SignalEnds, Invocation!GiveUp
<1>2. CASE Invocation!TakeSlot(g)
  BY <1>2 DEF Invocation!TakeSlot
<1>3. CASE Invocation!Proceed(g)
  BY <1>3 DEF Invocation!Proceed, Invocation!MayProceed
<1>4. CASE Invocation!Done(g)
  BY <1>4 DEF Invocation!Done
<1> QED
  BY <1>1, <1>2, <1>3, <1>4 DEF Invocation!Caller

\* invalidate: no caller proceeds once it has begun, and it waits for the last.
LEMMA InvalidateKeeps ==
  ASSUME InvocationInv,
         \/ Invocation!Invalidate \/ Invocation!CancelOperations
         \/ Invocation!InvalidateReturns
  PROVE  InvocationInv'
BY DEF InvocationInv, Token, Counted, InvocationPlaces, Invocation!Invalidate,
       Invocation!CancelOperations, Invocation!InvalidateReturns

\* An instance has its own names for the operators of the standard modules.
LEMMA InvocationCounts == ASSUME NEW S PROVE Invocation!Cardinality(S) = Cardinality(S)
BY DEF Invocation!Cardinality, Cardinality

LEMMA InvocationImplies == ASSUME InvocationInv PROVE ChangesWithin
<1> DEFINE Having == {g \in Users : at[g] \in {"granted", "changing"}}
           Changing == {g \in Users : at[g] = "changing"}
<1>1. \/ slot = 1 /\ Having = {}
      \/ slot = 0 /\ \E g \in Users : Having = {g}
  BY DEF InvocationInv, Token
<1>2. \/ wg = 0 /\ Changing = {}
      \/ wg = 1 /\ \E g \in Users : Changing = {g}
  BY DEF InvocationInv, Token, Counted
<1>3. /\ Invocation!Cardinality({}) = 0
      /\ \A g \in Users : Invocation!Cardinality({g}) = 1
  BY FS_EmptySet, FS_Singleton, InvocationCounts
<1>4. slot + Invocation!Cardinality(Having) = 1 /\ wg = Invocation!Cardinality(Changing)
  <2> HIDE DEF Having, Changing
  <2>1. slot + Invocation!Cardinality(Having) = 1
    BY <1>1, <1>3
  <2>2. wg = Invocation!Cardinality(Changing)
    BY <1>2, <1>3
  <2> QED
    BY <2>1, <2>2
<1>5. handler = "over" => \A g \in Users : at[g] # "changing"
  BY DEF InvocationInv
<1> QED
  BY <1>4, <1>5 DEF ChangesWithin, Invocation!ChangesWithin

\* Whatever goroutines of a handler ask for and however their contexts end: no session change
\* runs once invalidate has returned, never two at a time, and the one token is neither lost
\* nor doubled (internal/cli/tui_bridge.go, commandInvocation).
THEOREM ChangesWithinCorrect == Spec => []ChangesWithin
<1>1. Init => InvocationInv
  BY DEF Init, Invocation!Init, InvocationInv, Token, Counted, InvocationPlaces
<1>2. InvocationInv /\ [Next]_vars => InvocationInv'
  <2>1. ASSUME InvocationInv, UNCHANGED invocationVars PROVE InvocationInv'
    BY <2>1 DEF invocationVars, InvocationInv, Token, Counted
  <2>2. ASSUME InvocationInv, Invocation!Next PROVE InvocationInv'
    BY <2>2, CallerKeeps, InvalidateKeeps DEF Invocation!Next
  <2> QED
    BY <2>1, <2>2 DEF Next, vars
<1> QED
  BY <1>1, <1>2, InvocationImplies, PTL DEF Spec

-----------------------------------------------------------------------------
(* RenderScheduler: who holds renderMu.                                      *)

\* The editor has the screen while it is suspended; a stop is for good; and once either has
\* passed the barrier no frame holds renderMu, nor can one begin.
FramesInv ==
  /\ editor \in {"idle", "suspending", "editing", "resuming"}
  /\ stopper \in {"none", "stopping", "returned"}
  /\ editor # "idle" => suspended
  /\ stopper # "none" => off
  /\ editor = "editing" \/ stopper = "returned" => renderMu \notin Frames!Kinds

LEMMA FramesStep == ASSUME FramesInv, Frames!Next PROVE FramesInv'
<1> USE DEF FramesInv, Frames!Kinds, Frames!Off, Frames!flags, Frames!threads
<1>1. CASE Frames!Request \/ Frames!ForceRequest \/ Frames!RenderNow
  BY <1>1 DEF Frames!Request, Frames!ForceRequest, Frames!RenderNow
<1>2. CASE Frames!Runtime
  <2>1. CASE Frames!Frames
    BY <2>1 DEF Frames!Frames, Frames!BeginFrame
  <2> QED
    BY <1>2, <2>1 DEF Frames!Runtime, Frames!ScheduleRender, Frames!Fire, Frames!TimerCallback,
       Frames!ImmediateCallback, Frames!EndFrame, Frames!ResetUnderBarrier,
       Frames!CancelForImmediate, Frames!AskImmediate
<1>3. CASE Frames!Suspend \/ Frames!SuspendBarrier
  BY <1>3 DEF Frames!Suspend, Frames!SuspendBarrier
<1>4. CASE Frames!ResumeLocks \/ Frames!Resume
  BY <1>4 DEF Frames!ResumeLocks, Frames!Resume
<1>5. CASE Frames!StopBegins \/ Frames!StopBarrier
  BY <1>5 DEF Frames!StopBegins, Frames!StopBarrier
<1> QED
  BY <1>1, <1>2, <1>3, <1>4, <1>5 DEF Frames!Next

\* Whatever timers fire late and requests are forced: once SuspendScreen or Stop has returned,
\* no frame is being drawn (internal/tui/component.go).
THEOREM RenderBarrierCorrect == Spec => []RenderBarrier
<1>1. Init => FramesInv
  BY DEF Init, Frames!Init, FramesInv, Frames!Kinds
<1>2. FramesInv /\ [Next]_vars => FramesInv'
  <2>1. ASSUME FramesInv, UNCHANGED frameVars PROVE FramesInv'
    BY <2>1 DEF frameVars, FramesInv
  <2> QED
    BY <2>1, FramesStep DEF Next, vars
<1>3. FramesInv => RenderBarrier
  BY DEF FramesInv, RenderBarrier, Frames!RenderBarrier
<1> QED
  BY <1>1, <1>2, <1>3, PTL DEF Spec

-----------------------------------------------------------------------------
(* TuiLifecycle: what was submitted has run, is in hand, or waits, in order. *)

NoJob == Lifecycle!Nothing
AtWork == {"admit", "gated", "run", "reload", "turn", "job"}

LifecycleTypes ==
  /\ pending \in Seq(Jobs) /\ submitted \in Seq(Jobs) /\ ran \in Seq(Jobs)
  /\ job \in Jobs \cup {NoJob} /\ sessionChanges \in Nat
  /\ worker \in AtWork \cup {"next", "done"}

\* The worker has a job from the moment it takes one; only a stop makes it give one up.
Employed ==
  /\ worker = "next" => job = NoJob
  /\ worker \in AtWork => job \in Jobs
  /\ worker = "done" => stopping
  /\ stopping => pending = << >>

\* The gate opens once, and nothing runs before.
Gate ==
  /\ main = "startup" => gate = "held"
  /\ worker = "run" \/ ran # << >> => gate = "open"

\* A job in the worker's hands that has not begun.
Taken == IF worker \in {"admit", "gated", "run"} THEN 1 ELSE 0

\* The jobs submitted are those that ran, the one taken and those that wait.
Line ==
  /\ Len(ran) + Taken + Len(pending) <= Len(submitted)
  /\ ~stopping => Len(ran) + Taken + Len(pending) = Len(submitted)
  /\ \A i \in 1..Len(ran) : submitted[i] = ran[i]
  /\ Taken = 1 => submitted[Len(ran) + 1] = job
  /\ \A i \in 1..Len(pending) : submitted[Len(ran) + Taken + i] = pending[i]
  /\ worker \in {"reload", "turn", "job"} => ran # << >> /\ job = ran[Len(ran)]

Once == \A i, j \in 1..Len(submitted) : submitted[i] = submitted[j] => i = j

Waits == {j \in ChangeJobs : j \in Lifecycle!Range(pending) \/ j = job}

LifecycleInv ==
  /\ LifecycleTypes /\ Employed /\ Gate /\ Line /\ Once
  /\ Lifecycle!InterruptReaches
  /\ ~stopping => sessionChanges = Cardinality(Waits)

LEMMA LifecycleCounts == ASSUME NEW S PROVE Lifecycle!Cardinality(S) = Cardinality(S)
BY DEF Lifecycle!Cardinality, Cardinality

LEMMA RangeOf ==
  ASSUME NEW q \in Seq(Jobs)
  PROVE  /\ Lifecycle!Range(q) = {q[i] : i \in 1..Len(q)}
         /\ \A j \in Jobs : Lifecycle!Range(Append(q, j)) = Lifecycle!Range(q) \cup {j}
         /\ q # << >> => Lifecycle!Range(q) = {Head(q)} \cup Lifecycle!Range(Tail(q))
         /\ Lifecycle!Range(<< >>) = {}
<1>1. Lifecycle!Range(q) = {q[i] : i \in 1..Len(q)}
  BY DEF Lifecycle!Range
<1>2. ASSUME NEW j \in Jobs
      PROVE  Lifecycle!Range(Append(q, j)) = Lifecycle!Range(q) \cup {j}
  <2>1. /\ DOMAIN Append(q, j) = 1..(Len(q) + 1) /\ Append(q, j)[Len(q) + 1] = j
        /\ \A i \in 1..Len(q) : Append(q, j)[i] = q[i]
        /\ DOMAIN q = 1..Len(q) /\ Len(q) \in Nat
    OBVIOUS
  <2> QED
    BY <2>1 DEF Lifecycle!Range
<1>3. ASSUME q # << >>
      PROVE  Lifecycle!Range(q) = {Head(q)} \cup Lifecycle!Range(Tail(q))
  <2>1. /\ DOMAIN Tail(q) = 1..(Len(q) - 1) /\ Head(q) = q[1]
        /\ \A i \in 1..(Len(q) - 1) : Tail(q)[i] = q[i + 1]
        /\ DOMAIN q = 1..Len(q) /\ Len(q) \in Nat \ {0}
    BY <1>3
  <2>2. Lifecycle!Range(q) \subseteq {Head(q)} \cup Lifecycle!Range(Tail(q))
    <3> SUFFICES ASSUME NEW i \in 1..Len(q), i # 1 PROVE q[i] \in Lifecycle!Range(Tail(q))
      BY <2>1 DEF Lifecycle!Range
    <3>1. i - 1 \in 1..(Len(q) - 1) /\ Tail(q)[i - 1] = q[i]
      BY <2>1
    <3> QED
      BY <2>1, <3>1 DEF Lifecycle!Range
  <2>3. {Head(q)} \cup Lifecycle!Range(Tail(q)) \subseteq Lifecycle!Range(q)
    BY <2>1 DEF Lifecycle!Range
  <2> QED
    BY <2>2, <2>3
<1>4. Lifecycle!Range(<< >>) = {}
  BY DEF Lifecycle!Range
<1> QED
  BY <1>1, <1>2, <1>3, <1>4

LEMMA WaitsFinite == IsFiniteSet(Waits) /\ Cardinality(Waits) \in Nat
<1>1. Waits \subseteq ChangeJobs
  BY DEF Waits
<1> QED
  BY <1>1, FS_Subset, FS_CardinalityType, HostJobsAssumption

\* What waits or runs was submitted.
LEMMA WaitsSubmitted ==
  ASSUME LifecycleInv, ~stopping PROVE Waits \subseteq Lifecycle!Range(submitted)
<1> SUFFICES ASSUME NEW j \in Waits PROVE \E i \in 1..Len(submitted) : submitted[i] = j
  BY RangeOf DEF LifecycleInv, LifecycleTypes
<1>1. Len(ran) \in Nat /\ Len(pending) \in Nat /\ Len(submitted) \in Nat
  BY DEF LifecycleInv, LifecycleTypes
<1>2. CASE j \in Lifecycle!Range(pending)
  <2>1. PICK i \in 1..Len(pending) : pending[i] = j
    BY <1>2, RangeOf DEF LifecycleInv, LifecycleTypes
  <2> QED
    BY <1>1, <2>1 DEF LifecycleInv, Line, Taken
<1>3. CASE j = job
  <2>1. worker \in AtWork
    BY <1>3, HostJobsAssumption
       DEF Waits, LifecycleInv, LifecycleTypes, Employed, NoJob, Lifecycle!Nothing
  <2> QED
    BY <1>1, <1>3, <2>1 DEF LifecycleInv, LifecycleTypes, Line, Taken, AtWork
<1> QED
  BY <1>2, <1>3 DEF Waits

\* A new job goes to the end; if it changes the session it is counted.
LEMMA SubmitKeeps ==
  ASSUME LifecycleInv, NEW j \in Jobs, Lifecycle!Submit(j) PROVE LifecycleInv'
<1>1. /\ j \notin Lifecycle!Range(submitted) /\ ~stopping
      /\ pending' = Append(pending, j) /\ submitted' = Append(submitted, j)
      /\ sessionChanges' = sessionChanges + Lifecycle!Counted(j)
      /\ UNCHANGED <<stopping, gate, worker, job, active, main, ran>>
  BY DEF Lifecycle!Submit
<1>2. /\ Len(ran) \in Nat /\ Len(pending) \in Nat /\ Len(submitted) \in Nat
      /\ Len(pending') = Len(pending) + 1 /\ Len(submitted') = Len(submitted) + 1
      /\ \A i \in 1..Len(pending) : pending'[i] = pending[i]
      /\ \A i \in 1..Len(submitted) : submitted'[i] = submitted[i]
      /\ pending'[Len(pending) + 1] = j /\ submitted'[Len(submitted) + 1] = j
      /\ pending' \in Seq(Jobs) /\ submitted' \in Seq(Jobs)
  BY <1>1 DEF LifecycleInv, LifecycleTypes
<1>3. Line'
  <2>1. Taken' = Taken /\ Taken \in {0, 1}
    BY <1>1 DEF Taken
  <2>2. Len(ran) + Taken + Len(pending) = Len(submitted)
    BY <1>1 DEF LifecycleInv, Line
  <2> HIDE DEF Taken
  <2>3. ASSUME NEW i \in 1..Len(pending')
        PROVE  submitted'[Len(ran) + Taken + i] = pending'[i]
    <3>1. CASE i = Len(pending) + 1
      BY <1>2, <2>1, <2>2, <3>1
    <3>2. CASE i \in 1..Len(pending)
      <4>1. Len(ran) + Taken + i \in 1..Len(submitted)
        BY <1>2, <2>1, <2>2, <3>2
      <4> QED
        BY <1>2, <3>2, <4>1 DEF LifecycleInv, Line
    <3> QED
      BY <1>2, <3>1, <3>2
  <2>4. \A i \in 1..Len(ran) : submitted'[i] = ran[i]
    BY <1>2, <2>1, <2>2 DEF LifecycleInv, Line
  <2>5. Taken = 1 => submitted'[Len(ran) + 1] = job
    <3> SUFFICES ASSUME Taken = 1 PROVE submitted'[Len(ran) + 1] = job
      OBVIOUS
    <3>1. Len(ran) + 1 \in 1..Len(submitted)
      BY <1>2, <2>2
    <3> QED
      BY <1>2, <3>1 DEF LifecycleInv, Line
  <2>6. Len(ran) + Taken + Len(pending') = Len(submitted') /\ Len(submitted') \in Nat
    BY <1>2, <2>1, <2>2
  <2>7. worker \in {"reload", "turn", "job"} => ran # << >> /\ job = ran[Len(ran)]
    BY DEF LifecycleInv, Line
  <2> QED
    BY <1>1, <2>1, <2>3, <2>4, <2>5, <2>6, <2>7 DEF Line
<1>4. Once'
  <2>1. \A i \in 1..Len(submitted) : submitted[i] # j
    BY <1>1, RangeOf DEF LifecycleInv, LifecycleTypes
  <2>2. \A i, k \in 1..Len(submitted) : submitted[i] = submitted[k] => i = k
    BY DEF LifecycleInv, Once
  <2> SUFFICES ASSUME NEW i \in 1..Len(submitted'), NEW k \in 1..Len(submitted'),
                      submitted'[i] = submitted'[k]
               PROVE  i = k
    BY DEF Once
  <2>3. /\ i \in 1..Len(submitted) \/ i = Len(submitted) + 1
        /\ k \in 1..Len(submitted) \/ k = Len(submitted) + 1
    BY <1>2
  <2> QED
    BY <1>2, <2>1, <2>2, <2>3
<1>5. sessionChanges' = Cardinality(Waits')
  <2>1. j \notin Waits
    BY <1>1, WaitsSubmitted
  <2>2. Waits' = IF j \in ChangeJobs THEN Waits \cup {j} ELSE Waits
    <3>1. Lifecycle!Range(pending') = Lifecycle!Range(pending) \cup {j}
      BY <1>1, RangeOf DEF LifecycleInv, LifecycleTypes
    <3>2. Waits' = {c \in ChangeJobs : c \in Lifecycle!Range(pending') \/ c = job}
      BY <1>1 DEF Waits
    <3> QED
      BY <3>1, <3>2 DEF Waits
  <2>3. Cardinality(Waits \cup {j}) = Cardinality(Waits) + 1
    BY <2>1, WaitsFinite, FS_AddElement
  <2> QED
    BY <1>1, <2>2, <2>3, WaitsFinite DEF Lifecycle!Counted, LifecycleInv
<1>6. LifecycleTypes'
  BY <1>1, <1>2 DEF LifecycleInv, LifecycleTypes, Lifecycle!Counted
<1> QED
  BY <1>1, <1>3, <1>4, <1>5, <1>6
     DEF LifecycleInv, Employed, Gate, Lifecycle!InterruptReaches

\* The worker takes the first job that waits, which is as much in its charge as before.
LEMMA WorkerNextKeeps == ASSUME LifecycleInv, Lifecycle!WorkerNext PROVE LifecycleInv'
<1>1. /\ worker = "next" /\ job = NoJob
      /\ UNCHANGED <<stopping, gate, sessionChanges, active, main, submitted, ran>>
  BY DEF Lifecycle!WorkerNext, LifecycleInv, Employed
<1>2. /\ Len(ran) \in Nat /\ Len(pending) \in Nat /\ Len(submitted) \in Nat
  BY DEF LifecycleInv, LifecycleTypes
<1>3. CASE pending = << >>
  <2>1. worker' = "done" /\ stopping /\ UNCHANGED <<job, pending>>
    BY <1>3 DEF Lifecycle!WorkerNext
  <2> QED
    BY <1>1, <1>2, <1>3, <2>1
       DEF LifecycleInv, LifecycleTypes, Employed, Gate, Line, Taken, Once, AtWork,
           Lifecycle!InterruptReaches
<1>4. CASE pending # << >>
  <2>1. job' = Head(pending) /\ pending' = Tail(pending) /\ worker' = "admit" /\ ~stopping
    BY <1>4 DEF Lifecycle!WorkerNext, LifecycleInv, Employed
  <2>2. /\ Len(pending') = Len(pending) - 1 /\ Len(pending) > 0 /\ job' = pending[1]
        /\ \A i \in 1..Len(pending') : pending'[i] = pending[i + 1]
        /\ pending' \in Seq(Jobs) /\ job' \in Jobs
    BY <1>4, <2>1 DEF LifecycleInv, LifecycleTypes
  <2>3. Line'
    <3>1. Taken = 0 /\ Taken' = 1
      BY <1>1, <2>1 DEF Taken
    <3>2. submitted[Len(ran) + 1] = job'
      BY <1>2, <2>2, <3>1 DEF LifecycleInv, Line
    <3>3. \A i \in 1..Len(pending') : submitted[Len(ran) + 1 + i] = pending'[i]
      <4> SUFFICES ASSUME NEW i \in 1..Len(pending')
                   PROVE  submitted[Len(ran) + 1 + i] = pending'[i]
        OBVIOUS
      <4>1. i + 1 \in 1..Len(pending) /\ Len(ran) + 0 + (i + 1) = Len(ran) + 1 + i
        BY <1>2, <2>2
      <4>2. submitted[Len(ran) + 0 + (i + 1)] = pending[i + 1]
        BY <3>1, <4>1 DEF LifecycleInv, Line
      <4> QED
        BY <2>2, <4>1, <4>2
    <3> QED
      BY <1>1, <1>2, <2>1, <2>2, <3>1, <3>2, <3>3 DEF LifecycleInv, Line
  <2>4. Waits' = Waits
    <3>1. Lifecycle!Range(pending) = {job'} \cup Lifecycle!Range(pending')
      BY <1>4, <2>1, RangeOf DEF LifecycleInv, LifecycleTypes
    <3>2. job \notin ChangeJobs
      BY <1>1, HostJobsAssumption DEF NoJob, Lifecycle!Nothing
    <3> QED
      BY <3>1, <3>2 DEF Waits
  <2> QED
    BY <1>1, <2>1, <2>2, <2>3, <2>4
       DEF LifecycleInv, LifecycleTypes, Employed, Gate, Once, AtWork,
           Lifecycle!InterruptReaches
<1> QED
  BY <1>3, <1>4

\* Admission, the gate and the turn do not touch the queue.
LEMMA AdmissionKeeps ==
  ASSUME LifecycleInv,
         \/ Lifecycle!AwaitAdmission \/ Lifecycle!Gated \/ Lifecycle!TrackTurn
         \/ Lifecycle!CompleteTurn \/ Lifecycle!Interrupt
         \/ Lifecycle!StartupDone \/ Lifecycle!Leave \/ Lifecycle!CancelWork
         \/ Lifecycle!Wait
  PROVE  LifecycleInv'
<1>1. /\ UNCHANGED <<stopping, pending, sessionChanges, job, submitted, ran>>
      /\ Len(ran) \in Nat /\ Len(submitted) \in Nat
  BY DEF LifecycleInv, LifecycleTypes, Lifecycle!AwaitAdmission, Lifecycle!Gated,
     Lifecycle!TrackTurn, Lifecycle!CompleteTurn, Lifecycle!Interrupt, Lifecycle!CancelTurn,
     Lifecycle!StartupDone, Lifecycle!Leave, Lifecycle!CancelWork, Lifecycle!Wait
<1>2. Waits' = Waits
  BY <1>1 DEF Waits
<1>3. CASE Lifecycle!AwaitAdmission \/ Lifecycle!Gated
  <2>1. /\ worker \in {"admit", "gated"} /\ worker' \in {"done", "run", "gated"}
        /\ worker' = "done" => stopping
        /\ worker' = "run" => gate = "open"
        /\ UNCHANGED <<gate, active, main>>
    BY <1>3 DEF Lifecycle!AwaitAdmission, Lifecycle!Gated
  <2>2. LifecycleTypes' /\ Employed' /\ Gate' /\ Once' /\ Lifecycle!InterruptReaches'
    BY <1>1, <2>1 DEF LifecycleInv, LifecycleTypes, Employed, Gate, Once, AtWork,
       Lifecycle!InterruptReaches
  <2>3. Line'
    <3>1. CASE worker' # "done"
      BY <1>1, <2>1, <3>1 DEF LifecycleInv, Line, Taken
    <3>2. CASE worker' = "done"
      BY <1>1, <2>1, <3>2 DEF LifecycleInv, Line, Taken, Employed
    <3> QED
      BY <3>1, <3>2
  <2> QED
    BY <1>1, <1>2, <2>2, <2>3 DEF LifecycleInv
<1>4. CASE Lifecycle!TrackTurn \/ Lifecycle!CompleteTurn \/ Lifecycle!Interrupt
  <2>1. /\ UNCHANGED <<gate, main>>
        /\ \/ worker = "reload" /\ worker' = "turn" /\ active' = job
           \/ /\ worker = "turn" /\ worker' = "job"
              /\ active' = IF active = job THEN Lifecycle!Nothing ELSE active
           \/ worker' = worker /\ active' = Lifecycle!Nothing
    BY <1>4 DEF Lifecycle!TrackTurn, Lifecycle!CompleteTurn, Lifecycle!Interrupt,
       Lifecycle!CancelTurn
  <2> QED
    BY <1>1, <1>2, <2>1
       DEF LifecycleInv, LifecycleTypes, Employed, Gate, Line, Taken, Once, AtWork,
           Lifecycle!InterruptReaches
<1>5. CASE \/ Lifecycle!StartupDone \/ Lifecycle!Leave \/ Lifecycle!CancelWork
           \/ Lifecycle!Wait
  <2>1. /\ UNCHANGED <<worker, active>> /\ main' # "startup"
        /\ UNCHANGED gate \/ main = "startup"
    BY <1>5 DEF Lifecycle!StartupDone, Lifecycle!Leave, Lifecycle!CancelWork, Lifecycle!Wait
  <2> QED
    BY <1>1, <1>2, <2>1
       DEF LifecycleInv, LifecycleTypes, Employed, Gate, Line, Taken, Once, AtWork,
           Lifecycle!InterruptReaches
<1> QED
  BY <1>3, <1>4, <1>5

\* A job that begins is the next of those submitted.
LEMMA RunJobKeeps == ASSUME LifecycleInv, Lifecycle!RunJob PROVE LifecycleInv'
<1>1. /\ worker = "run" /\ ran' = Append(ran, job) /\ worker' \in {"reload", "job"}
      /\ UNCHANGED <<stopping, gate, pending, sessionChanges, job, active, main, submitted>>
  BY DEF Lifecycle!RunJob
<1>2. /\ Len(ran) \in Nat /\ Len(pending) \in Nat /\ Len(submitted) \in Nat
      /\ job \in Jobs /\ ran' \in Seq(Jobs) /\ Len(ran') = Len(ran) + 1
      /\ \A i \in 1..Len(ran) : ran'[i] = ran[i]
      /\ ran'[Len(ran) + 1] = job /\ ran' # << >>
  BY <1>1 DEF LifecycleInv, LifecycleTypes, Employed, AtWork
<1>3. Line'
  <2>1. Taken = 1 /\ Taken' = 0
    BY <1>1 DEF Taken
  <2> QED
    BY <1>1, <1>2, <2>1 DEF LifecycleInv, Line
<1>4. Waits' = Waits
  BY <1>1 DEF Waits
<1> QED
  BY <1>1, <1>2, <1>3, <1>4
     DEF LifecycleInv, LifecycleTypes, Employed, Gate, Once, AtWork, Lifecycle!InterruptReaches

\* The job that ends is waited for no more: it was submitted once.
LEMMA JobEndsKeeps == ASSUME LifecycleInv, Lifecycle!JobEnds PROVE LifecycleInv'
<1>1. /\ worker = "job" /\ sessionChanges' = Lifecycle!FinishSessionChange(job)
      /\ worker' = "next" /\ job' = NoJob
      /\ UNCHANGED <<stopping, gate, pending, active, main, submitted, ran>>
  BY DEF Lifecycle!JobEnds, NoJob
<1>2. /\ Len(ran) \in Nat /\ Len(pending) \in Nat /\ Len(submitted) \in Nat
      /\ job \in Jobs /\ Taken = 0 /\ Taken' = 0
  BY <1>1 DEF LifecycleInv, LifecycleTypes, Employed, AtWork, Taken
<1>3. ~stopping => sessionChanges' = Cardinality(Waits')
  <2> SUFFICES ASSUME ~stopping PROVE sessionChanges' = Cardinality(Waits')
    OBVIOUS
  <2>1. job \notin Lifecycle!Range(pending)
    <3> SUFFICES ASSUME NEW i \in 1..Len(pending), pending[i] = job PROVE FALSE
      BY RangeOf DEF LifecycleInv, LifecycleTypes
    <3> HIDE DEF Taken
    <3>0. Len(ran) + Taken + i = Len(ran) + i /\ Len(ran) \in 1..Len(ran)
      BY <1>1, <1>2 DEF LifecycleInv, LifecycleTypes, Line
    <3>1. submitted[Len(ran) + i] = job /\ submitted[Len(ran)] = job
      BY <1>1, <3>0 DEF LifecycleInv, Line
    <3>2. Len(ran) + i \in 1..Len(submitted) /\ Len(ran) \in 1..Len(submitted)
      BY <1>1, <1>2 DEF LifecycleInv, LifecycleTypes, Line
    <3> QED
      BY <1>2, <3>1, <3>2 DEF LifecycleInv, Once
  <2>2. Waits' = Waits \ {job}
    BY <1>1, <2>1, HostJobsAssumption DEF Waits, NoJob, Lifecycle!Nothing
  <2>3. CASE job \in ChangeJobs
    <3>1. job \in Waits
      BY <2>3 DEF Waits
    <3>2. Cardinality(Waits \ {job}) = Cardinality(Waits) - 1 /\ Waits # {}
      BY <3>1, WaitsFinite, FS_RemoveElement
    <3>3. Cardinality(Waits) # 0
      BY <3>2, WaitsFinite, FS_EmptySet
    <3> QED
      BY <1>1, <2>2, <2>3, <3>2, <3>3, WaitsFinite
         DEF Lifecycle!FinishSessionChange, LifecycleInv
  <2>4. CASE job \notin ChangeJobs
    <3>1. Waits \ {job} = Waits
      BY <2>4 DEF Waits
    <3> QED
      BY <1>1, <2>2, <2>4, <3>1 DEF Lifecycle!FinishSessionChange, LifecycleInv
  <2> QED
    BY <2>3, <2>4
<1>4. sessionChanges' \in Nat
  BY <1>1 DEF Lifecycle!FinishSessionChange, LifecycleInv, LifecycleTypes
<1>5. Line'
  BY <1>1, <1>2 DEF LifecycleInv, Line
<1>6. active = Lifecycle!Nothing
  BY <1>1 DEF LifecycleInv, Lifecycle!InterruptReaches
<1> QED
  BY <1>1, <1>2, <1>3, <1>4, <1>5, <1>6
     DEF LifecycleInv, LifecycleTypes, Employed, Gate, Once, AtWork, Lifecycle!InterruptReaches

\* A stop, of the program or by a job that panics, drops what waits.
LEMMA StopKeeps ==
  ASSUME LifecycleInv, Lifecycle!Shutdown \/ Lifecycle!JobPanics PROVE LifecycleInv'
<1>1. /\ stopping' = TRUE /\ pending' = << >> /\ active' = Lifecycle!Nothing
      /\ UNCHANGED <<gate, sessionChanges, submitted, ran>>
      /\ main' # "startup"
      /\ \/ UNCHANGED <<worker, job>>
         \/ worker' = "next" /\ job' = NoJob /\ worker \in {"reload", "turn", "job"}
  BY DEF Lifecycle!Shutdown, Lifecycle!JobPanics, Lifecycle!BeginShutdown,
     Lifecycle!CancelTurn, NoJob
<1>2. Len(ran) \in Nat /\ Len(pending) \in Nat /\ Len(submitted) \in Nat /\ Len(<< >>) = 0
  BY DEF LifecycleInv, LifecycleTypes
<1>3. Line'
  BY <1>1, <1>2 DEF LifecycleInv, Line, Taken
<1> QED
  BY <1>1, <1>3
     DEF LifecycleInv, LifecycleTypes, Employed, Gate, Once, AtWork, Lifecycle!InterruptReaches

LEMMA LifecycleImplies == ASSUME LifecycleInv PROVE LifecycleSafe
<1>1. Lifecycle!ChangesCounted
  BY LifecycleCounts DEF LifecycleInv, Waits, Lifecycle!ChangesCounted
<1>2. Lifecycle!IsPrefix(ran, submitted)
  BY DEF LifecycleInv, LifecycleTypes, Line, Taken, Lifecycle!IsPrefix
<1> QED
  BY <1>1, <1>2 DEF LifecycleInv, Gate, LifecycleSafe, Lifecycle!LifecycleSafe,
     Lifecycle!AdmittedInOrder

\* However keys, jobs, panics and the end of the program interleave: the count of session
\* changes is right while the program serves, an interrupt reaches the turn that runs and no
\* other, and jobs run in the order of their submission, none before the extensions have
\* started (internal/cli/tui_bridge.go).
THEOREM LifecycleCorrect == Spec => []LifecycleSafe
<1>1. Init => LifecycleInv
  <2> SUFFICES ASSUME Init PROVE LifecycleInv
    OBVIOUS
  <2> USE DEF Init, Lifecycle!Init
  <2>1. Waits = {}
    BY HostJobsAssumption, RangeOf DEF Waits, Lifecycle!Nothing, Lifecycle!Range
  <2>2. Cardinality(Waits) = 0
    BY <2>1, FS_EmptySet
  <2> QED
    BY <2>2 DEF LifecycleInv, LifecycleTypes, Employed, Gate, Line, Taken, Once, AtWork, NoJob,
       Lifecycle!InterruptReaches
<1>2. LifecycleInv /\ [Next]_vars => LifecycleInv'
  <2>1. ASSUME LifecycleInv, UNCHANGED lifecycleVars PROVE LifecycleInv'
    BY <2>1 DEF lifecycleVars, LifecycleInv, LifecycleTypes, Employed, Gate, Line, Taken, Once,
       Waits, Lifecycle!InterruptReaches
  <2>2. ASSUME LifecycleInv, Lifecycle!Next PROVE LifecycleInv'
    BY <2>2, SubmitKeeps, WorkerNextKeeps, AdmissionKeeps, RunJobKeeps, JobEndsKeeps, StopKeeps
       DEF Lifecycle!Next, Lifecycle!Worker, Lifecycle!Main
  <2> QED
    BY <2>1, <2>2 DEF Next, vars
<1> QED
  BY <1>1, <1>2, LifecycleImplies, PTL DEF Spec

-----------------------------------------------------------------------------
(* McpClient: generations, sleepers and answers.                             *)

Pausing == {"budget", "backoff", "giveUp", "spawn"}

\* One process at a time: the published one, or the one in its handshake.
ProcessInv ==
  /\ spawned \in Nat /\ gen \in Nat /\ next \in Nat /\ live \subseteq 1..spawned
  /\ live \subseteq {gen, next} /\ (gen = Mcp!NoGen \/ next = Mcp!NoGen)
  /\ super # "handshake" => next = Mcp!NoGen
  /\ super \in Pausing \/ super = "handshake" => gen = Mcp!NoGen
  /\ super \in Pausing => live = {}

\* Who waits is woken when there is nothing to wait for any more.
SleepInv ==
  /\ closed <=> closeOnce # "idle"
  /\ asleep # {} => Mcp!MustWait \/ closeOnce \in {"marked", "stopped"}

CallPlaces == {"idle", "request", "write", "answer", "done"}
Outcomes == {"none", "answered", "cancelled", "closed", "unavailable", "unknown"}

\* A tool call ends with the first process it was written to.
AnswerInv ==
  /\ callAt \in [Mcp!Callers -> CallPlaces] /\ on \in [Mcp!Callers -> Nat]
  /\ lost \in [Mcp!Callers -> SUBSET Nat] /\ outcome \in [Mcp!Callers -> Outcomes]
  /\ answers \subseteq {c \in Mcp!Callers : callAt[c] \in {"write", "answer"}}
  /\ \A c \in Calls :
       \/ lost[c] = {}
       \/ callAt[c] = "done" /\ outcome[c] # "answered" /\ \E g : lost[c] = {g}

McpInv == ProcessInv /\ SleepInv /\ AnswerInv

\* A step of a caller, and the answer that reaches it.
LEMMA CallStep ==
  ASSUME McpInv, NEW c \in Mcp!Callers,
         \/ Mcp!Enter(c) \/ Mcp!Caller(c) \/ Mcp!CallerGivesUp(c) \/ Mcp!Answer(c)
  PROVE  McpInv'
<1>0. /\ UNCHANGED <<gen, spawned, live, closed, exhausted, super, next, closeOnce>>
      /\ UNCHANGED asleep \/ Mcp!MustWait
  BY DEF Mcp!Enter, Mcp!Caller, Mcp!CallerGivesUp, Mcp!Answer, Mcp!RequestWaits,
     Mcp!RequestFails, Mcp!RequestGets, Mcp!WriteSent, Mcp!WriteFails, Mcp!GenerationEnded,
     Mcp!process, Mcp!supervisor
<1>1. ProcessInv' /\ SleepInv'
  BY <1>0 DEF McpInv, ProcessInv, SleepInv, Mcp!MustWait
<1>2. AnswerInv'
  <2> USE DEF McpInv, AnswerInv, CallPlaces, Outcomes, Mcp!Callers, Mcp!Goto, Mcp!Returns
  <2>1. CASE Mcp!Enter(c)
    BY <2>1 DEF Mcp!Enter
  <2>2. CASE Mcp!RequestWaits(c)
    BY <2>2 DEF Mcp!RequestWaits, Mcp!calls
  <2>3. CASE Mcp!RequestFails(c)
    BY <2>3 DEF Mcp!RequestFails
  <2>4. CASE Mcp!RequestGets(c)
    BY <2>4 DEF Mcp!RequestGets, ProcessInv
  <2>5. CASE Mcp!WriteSent(c)
    BY <2>5 DEF Mcp!WriteSent
  <2>6. CASE Mcp!CallerGivesUp(c)
    BY <2>6 DEF Mcp!CallerGivesUp
  <2>7. CASE Mcp!Answer(c)
    BY <2>7 DEF Mcp!Answer
  <2>8. CASE Mcp!WriteFails(c) \/ Mcp!GenerationEnded(c)
    <3>1. callAt[c] \in {"write", "answer"} /\ Mcp!OutcomeUnknown(c)
      BY <2>8 DEF Mcp!WriteFails, Mcp!GenerationEnded
    <3>2. CASE Mcp!Retries(c)
      <4>1. c \notin Calls
        BY <3>2, HostJobsAssumption DEF Mcp!Retries
      <4>2. /\ callAt' = [callAt EXCEPT ![c] = "request"] /\ UNCHANGED <<on, outcome>>
            /\ answers' = answers \ {c} /\ lost' = [lost EXCEPT ![c] = @ \cup {on[c]}]
        BY <2>8, <3>1, <3>2
           DEF Mcp!OutcomeUnknown, Mcp!WriteFails, Mcp!GenerationEnded
      <4> QED
        BY <3>1, <4>1, <4>2
    <3>3. CASE ~Mcp!Retries(c)
      <4>1. /\ answers' = answers \ {c} /\ lost' = [lost EXCEPT ![c] = @ \cup {on[c]}]
            /\ callAt' = [callAt EXCEPT ![c] = "done"]
            /\ \E what \in {"closed", "unknown"} : outcome' = [outcome EXCEPT ![c] = what]
        BY <3>1, <3>3 DEF Mcp!OutcomeUnknown
      <4>2. UNCHANGED on /\ lost[c] \cup {on[c]} \in SUBSET Nat
        BY <2>8 DEF Mcp!WriteFails, Mcp!GenerationEnded
      <4>3. /\ callAt' \in [Mcp!Callers -> CallPlaces] /\ on' \in [Mcp!Callers -> Nat]
            /\ lost' \in [Mcp!Callers -> SUBSET Nat]
            /\ outcome' \in [Mcp!Callers -> Outcomes]
        BY <4>1, <4>2
      <4>4. c \in Calls => lost'[c] = {on[c]} /\ outcome'[c] # "answered"
        BY <3>1, <4>1
      <4>5. \A d \in Mcp!Callers \ {c} :
              callAt'[d] = callAt[d] /\ lost'[d] = lost[d] /\ outcome'[d] = outcome[d]
        BY <4>1
      <4>6. answers' \subseteq {d \in Mcp!Callers : callAt'[d] \in {"write", "answer"}}
        BY <4>1, <4>5
      <4>7. callAt'[c] = "done"
        BY <4>1
      <4>8. ASSUME NEW d \in Calls
            PROVE  \/ lost'[d] = {}
                   \/ /\ callAt'[d] = "done" /\ outcome'[d] # "answered"
                      /\ \E g : lost'[d] = {g}
        <5>1. CASE d = c
          BY <4>4, <4>7, <5>1
        <5>2. CASE d # c
          <6>1. /\ callAt'[d] = callAt[d] /\ lost'[d] = lost[d]
                /\ outcome'[d] = outcome[d]
            BY <4>5, <5>2
          <6> QED
            BY <6>1
        <5> QED
          BY <5>1, <5>2
      <4> QED
        BY <4>3, <4>6, <4>8
    <3> QED
      BY <3>2, <3>3
  <2> QED
    BY <2>1, <2>2, <2>3, <2>4, <2>5, <2>6, <2>7, <2>8 DEF Mcp!Caller
<1> QED
  BY <1>1, <1>2 DEF McpInv

\* The supervisor starts a process when there is none.
LEMMA SuperviseStep ==
  ASSUME McpInv, Mcp!Supervise \/ Mcp!Handshake PROVE McpInv'
<1> USE DEF McpInv, Mcp!process, Mcp!supervisor, Mcp!calls, Mcp!Step, Mcp!NoGen, Mcp!Broadcast,
            Pausing
<1>1. UNCHANGED Mcp!calls /\ UNCHANGED <<closed, closeOnce>>
  BY DEF Mcp!Supervise, Mcp!Handshake, Mcp!Look, Mcp!WatchStopped, Mcp!WatchEnded,
     Mcp!ConsumeRestart, Mcp!MarkExhausted, Mcp!SleepBackoff, Mcp!SpawnProcess,
     Mcp!SpawnFails, Mcp!HandshakeFails, Mcp!CorrectFraming, Mcp!Publish
<1>2. AnswerInv'
  BY <1>1 DEF AnswerInv
<1>3. SleepInv'
  <2>1. \/ asleep' = {}
        \/ UNCHANGED <<gen, exhausted, asleep>>
    BY DEF Mcp!Supervise, Mcp!Handshake, Mcp!Look, Mcp!WatchStopped, Mcp!WatchEnded,
       Mcp!ConsumeRestart, Mcp!MarkExhausted, Mcp!SleepBackoff, Mcp!SpawnProcess,
       Mcp!SpawnFails, Mcp!HandshakeFails, Mcp!CorrectFraming, Mcp!Publish
  <2> QED
    BY <1>1, <2>1 DEF SleepInv, Mcp!MustWait
<1>4. ProcessInv'
  <2> USE DEF ProcessInv
  <2>0. 0 \notin live
    OBVIOUS
  <2>1. CASE Mcp!Look
    BY <2>1 DEF Mcp!Look
  <2>2. CASE Mcp!WatchStopped \/ Mcp!WatchEnded
    BY <2>0, <2>2 DEF Mcp!WatchStopped, Mcp!WatchEnded
  <2>3. CASE Mcp!ConsumeRestart
    BY <2>3 DEF Mcp!ConsumeRestart
  <2>4. CASE Mcp!MarkExhausted \/ Mcp!SleepBackoff
    BY <2>4 DEF Mcp!MarkExhausted, Mcp!SleepBackoff
  <2>5. CASE Mcp!SpawnProcess
    BY <2>5 DEF Mcp!SpawnProcess
  <2>6. CASE Mcp!SpawnFails
    BY <2>6 DEF Mcp!SpawnFails, Mcp!StartFailed
  <2>7. CASE Mcp!HandshakeFails
    BY <2>0, <2>7 DEF Mcp!HandshakeFails, Mcp!StartFailed
  <2>8. CASE Mcp!CorrectFraming
    BY <2>8 DEF Mcp!CorrectFraming
  <2>9. CASE Mcp!Publish
    BY <2>9 DEF Mcp!Publish
  <2> QED
    BY <2>1, <2>2, <2>3, <2>4, <2>5, <2>6, <2>7, <2>8, <2>9
       DEF Mcp!Supervise, Mcp!Handshake
<1> QED
  BY <1>2, <1>3, <1>4

\* A process that ends, and Close.
LEMMA CloseStep ==
  ASSUME McpInv, (\E g \in 1..MaxGens : Mcp!ProcessEnds(g)) \/ Mcp!CloseBegins \/ Mcp!Close
  PROVE  McpInv'
<1> USE DEF McpInv, Mcp!process, Mcp!supervisor, Mcp!calls
<1>1. CASE \E g \in 1..MaxGens : Mcp!ProcessEnds(g)
  BY <1>1 DEF Mcp!ProcessEnds, ProcessInv, SleepInv, AnswerInv, Mcp!MustWait
<1>2. CASE Mcp!CloseBegins \/ Mcp!Close
  BY <1>2 DEF Mcp!CloseBegins, Mcp!Close, Mcp!CloseStops, Mcp!CloseWakes, Mcp!CloseReturns,
     Mcp!Broadcast, ProcessInv, SleepInv, AnswerInv, Mcp!MustWait
<1> QED
  BY <1>1, <1>2

LEMMA McpCounts ==
  ASSUME NEW S, S = {} \/ \E g : S \subseteq {g} PROVE Mcp!Cardinality(S) <= 1
<1>1. Mcp!Cardinality(S) = Cardinality(S)
  BY DEF Mcp!Cardinality, Cardinality
<1>2. S = {} \/ \E g : S = {g}
  OBVIOUS
<1>3. Cardinality({}) = 0 /\ \A g : Cardinality({g}) = 1
  BY FS_EmptySet, FS_Singleton
<1> QED
  BY <1>1, <1>2, <1>3

LEMMA McpImplies == ASSUME McpInv PROVE CallsKept
<1>1. \A c \in Calls :
        Mcp!Cardinality(lost[c]) <= 1 /\ (outcome[c] = "answered" => lost[c] = {})
  BY McpCounts DEF McpInv, AnswerInv
<1>2. Mcp!Cardinality(live) <= 1
  <2>1. live \subseteq {gen} \/ live \subseteq {next}
    BY DEF McpInv, ProcessInv, Mcp!NoGen
  <2> QED
    BY <2>1, McpCounts
<1> QED
  BY <1>1, <1>2 DEF McpInv, ProcessInv, SleepInv, AnswerInv, CallsKept, Mcp!CallsKept

\* Whatever the server does and however often it is started again: no caller sleeps although
\* what it waits for is there, no entry is left for a caller that returned, a tool call is
\* written to one process only, and a process that is alive is published, in its handshake or
\* about to be killed (internal/mcp/client.go).
THEOREM CallsKeptCorrect == Spec => []CallsKept
<1>1. Init => McpInv
  BY DEF Init, Mcp!Init, McpInv, ProcessInv, SleepInv, AnswerInv, Mcp!NoGen, Pausing, CallPlaces,
     Outcomes, Mcp!Callers
<1>2. McpInv /\ [Next]_vars => McpInv'
  <2>1. ASSUME McpInv, UNCHANGED mcpVars PROVE McpInv'
    BY <2>1 DEF mcpVars, McpInv, ProcessInv, SleepInv, AnswerInv, Mcp!MustWait
  <2>2. ASSUME McpInv, Mcp!Next PROVE McpInv'
    BY <2>2, CallStep, SuperviseStep, CloseStep DEF Mcp!Next
  <2> QED
    BY <2>1, <2>2 DEF Next, vars
<1> QED
  BY <1>1, <1>2, McpImplies, PTL DEF Spec

===============================================================================
