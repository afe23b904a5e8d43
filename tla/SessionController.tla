-------------------------- MODULE SessionController --------------------------
(***************************************************************************)
(* The session a chat works in and its replacement: /new, /resume and      *)
(* /fork prepare a candidate, and commit or abort it                       *)
(* (internal/cli/session_controller.go, session_commands.go), while the    *)
(* program may close the controller at any moment.                         *)
(*                                                                         *)
(* A change is one call of a command or of an extension.  prepMu is held   *)
(* from the start of a preparation to its end and for a whole commit; mu   *)
(* for single steps and for a whole commit, with what it installs.         *)
(* What a projection contains is left out.                                 *)
(***************************************************************************)
EXTENDS Naturals, FiniteSets

CONSTANTS Changes,   \* the calls that change the session
          Kind       \* [Changes -> {"new", "open", "fork"}]

Start == "start"     \* the session the program began with
Free == "free"
Nobody == "nobody"
Sessions == Changes \cup {Start}

VARIABLES
  step,              \* where each change is
  prepMu,            \* the change that prepares or commits, or Free
  saved,             \* the display a commit restores if it fails
  current,           \* the session of the controller, or Nobody
  bound,             \* the session the host and the screen show
  shut, inflight,    \* closed, and preparations Close waits for
  closer,            \* the goroutine in Close
  held,              \* open session handles
  onDisk,            \* files of sessions that exist
  committed          \* sessions that ever were current

vars == <<step, prepMu, saved, current, bound, shut, inflight, closer, held, onDisk, committed>>

Creates(c) == Kind[c] \in {"new", "fork"}
Existing == {Start} \cup {c \in Changes : Kind[c] = "open"}

Init ==
  /\ step = [c \in Changes |-> "idle"]
  /\ prepMu = Free /\ saved = Nobody /\ current = Start /\ bound = Start
  /\ shut = FALSE /\ inflight = 0 /\ closer = "idle"
  /\ held = {Start} /\ onDisk = Existing /\ committed = {Start}

Goto(c, s) == step' = [step EXCEPT ![c] = s]

\* A candidate the controller opened is closed; the file of one it created goes.
\* A file of that name that is not the one it created is left alone.
DisposeCandidate(c) ==
  /\ held' = held \ {c}
  /\ \/ onDisk' = IF Creates(c) THEN onDisk \ {c} ELSE onDisk
     \/ UNCHANGED onDisk               \* replaced meanwhile, or not removable

Committing == \E c \in Changes : step[c] = "applying"   \* mu is held

FinishPrepare == inflight' = inflight - 1 /\ prepMu' = Free

-----------------------------------------------------------------------------
PrepareSession(c) ==
  /\ step[c] = "idle" /\ prepMu = Free
  /\ \/ /\ shut \/ (Kind[c] = "fork" /\ current = Nobody)
        /\ Goto(c, "failed") /\ UNCHANGED <<prepMu, inflight>>
     \/ /\ ~shut /\ (Kind[c] = "fork" => current # Nobody)
        /\ inflight' = inflight + 1 /\ prepMu' = c
        /\ Goto(c, IF Creates(c) THEN "create" ELSE "reopen")
  /\ UNCHANGED <<saved, current, bound, shut, closer, held, onDisk, committed>>

\* A created session is written, closed, and opened again with its lock.  The
\* branch a fork copies is read before that, and may not be copyable.
CreateTrackedSession(c) ==
  /\ step[c] = "create"
  /\ \/ onDisk' = onDisk \cup {c} /\ Goto(c, "reopen")
        /\ UNCHANGED <<inflight, prepMu>>
     \/ FinishPrepare /\ Goto(c, "failed") /\ UNCHANGED onDisk
  /\ UNCHANGED <<saved, current, bound, shut, closer, held, committed>>

StoreOpen(c) ==
  /\ step[c] = "reopen"
  /\ \/ held' = held \cup {c} /\ Goto(c, "opened")
        /\ UNCHANGED <<inflight, prepMu>>
     \/ FinishPrepare /\ Goto(c, "failed") /\ UNCHANGED held
  /\ UNCHANGED <<saved, current, bound, shut, closer, onDisk, committed>>

\* Copying the branch of a fork, then building history, profile and preparer.
BuildActiveSession(c) ==
  /\ step[c] = "opened"
  /\ \/ Goto(c, "built") /\ UNCHANGED <<held, onDisk, inflight, prepMu>>
     \/ DisposeCandidate(c) /\ FinishPrepare /\ Goto(c, "failed")
  /\ UNCHANGED <<saved, current, bound, shut, closer, committed>>

EndPrepare(c) ==
  /\ step[c] = "built"
  /\ FinishPrepare
  /\ IF shut THEN DisposeCandidate(c) /\ Goto(c, "failed")
             ELSE Goto(c, "ready") /\ UNCHANGED <<held, onDisk>>
  /\ UNCHANGED <<saved, current, bound, shut, closer, committed>>

\* The context of the call may be cancelled any time before the commit.
Abort(c) ==
  /\ step[c] = "ready" /\ prepMu = Free
  /\ DisposeCandidate(c) /\ Goto(c, "failed")
  /\ UNCHANGED <<prepMu, saved, current, bound, shut, inflight, closer, committed>>

\* CommitWithContext: a cancelled or late commit disposes of its candidate; so
\* does one the screen refuses, after the old state is shown again.
CommitRefused(c) ==
  /\ step[c] = "ready" /\ prepMu = Free
  /\ DisposeCandidate(c) /\ Goto(c, "failed")
  /\ UNCHANGED <<prepMu, saved, current, bound, shut, inflight, closer, committed>>

InstallSessionDisplayState(c) ==
  /\ step[c] = "ready" /\ prepMu = Free /\ ~shut
  /\ prepMu' = c /\ saved' = bound /\ bound' = c
  /\ Goto(c, "applying")
  /\ UNCHANGED <<current, shut, inflight, closer, held, onDisk, committed>>

\* MUTANT of Restored: the candidate stays on the screen.
MutantRestored(c) == c
Restored(c) == saved

ApplyFails(c) ==
  /\ step[c] = "applying"
  /\ bound' = Restored(c) /\ saved' = Nobody /\ prepMu' = Free
  /\ DisposeCandidate(c) /\ Goto(c, "failed")
  /\ UNCHANGED <<current, shut, inflight, closer, committed>>

CommitWithContext(c) ==
  /\ step[c] = "applying"
  /\ current' = c /\ saved' = Nobody /\ prepMu' = Free
  /\ committed' = committed \cup {c}
  /\ held' = held \ {current}
  /\ Goto(c, "done")
  /\ UNCHANGED <<bound, shut, inflight, closer, onDisk>>

CloseBegins ==
  /\ closer = "idle" /\ ~Committing
  /\ shut' = TRUE /\ closer' = "waiting"
  /\ UNCHANGED <<step, prepMu, saved, current, bound, inflight, held, onDisk, committed>>

CloseTakes ==
  /\ closer = "waiting" /\ inflight = 0 /\ ~Committing
  /\ closer' = "closing" /\ current' = Nobody
  /\ held' = held \ {current}
  /\ UNCHANGED <<step, prepMu, saved, bound, shut, inflight, onDisk, committed>>

CloseEnds ==
  /\ closer = "closing" /\ closer' = "closed"
  /\ UNCHANGED <<step, prepMu, saved, current, bound, shut, inflight, held, onDisk, committed>>

Step(c) ==
  \/ PrepareSession(c) \/ CreateTrackedSession(c) \/ StoreOpen(c)
  \/ BuildActiveSession(c) \/ EndPrepare(c) \/ Abort(c)
  \/ CommitRefused(c) \/ InstallSessionDisplayState(c) \/ ApplyFails(c)
  \/ CommitWithContext(c)
Close == CloseBegins \/ CloseTakes \/ CloseEnds
Next == Close \/ \E c \in Changes : Step(c)

Fair ==
  /\ WF_vars(CloseTakes) /\ WF_vars(CloseEnds)
  /\ \A c \in Changes : WF_vars(Step(c))
Spec == Init /\ [][Next]_vars /\ Fair

-----------------------------------------------------------------------------
(***************************************************************************)
(* Every session handle that is open belongs to somebody who will close    *)
(* it: it is the current session's or that of a change on its way.  None   *)
(* is leaked by a failure, a cancellation or a Close at any moment, and    *)
(* none that is still used has been closed.                                *)
(***************************************************************************)
HandlesOwned ==
  held = ({current} \ {Nobody})
         \cup {c \in Changes : step[c] \in {"opened", "built", "ready", "applying"}}

(***************************************************************************)
(* Disposing of a candidate never takes the file of a session that existed *)
(* before, or that was ever committed (removeCreatedCandidate).            *)
(***************************************************************************)
FilesStay == Existing \cup committed \subseteq onDisk

(***************************************************************************)
(* Outside of a commit the host and the screen show the current session,   *)
(* also after a commit that failed half-way (restoreSessionDisplayState).  *)
(***************************************************************************)
ShownIsCurrent == ~Committing /\ current # Nobody => bound = current

(***************************************************************************)
(* Close waits for the preparations under way and then returns; no change  *)
(* that failed anywhere keeps it waiting.                                  *)
(***************************************************************************)
CloseReturns == closer = "waiting" ~> closer = "closed"
===============================================================================
