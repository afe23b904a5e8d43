------------------------------ MODULE ModalDialogs ------------------------------
(***************************************************************************)
(* Who may show a dialog in the TUI, and where the keys go meanwhile        *)
(* (internal/ui/dialogs.go, oauth_login.go, extension_editor.go;            *)
(* internal/tui/overlay.go).  A goroutine that wants a dialog acquires the  *)
(* session of the modal service, or waits for it in a queue until it is     *)
(* handed over, its context ends or the service is closed.  It publishes    *)
(* its component in two critical sections with ShowOverlay between them:    *)
(* the service may be closed, and a login operation released by a key its   *)
(* dialog received, while the overlay is on the screen and not yet          *)
(* recorded.  Beside that the input goroutine opens and closes the search   *)
(* of the transcript, which is an overlay as well, and extensions replace   *)
(* the editor.  What a dialog shows is left out: its answer and the end of  *)
(* its context may come whenever it looks for them.                         *)
(* No overlay of the program is hidden or focused through its handle and    *)
(* no dialog takes the mouse, so the topmost overlay is the last one.       *)
(***************************************************************************)
EXTENDS Naturals, Sequences, SequencesExt

CONSTANTS
  Dialogs,    \* calls of run and of showExtensionModal
  Logins,     \* login operations
  Editors,    \* the editors that extensions bring
  MaxSwaps    \* bound on the replacements of the editor

VARIABLES
  at,         \* where each call is
  released,   \* calls whose session was released
  settle,     \* of each login: has settleOnce been taken, is the session released
  closed, owner, waiting, active, sessions,   \* the modal service
  stack,      \* overlays: [component, preFocus], the topmost last
  focused,
  capture,    \* modalCaptureSources
  searchActive, searchHandle,
  keys,       \* where the input goroutine is
  target,     \* the component it is about to give a key
  exit,       \* where RequestExit is
  editor,     \* the active editor
  swap,       \* the editor to be focused, while ext.mu is held; or None
  generation, \* editorGeneration
  restoring,  \* the generation that restoreDefaultEditor has read, if any
  seen        \* history: an editor replaced under an overlay, overlays stacked

callVars == <<at, released, settle>>
serviceVars == <<closed, owner, waiting, active, sessions>>
screenVars == <<stack, focused, seen>>
searchVars == <<searchActive, searchHandle, keys, target>>
editorVars == <<editor, swap, generation, restoring>>
vars == <<callVars, serviceVars, screenVars, capture, searchVars, exit, editorVars>>

None == "none"
Search == "search"
Default == "editor"
Callers == Dialogs \cup Logins

Init ==
  /\ at = [c \in Callers |-> "idle"] /\ settle = [c \in Logins |-> "no"]
  /\ released = {}
  /\ closed = FALSE /\ owner = FALSE /\ waiting = <<>> /\ active = None /\ sessions = 0
  /\ stack = <<>> /\ focused = Default /\ capture = {} /\ seen = {}
  /\ searchActive = FALSE /\ searchHandle = FALSE /\ keys = "read" /\ target = None
  /\ exit = "no"
  /\ editor = Default /\ swap = None /\ generation = 0 /\ restoring = {}

-----------------------------------------------------------------------------
(* The screen. *)

Shown == {stack[i].component : i \in DOMAIN stack}
Top == IF stack = <<>> THEN None ELSE Last(stack).component

ShowOverlay(c) ==
  /\ stack' = Append(stack, [component |-> c, preFocus |-> focused])
  /\ focused' = c
  /\ seen' = IF stack = <<>> THEN seen ELSE seen \cup {"stacked"}

MutantHide(c) ==
  IF c \notin Shown THEN UNCHANGED screenVars
  ELSE LET entry == CHOOSE e \in ToSet(stack) : e.component = c
           rest == SelectSeq(stack, LAMBDA e : e # entry)
       IN  /\ stack' = rest
           /\ focused' = IF focused # c THEN focused
                         ELSE IF rest = <<>> THEN entry.preFocus
                         ELSE Last(rest).component
           /\ UNCHANGED seen

\* The entry leaves the stack; what was to get the focus back from it gets it from below.
Hide(c) ==
  IF c \notin Shown THEN UNCHANGED screenVars
  ELSE LET entry == CHOOSE e \in ToSet(stack) : e.component = c
           Repaired(e) == IF e.preFocus = c THEN [e EXCEPT !.preFocus = entry.preFocus] ELSE e
           rest == SelectSeq(stack, LAMBDA e : e # entry)
       IN  /\ stack' = [i \in DOMAIN rest |-> Repaired(rest[i])]
           /\ focused' = IF focused # c THEN focused
                         ELSE IF rest = <<>> THEN entry.preFocus
                         ELSE Last(rest).component
           /\ UNCHANGED seen

SyncCapture(owned, queue, shut) ==
  capture' = IF owned \/ (~shut /\ queue # <<>>)
             THEN capture \cup {"dialogs"} ELSE capture \ {"dialogs"}

-----------------------------------------------------------------------------
(* The modal service. *)

Goes(c, place) == at' = [at EXCEPT ![c] = place]

Acquire(c) ==
  /\ at[c] = "idle"
  /\ \/ closed /\ Goes(c, "done") /\ UNCHANGED <<serviceVars, capture>>
     \/ /\ ~closed /\ ~owner /\ Goes(c, "owner")
        /\ owner' = TRUE /\ sessions' = sessions + 1 /\ SyncCapture(TRUE, waiting, closed)
        /\ UNCHANGED <<closed, waiting, active>>
     \/ /\ ~closed /\ owner /\ Goes(c, "waiting")
        /\ waiting' = Append(waiting, c) /\ SyncCapture(owner, waiting', closed)
        /\ UNCHANGED <<closed, owner, active, sessions>>
  /\ UNCHANGED <<released, settle, screenVars, searchVars, exit, editorVars>>

\* The session was handed over: its channel is closed and the queue has forgotten the call.
Admitted(c) == at[c] = "waiting" /\ c \notin ToSet(waiting)

TakesOver(c) ==
  /\ Admitted(c)
  /\ Goes(c, IF closed THEN "refused" ELSE "owner")
  /\ UNCHANGED <<released, settle, serviceVars, screenVars, capture,
                 searchVars, exit, editorVars>>

MutantAbandon(c) ==
  /\ at[c] = "waiting" /\ Goes(c, "done")
  /\ waiting' = SelectSeq(waiting, LAMBDA w : w # c)
  /\ SyncCapture(owner, waiting', closed)
  /\ UNCHANGED <<closed, owner, active, sessions>>
  /\ UNCHANGED <<released, settle, screenVars, searchVars, exit, editorVars>>

\* The context may have ended, or the service; a session handed over in the meantime is given back.
Abandon(c) ==
  /\ at[c] = "waiting"
  /\ \/ Admitted(c) /\ Goes(c, "refused") /\ UNCHANGED <<serviceVars, capture>>
     \/ /\ ~Admitted(c) /\ Goes(c, "done")
        /\ waiting' = SelectSeq(waiting, LAMBDA w : w # c)
        /\ SyncCapture(owner, waiting', closed)
        /\ UNCHANGED <<closed, owner, active, sessions>>
  /\ UNCHANGED <<released, settle, screenVars, searchVars, exit, editorVars>>

\* The overlay goes, and the session to the first who waits, unless the service is closed.
FinishRelease(c) ==
  /\ active' = IF active = c THEN None ELSE active
  /\ Hide(c)
  /\ IF ~closed /\ waiting # <<>>
     THEN waiting' = Tail(waiting) /\ owner' = TRUE /\ UNCHANGED sessions
     ELSE owner' = FALSE /\ sessions' = sessions - 1 /\ UNCHANGED waiting
  /\ SyncCapture(owner', waiting', closed)
  /\ UNCHANGED closed

Publishing(c) == at[c] \in {"publishing", "shown"}

\* Once per session; while it is being published, the rest is left to show.
ReleaseSession(c) ==
  \/ /\ c \in released \/ Publishing(c)
     /\ released' = released \cup {c}
     /\ UNCHANGED <<serviceVars, screenVars, capture>>
  \/ /\ c \notin released /\ ~Publishing(c)
     /\ released' = released \cup {c}
     /\ FinishRelease(c)

-----------------------------------------------------------------------------
(* A call: acquire, show, wait for an end, release. *)

\* The component could not be built.
BuildFails(c) ==
  /\ c \in Dialogs /\ at[c] = "owner" /\ Goes(c, "leaving")
  /\ UNCHANGED <<released, settle, serviceVars, screenVars, capture,
                 searchVars, exit, editorVars>>

ShowBegins(c) ==
  /\ at[c] = "owner"
  /\ \/ closed /\ Goes(c, "leaving") /\ UNCHANGED active
     \/ ~closed /\ Goes(c, "publishing") /\ active' = c
  /\ UNCHANGED <<released, settle, closed, owner, waiting, sessions,
                 screenVars, capture, searchVars, exit, editorVars>>

ShowsOverlay(c) ==
  /\ at[c] = "publishing" /\ Goes(c, "shown") /\ ShowOverlay(c)
  /\ UNCHANGED <<released, settle, serviceVars, capture, searchVars,
                 exit, editorVars>>

Publish(c) ==
  /\ at[c] = "shown"
  /\ \/ /\ c \in released /\ Goes(c, "done") /\ FinishRelease(c)
     \/ /\ c \notin released /\ closed /\ Goes(c, "leaving") /\ Hide(c)
        /\ active' = IF active = c THEN None ELSE active
        /\ UNCHANGED <<closed, owner, waiting, sessions, capture>>
     \/ /\ c \notin released /\ ~closed /\ Goes(c, "attached")
        /\ UNCHANGED <<serviceVars, screenVars, capture>>
  /\ UNCHANGED <<released, settle, searchVars, exit, editorVars>>

\* run and showExtensionModal return at the answer, the end of the context or the close.
Ends(c) ==
  /\ c \in Dialogs /\ at[c] = "attached"
  /\ Goes(c, "leaving")
  /\ UNCHANGED <<released, settle, serviceVars, screenVars, capture,
                 searchVars, exit, editorVars>>

\* The deferred release; of a call that never showed anything as well.
Leaves(c) ==
  /\ at[c] \in {"leaving", "refused"} /\ Goes(c, "done") /\ ReleaseSession(c)
  /\ UNCHANGED <<settle, searchVars, exit, editorVars>>

\* A login that is shown returns its operation; its flow, its deadline or its watcher settle it.
Settles(c) ==
  /\ c \in Logins /\ at[c] = "attached" /\ settle[c] = "no"
  /\ settle' = [settle EXCEPT ![c] = "begun"]
  /\ UNCHANGED <<at, released, serviceVars, screenVars, capture,
                 searchVars, exit, editorVars>>


SettleReleases(c) ==
  /\ c \in Logins /\ settle[c] = "begun" /\ settle' = [settle EXCEPT ![c] = "done"]
  /\ ReleaseSession(c)
  /\ UNCHANGED <<at, searchVars, exit, editorVars>>

-----------------------------------------------------------------------------
(* The input goroutine, with the search of the alternate screen. *)

ReadKey ==
  /\ keys = "read"
  /\ \/ capture # {} /\ Top \in Logins \cup {Search} /\ keys' = "give" /\ target' = Top
     \/ capture = {} /\ ~searchActive /\ keys' = "mark" /\ UNCHANGED target
  /\ UNCHANGED <<callVars, serviceVars, screenVars, capture, searchActive, searchHandle, exit,
                 editorVars>>

\* The key goes to the overlay it was meant for, which may be gone by now.  The answer of a
\* dialog is taken by Ends.
Give ==
  /\ keys = "give" /\ target' = None
  /\ \/ /\ target \in Logins /\ keys' = "read" /\ UNCHANGED searchActive
        /\ settle' = IF settle[target] = "no"
                     THEN [settle EXCEPT ![target] = "begun"] ELSE settle
     \/ /\ target = Search /\ searchActive' = FALSE
        /\ keys' = IF searchActive THEN "hide" ELSE "read"
        /\ UNCHANGED settle
  /\ UNCHANGED <<at, released, serviceVars, screenVars, capture, searchHandle,
                 exit, editorVars>>

OpenSearch ==
  /\ \/ /\ keys = "mark" /\ searchActive' = TRUE /\ keys' = "capture"
        /\ UNCHANGED <<searchHandle, capture, screenVars>>
     \/ /\ keys = "capture" /\ capture' = capture \cup {Search} /\ keys' = "show"
        /\ UNCHANGED <<searchActive, searchHandle, screenVars>>
     \/ /\ keys = "show" /\ ShowOverlay(Search) /\ searchHandle' = TRUE /\ keys' = "read"
        /\ UNCHANGED <<searchActive, capture>>
  /\ UNCHANGED <<callVars, serviceVars, target, exit, editorVars>>

HideSearch ==
  /\ IF searchHandle THEN Hide(Search) ELSE UNCHANGED screenVars
  /\ searchHandle' = FALSE
Uncapture == capture' = capture \ {Search}

CloseSearch ==
  /\ \/ keys = "hide" /\ keys' = "uncapture" /\ HideSearch /\ UNCHANGED capture
     \/ keys = "uncapture" /\ keys' = "read" /\ Uncapture /\ UNCHANGED <<searchHandle, screenVars>>
  /\ UNCHANGED <<callVars, serviceVars, searchActive, target, exit, editorVars>>

-----------------------------------------------------------------------------
(* RequestExit: the search, then the dialogs.  Stop begins with the dialogs. *)

RequestExit ==
  /\ exit = "no"
  /\ \/ exit' = "cancel" /\ UNCHANGED searchActive
     \/ searchActive /\ exit' = "hide" /\ searchActive' = FALSE
  /\ UNCHANGED <<callVars, serviceVars, screenVars, capture, searchHandle, keys, target,
                 editorVars>>

ExitSearch ==
  /\ \/ exit = "hide" /\ exit' = "uncapture" /\ HideSearch /\ UNCHANGED capture
     \/ /\ exit = "uncapture" /\ exit' = "cancel" /\ Uncapture
        /\ UNCHANGED <<searchHandle, screenVars>>
  /\ UNCHANGED <<callVars, serviceVars, searchActive, keys, target, editorVars>>

Shutdown ==
  /\ exit = "cancel" /\ exit' = "drain"
  /\ closed' = TRUE /\ SyncCapture(owner, waiting, TRUE)
  /\ UNCHANGED <<callVars, owner, waiting, active, sessions, screenVars, searchVars, editorVars>>

WaitDrained ==
  /\ exit = "drain" /\ sessions = 0 /\ exit' = "done"
  /\ UNCHANGED <<callVars, serviceVars, screenVars, capture, searchVars, editorVars>>

-----------------------------------------------------------------------------
(* Extensions replace the editor: the slot, then the focus, under ext.mu. *)

Replace(e) ==
  /\ editor' = e /\ swap' = e /\ generation' = generation + 1
  /\ seen' = IF stack = <<>> THEN seen ELSE seen \cup {"swapped"}

SetEditorComponent(e) ==
  /\ swap = None /\ generation < MaxSwaps /\ Replace(e)
  /\ UNCHANGED <<callVars, serviceVars, stack, focused, capture, searchVars, exit, restoring>>

FocusEditor ==
  /\ swap # None /\ focused' = swap /\ swap' = None
  /\ seen' = IF stack = <<>> THEN seen ELSE seen \cup {"swapped"}
  /\ UNCHANGED <<callVars, serviceVars, stack, capture, searchVars, exit, editor, generation,
                 restoring>>

\* The text is read from the old editor without ext.mu; an editor set meanwhile stays.
RestoreDefaultEditor ==
  /\ swap = None
  /\ \/ /\ restoring = {} /\ generation < MaxSwaps /\ restoring' = {generation}
        /\ UNCHANGED <<editor, swap, generation, seen>>
     \/ /\ restoring # {} /\ restoring' = {}
        /\ IF generation \in restoring THEN Replace(Default)
           ELSE UNCHANGED <<editor, swap, generation, seen>>
  /\ UNCHANGED <<callVars, serviceVars, stack, focused, capture, searchVars, exit>>

-----------------------------------------------------------------------------
\* What a call may do at any time, and what it does when it is its turn.
Chooses(c) == Acquire(c) \/ BuildFails(c) \/ Abandon(c) \/ Ends(c) \/ Settles(c)
Proceeds(c) ==
  TakesOver(c) \/ ShowBegins(c) \/ ShowsOverlay(c) \/ Publish(c) \/ Leaves(c)
    \/ SettleReleases(c)
\* A closed service is what every wait of a call looks for as well.
Notices(c) == closed /\ (Abandon(c) \/ Ends(c) \/ Settles(c))
Exits == ExitSearch \/ Shutdown \/ WaitDrained

Next ==
  \/ \E c \in Callers : Chooses(c) \/ Proceeds(c)
  \/ ReadKey \/ Give \/ OpenSearch \/ CloseSearch
  \/ RequestExit \/ Exits
  \/ (\E e \in Editors : SetEditorComponent(e)) \/ FocusEditor \/ RestoreDefaultEditor

\* The goroutines of the calls, the watchers and RequestExit run; the user need not.  Each of
\* their steps is one of finitely many, so that it is enough that one of them is taken.
Runtime == (\E c \in Callers : Proceeds(c) \/ Notices(c)) \/ Exits
Spec == Init /\ [][Next]_vars /\ WF_vars(Runtime)

-----------------------------------------------------------------------------
(* Properties. *)

\* The calls that have the session, in hand or on its way to them.
Holders ==
  {c \in Callers : \/ Admitted(c)
                   \/ at[c] \in {"refused", "owner", "leaving", "attached"} /\ c \notin released
                   \/ Publishing(c)}

\* One dialog at a time, through every hand-over, refusal and release: the service counts its
\* holder, whoever waits has a holder in front, what is on the screen or active is the holder's,
\* and while a dialog is on the screen no key can reach the editor behind it (dialogs.go).
OneModal ==
  /\ sessions = (IF owner THEN 1 ELSE 0)
  /\ Holders = {} \/ \E c \in Holders : Holders = {c}
  /\ owner <=> Holders # {}
  /\ waiting # <<>> /\ ~closed => owner
  /\ Shown \cap Callers \subseteq Holders /\ {active} \ {None} \subseteq Holders
  /\ Shown \cap Callers # {} => "dialogs" \in capture

\* When the last overlay is gone the keys go to the active editor, in whatever order overlays
\* opened and closed and editors were replaced (overlay.go:134, extension_editor.go:101).  The
\* code does not keep it (README, section 9).
FocusFollows == stack = <<>> /\ swap = None => focused = editor

\* It keeps it unless an editor was replaced under an overlay and overlays were stacked too.
FocusReturns == {"swapped", "stacked"} \subseteq seen \/ FocusFollows

\* A dialog has the screen to itself, and gives the keys back to the editor (dialogs.go).
ModalSafe == OneModal /\ FocusReturns

\* Leaving ends: every dialog, shown, waiting or half published, gives its session back
\* (dialogs.go:83).
ShutdownEnds == [](exit # "no" => <>(exit = "done"))
=============================================================================
