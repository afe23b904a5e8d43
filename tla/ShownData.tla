------------------------------ MODULE ShownData ------------------------------
(*****************************************************************************)
(* The components that show and type on the terminal, side by side: they     *)
(* share no state here.                                                      *)
(*****************************************************************************)
EXTENDS Naturals, Sequences, FiniteSets

CONSTANTS
  Texts, MaxLines, Heights,                        \* MainScreen
  Dialogs, Logins, Editors, SwapDialogs, MaxSwaps \* ModalDialogs

VARIABLES
  \* MainScreen
  previousLines, previousHeight, previousViewportTop, widthChanged, hardwareCursorRow,
  height, rows, cursorAt, frameDrawn, astray, screenStopped,
  \* ModalDialogs
  dialogAt, released, settle, modalClosed, owner, waiting, shownModal, sessions, overlays,
  focused, capture, searchActive, searchHandle, input, keyTarget, exit, editor, swap,
  editorGeneration, restoring, seen

Screen ==
  INSTANCE MainScreen
    WITH at <- cursorAt, drawn <- frameDrawn, stopped <- screenStopped

\* Calls and the search, to the end of the program.
Modals ==
  INSTANCE ModalDialogs
    WITH MaxSwaps <- 0, at <- dialogAt, closed <- modalClosed, active <- shownModal,
         stack <- overlays, keys <- input, target <- keyTarget,
         generation <- editorGeneration

\* Calls and the search, while editors are replaced.
Swaps ==
  INSTANCE ModalDialogs
    WITH Dialogs <- SwapDialogs, at <- dialogAt, closed <- modalClosed, active <- shownModal,
         stack <- overlays, keys <- input, target <- keyTarget,
         generation <- editorGeneration

screenVars == <<previousLines, previousHeight, previousViewportTop, widthChanged,
                hardwareCursorRow, height, rows, cursorAt, frameDrawn, astray, screenStopped>>
modalVars == <<dialogAt, released, settle, modalClosed, owner, waiting, shownModal, sessions,
               overlays, focused, capture, searchActive, searchHandle, input, keyTarget, exit,
               editor, swap, editorGeneration, restoring, seen>>
=============================================================================
