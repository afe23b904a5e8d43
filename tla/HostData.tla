-------------------------------- MODULE HostData --------------------------------
(***************************************************************************)
(* The components that keep data, on disk, in a session or on the screen,  *)
(* side by side: they share no state here.  Init picks one, and only that  *)
(* one moves.                                                              *)
(***************************************************************************)
EXTENDS StoredData, TurnData, TransportData, ShownData

VARIABLE component

vars == <<component, logVars, compactionVars, storeVars, credentialVars, agentVars,
          busVars, screenVars, telegramVars, dispatcherVars, webVars, contextVars,
          modalVars>>

Init ==
  /\ component \in {"log", "compaction", "store", "credentials", "agents", "bus", "screen",
                    "telegram", "dispatcher", "web", "context", "modals", "swaps"}
  /\ Log!Init /\ Compaction!Init /\ Store!Init /\ Credentials!Init /\ Agents!Init
  /\ Bus!Init /\ Screen!Init /\ Telegram!Init /\ Dispatcher!Init /\ Web!Init
  /\ Context!Init /\ IF component = "swaps" THEN Swaps!Init ELSE Modals!Init
  /\ component # "compaction" => ~tui
  /\ component # "screen" => height = (CHOOSE h \in Heights : TRUE) /\ cursorAt = 0
  /\ component # "web" => url = Web!Nothing
  /\ component # "context" => ~line

Next ==
  /\ UNCHANGED component
  /\ IF component = "log" THEN Log!Next ELSE UNCHANGED logVars
  /\ IF component = "compaction" THEN Compaction!Next ELSE UNCHANGED compactionVars
  /\ IF component = "store" THEN Store!Next ELSE UNCHANGED storeVars
  /\ IF component = "credentials" THEN Credentials!Next ELSE UNCHANGED credentialVars
  /\ IF component = "agents" THEN Agents!Next ELSE UNCHANGED agentVars
  /\ IF component = "bus" THEN Bus!Next ELSE UNCHANGED busVars
  /\ IF component = "screen" THEN Screen!Next ELSE UNCHANGED screenVars
  /\ IF component = "telegram" THEN Telegram!Next ELSE UNCHANGED telegramVars
  /\ IF component = "dispatcher" THEN Dispatcher!Next ELSE UNCHANGED dispatcherVars
  /\ IF component = "web" THEN Web!Next ELSE UNCHANGED webVars
  /\ IF component = "context" THEN Context!Next ELSE UNCHANGED contextVars
  /\ CASE component = "modals" -> Modals!Next
       [] component = "swaps" -> Swaps!Next /\ UNCHANGED exit
       [] OTHER -> UNCHANGED modalVars

Spec == Init /\ [][Next]_vars

\* A session file implements the tree of entries its users rely on.
ImplementsTree == Log!ImplementsTree

\* A load builds the context its writer thinks it wrote.
ContextOfWriter == component = "log" => Log!ContextOfWriter

\* A compaction has at most one outcome.
OneOutcome == component = "compaction" => Compaction!OneOutcome

\* Index and directories of the package store tell the same story.
StoreConsistent == component = "store" => Store!StoreConsistent

\* No change of the credentials is lost to another process.
CredentialsKept == component = "credentials" => Credentials!CredentialsKept

\* Delegated runs keep their lineage, their tools and their session files.
DelegationSafe == component = "agents" => Agents!DelegationSafe

\* An event reaches its subscribers once and in order, or its sender is told.
EventsDelivered == component = "bus" => Bus!EventsDelivered

\* The screen shows the frame, however little of it was sent, and the keys go where it says.
ScreenShows ==
  /\ component = "screen" => Screen!ScreenShows
  /\ component = "modals" => Modals!ModalSafe
  /\ component = "swaps" => Swaps!ModalSafe

\* A compaction breaks no pair, loses nothing it kept and leaves the ids true.
CompactionHonest == component = "context" => Context!CompactionHonest

\* An update of Telegram is handled before it is forgotten, and run and answered at most once.
UpdatesOnce == component = "telegram" => Telegram!UpdatesOnce

\* A reply is counted, keeps its place and reaches an open stream, or somebody is told.
RepliesAccounted ==
  /\ component = "dispatcher" => Dispatcher!Accounted /\ Dispatcher!NoSendAfterClose
  /\ component = "web" => Web!PageSees
===============================================================================
