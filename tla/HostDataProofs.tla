--------------------------- MODULE HostDataProofs ---------------------------
(*****************************************************************************)
(* The properties of HostData, from the invariants of its components: only one*)
(* component moves, and the others keep theirs.                              *)
(*****************************************************************************)
EXTENDS HostData, StoredDataProofs, TurnDataProofs, TransportDataProofs

\* Sessions: an entry that a process alone with the file was told is written stays
\* readable, with all it hangs from, through crashes, torn lines, failed writes and
\* careless second writers (session.go, open.go, loader.go).
THEOREM ImplementsTreeCorrect == Spec => ImplementsTree
<1>1. Init => LogInv /\ Log!Tree!TreeInit
  BY LogInit DEF Init
<1>2. LogInv /\ [Next]_vars => LogInv' /\ [Log!Tree!TreeNext]_(Log!Tree!vars)
  BY LogNext DEF Next, vars
<1> QED BY <1>1, <1>2, PTL DEF Spec, ImplementsTree, Log!ImplementsTree, Log!Tree!TreeSpec

\* Sessions: whatever crashes, failed writes and second writers there were before, a load while
\* one process is alone with the file finds the branch of that process, and builds the context
\* that it asks for: the last compaction, what that keeps, and what followed (loader.go).
THEOREM ContextOfWriterCorrect == Spec => []ContextOfWriter
<1>1. Init => LogInv /\ WriterInv
  BY LogInit, WriterInit DEF Init
<1>2. LogInv /\ WriterInv /\ [Next]_vars => LogInv' /\ WriterInv'
  BY LogNext, WriterNext DEF Next, vars
<1>3. LogInv /\ WriterInv => ContextOfWriter
  BY WriterContext DEF ContextOfWriter
<1> QED BY <1>1, <1>2, <1>3, PTL DEF Spec

\* As long as no lock was stolen from a process that still worked: index.json and the package
\* directories agree but for the package at hand and those a failed or killed command left
\* behind, whatever is active is installed, and one process at a time is inside
\* (internal/packages/store.go, internal/cli/pkg.go).
THEOREM StoreConsistentCorrect == Spec => []StoreConsistent
<1>1. Init => StoreInv
  BY StoreInit DEF Init
<1>2. StoreInv /\ [Next]_vars => StoreInv'
  BY StoreStep DEF Next, vars
<1>3. StoreInv => StoreConsistent
  BY StoreImplies DEF StoreConsistent
<1> QED BY <1>1, <1>2, <1>3, PTL DEF Spec

\* Whatever processes change, fail or die: auth.json holds the last change of every provider
\* that succeeded, one process at a time is past the lock, and what a process remembers is a
\* content the file has had (internal/authstore/store.go).
THEOREM CredentialsKeptCorrect == Spec => []CredentialsKept
<1>1. Init => CredentialInv
  BY CredentialInit DEF Init
<1>2. CredentialInv /\ [Next]_vars => CredentialInv'
  BY CredentialStep DEF Next, vars
<1>3. CredentialInv => CredentialsKept
  BY CredentialImplies DEF CredentialsKept
<1> QED BY <1>1, <1>2, <1>3, PTL DEF Spec

\* However requests, turns, session changes and shutdown overlap: a request has at most one
\* outcome, OnComplete follows only an entry the session holds, and a request whose entry was
\* written reports no error (internal/cli/host_compaction.go).
THEOREM OneOutcomeCorrect == Spec => []OneOutcome
<1>1. Init => CompactionInv
  BY CompactionInit DEF Init
<1>2. CompactionInv /\ [Next]_vars => CompactionInv'
  BY CompactionStep DEF Next, vars
<1>3. CompactionInv => OneOutcome
  BY CompactionImplies DEF OneOutcome
<1> QED BY <1>1, <1>2, <1>3, PTL DEF Spec

\* Whoever emits, subscribes or removes a handler at any time: an event's calls follow the
\* order of its subscriptions, all before those of the next, no accepted event is left in a
\* queue nobody drains, and a joined bus is quiet (internal/extensions/events.go).
THEOREM EventsDeliveredCorrect == Spec => []EventsDelivered
<1>1. Init => BusInv
  BY BusInit DEF Init
<1>2. BusInv /\ [Next]_vars => BusInv'
  BY BusStep DEF Next, vars
<1>3. BusInv => EventsDelivered
  BY BusImplies DEF EventsDelivered
<1> QED BY <1>1, <1>2, <1>3, PTL DEF Spec

\* However many updates, requests that fail, refusals, crashes and restarts there are: Telegram
\* forgets no update the gateway has not put into its journal or refused, no update is run
\* twice, and its answer is sent at most once and after its outcome was recorded
\* (internal/gateway/telegram, internal/gateway/actor.go).
THEOREM UpdatesOnceCorrect == Spec => []UpdatesOnce
<1>1. Init => TelegramInv
  BY TelegramInit DEF Init
<1>2. TelegramInv /\ [Next]_vars => TelegramInv'
  BY TelegramStep DEF Next, vars
<1>3. TelegramInv => UpdatesOnce
  BY TelegramImplies DEF UpdatesOnce
<1> QED BY <1>1, <1>2, <1>3, PTL DEF Spec

\* However agents run agents while extensions change the root's tools: a run knows the runs it
\* stands under, no agent runs under itself or below the limit, none can call a tool that the
\* root has inactive or a definition above it leaves out, and every session file belongs to a
\* run, to a turn that started or to a removal that failed (internal/agents).
THEOREM DelegationSafeCorrect == Spec => []DelegationSafe
<1>1. Init => AgentInv
  BY AgentInit DEF Init
<1>2. AgentInv /\ [Next]_vars => AgentInv'
  BY AgentStep DEF Next, vars
<1>3. AgentInv => DelegationSafe
  BY AgentImplies DEF DelegationSafe
<1> QED BY <1>1, <1>2, <1>3, PTL DEF Spec

\* However many sends, closes, full channels, broken streams, logins and restarts there are:
\* a delivery counts as dropped, ended or waiting exactly once and none is queued after the
\* dispatcher closed; a page misses no event of its user behind its back, sees none of another
\* user, and sees an event twice only if it came while its stream was opening
\* (internal/gateway/router.go, internal/gateway/web/events.go).
THEOREM RepliesAccountedCorrect == Spec => []RepliesAccounted
<1>1. Init => DispatcherInv /\ WebInv
  BY DispatcherInit, WebInit DEF Init
<1>2. DispatcherInv /\ WebInv /\ [Next]_vars => DispatcherInv' /\ WebInv'
  <2>1. DispatcherInv /\ [Next]_vars => DispatcherInv'
    BY DispatcherStep DEF Next, vars
  <2>2. WebInv /\ [Next]_vars => WebInv'
    BY WebStep DEF Next, vars
  <2> QED BY <2>1, <2>2
<1>3. DispatcherInv /\ WebInv => RepliesAccounted
  BY DispatcherImplies, WebImplies DEF RepliesAccounted
<1> QED BY <1>1, <1>2, <1>3, PTL DEF Spec

\* However compactions follow each other, in a turn, on request, after an overflow or between
\* turns: the ids a turn uses are those of its messages unless it was compacted on request,
\* and until an anchor goes astray under such a compaction no call is parted from its results,
\* and what the latest compaction kept is shown by every load (internal/contextmanager,
\* internal/session/loader.go, internal/cli).
THEOREM CompactionHonestCorrect == Spec => []CompactionHonest
<1>1. Init => ContextInv
  BY ContextInit DEF Init
<1>2. ContextInv /\ [Next]_vars => ContextInv'
  BY ContextStep DEF Next, vars
<1>3. ContextInv => CompactionHonest
  BY ContextImplies DEF CompactionHonest
<1> QED BY <1>1, <1>2, <1>3, PTL DEF Spec
=============================================================================
