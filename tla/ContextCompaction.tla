-------------------------- MODULE ContextCompaction --------------------------
(***************************************************************************)
(* What a compaction does to a conversation: internal/contextmanager picks *)
(* the messages that go on being sent, the session gets an entry with an   *)
(* anchor, and every later load of the session shows that entry, then what *)
(* lies between the anchor and the entry, then what follows.  Around it    *)
(* stand the rounds of a turn (internal/agent/loop.go), which ask for the  *)
(* ids of the messages they hold, and the callers that persist and reload. *)
(*                                                                         *)
(* A message is the number of its session entry.  How large messages are   *)
(* decides when a compaction happens and how much it keeps: both are free  *)
(* here.  A batch of calls and its results is one step.  Nothing in the    *)
(* program pins calls, and pruning changes the text of results only.       *)
(***************************************************************************)
EXTENDS Naturals, Sequences, FiniteSets, FiniteSetsExt, SequencesExt

CONSTANTS
  KeepRecent,     \* Config.KeepRecentMessages
  MaxEntries,     \* bound: entries of the session
  MaxCompactions, \* bound: compactions
  MaxCalls        \* bound: calls of an answer

Unresolved == 0   \* an anchor that is the id of no entry

VARIABLES
  line,       \* the repl of line mode: it reloads when it starts and asks for no ids
  log,        \* the branch of the session
  history,    \* the messages of the caller and of the running turn
  phase,      \* "idle" | "refresh" | "prepare" | "answer" | "ended"
  refreshes,  \* the turn asks for ids before each round
  ids,        \* the ids it was told
  forced,     \* the turn overflowed: the next Prepare is the recovery manager's
  retried,    \* it has overflowed once
  pending,    \* a compaction was requested during the turn
  planned,    \* compactions of this turn that are not in the session yet
  sent,       \* the messages of the last request
  explicit    \* a requested compaction was committed during this turn

vars == <<line, log, history, phase, refreshes, ids, forced, retried, pending, planned, sent,
          explicit>>

\* "of" is the anchor of a compaction, the call of a result; "kept", "atHead" and "astray" are
\* what its compaction meant: the messages kept, whether the anchor is the first message, and
\* whether the anchor is the id of another one, told after the session was compacted under it.
Entry(kind, of, kept, atHead, astray) ==
  [kind |-> kind, of |-> of, kept |-> kept, atHead |-> atHead, astray |-> astray]
Text == Entry("text", 0, {}, FALSE, FALSE)
Calls == Entry("calls", 0, {}, FALSE, FALSE)
ResultOf(call) == Entry("result", call, {}, FALSE, FALSE)

TypeOK ==
  /\ {line, refreshes, forced, retried, pending, explicit} \subseteq BOOLEAN
  /\ phase \in {"idle", "refresh", "prepare", "answer", "ended"}
  /\ \A e \in ToSet(log) \cup ToSet(planned) :
       /\ e.kind \in {"text", "calls", "result", "compaction"}
       /\ e.of \in 0 .. Len(log) /\ e.kept \subseteq 1 .. Len(log)
       /\ {e.atHead, e.astray} \subseteq BOOLEAN
  /\ \A s \in {history, ids, sent} : ToSet(s) \subseteq 0 .. Len(log)

-----------------------------------------------------------------------------
(* The session.                                                            *)

Compactions == {i \in 1 .. Len(log) : log[i].kind = "compaction"}
Between(a, b) == [i \in 1 .. b + 1 - a |-> a + i - 1]

\* BuildContextEntries, and the whole branch when the anchor is not on it.
Projection ==
  IF Compactions = {} \/ log[Max(Compactions)].of = Unresolved THEN Between(1, Len(log))
  ELSE LET c == Max(Compactions) IN
       <<c>> \o Between(log[c].of, c - 1) \o Between(c + 1, Len(log))

\* validateModelHistoryTools: results follow their calls, and all calls have theirs.
Loadable(messages) ==
  /\ \A i \in 1 .. Len(messages) :
       log[messages[i]].kind = "result" => \E j \in 1 .. i : messages[j] = log[messages[i]].of
  /\ \A i \in 1 .. Len(log) :
       log[i].kind = "result" /\ log[i].of \in ToSet(messages) => i \in ToSet(messages)

-----------------------------------------------------------------------------
(* Manager.compact over the positions of the messages.                     *)

Group(message) == IF log[message].kind = "result" THEN log[message].of ELSE message
SameGroup(i, j) == Group(history[i]) = Group(history[j])

KeepStart == IF Len(history) > KeepRecent THEN Len(history) - KeepRecent ELSE 0

\* The selector keeps any of the candidates, the fallback the latest ones.
Selections(selector) ==
  IF selector THEN (SUBSET (1 .. KeepStart)) \ {{}} ELSE {k .. KeepStart : k \in 1 .. KeepStart}

\* closeToolPairs.
MutantClosed(kept) == kept   \* MUTANT of Closed: calls and results are kept or dropped apart
Closed(kept) == kept \cup {i \in 1 .. Len(history) : \E k \in kept : SameGroup(i, k)}

KeptOf(choice) == Closed(choice \cup KeepStart + 1 .. Len(history))
Drops(kept) == (1 .. KeepStart) \ kept # {}

\* compactionAnchor: the first kept message, or an earlier one when a pair lies across it.
Anchor(kept) ==
  Max({a \in 1 .. Min(kept) : ~ \E i \in 1 .. a - 1, j \in a .. Len(history) : SameGroup(i, j)})

\* Ids that do not belong to the messages are replaced by made-up ones.
FirstKept(kept, known) ==
  IF Len(known) = Len(history) THEN known[Anchor(kept)] ELSE Unresolved

CompactionOf(kept, known) ==
  Entry("compaction", FirstKept(kept, known), {history[i] : i \in kept}, Anchor(kept) = 1,
        explicit /\ FirstKept(kept, known) \notin {Unresolved, history[Anchor(kept)]})

\* The messages at the kept positions, in their order.
Keeping(kept) ==
  [n \in 1 .. Cardinality(kept) |->
     history[CHOOSE i \in kept : Cardinality({k \in kept : k <= i}) = n]]

-----------------------------------------------------------------------------
(* A turn.                                                                 *)

Init ==
  /\ line \in BOOLEAN
  /\ log = <<>> /\ history = <<>> /\ phase = "idle"
  /\ refreshes = FALSE /\ ids = <<>> /\ forced = FALSE /\ retried = FALSE
  /\ pending = FALSE /\ planned = <<>> /\ sent = <<>> /\ explicit = FALSE

Room(n) == Len(log) + n <= MaxEntries
MayCompact == Cardinality(Compactions) + Len(planned) < MaxCompactions
Add(entries) ==
  /\ log' = log \o entries
  /\ history' = history \o Between(Len(log) + 1, Len(log) + Len(entries))

\* The TUI, a run with one prompt and the gateway begin from the session.
Prompt ==
  /\ phase = "idle" /\ Room(1)
  /\ log' = Append(log, Text)
  /\ history' = Append(IF line THEN history ELSE Projection, Len(log) + 1)
  /\ phase' = "refresh" /\ refreshes' = ~line /\ ids' = <<>>
  /\ UNCHANGED <<line, forced, retried, pending, planned, sent, explicit>>

\* refreshEntryIDs and refreshProjectedEntryIDs compare nothing but lengths.
Refresh ==
  /\ phase = "refresh"
  /\ IF refreshes /\ Len(Projection) # Len(history)
     THEN phase' = "ended" /\ UNCHANGED ids
     ELSE phase' = "prepare" /\ ids' = IF refreshes THEN Projection ELSE ids
  /\ UNCHANGED <<line, log, history, refreshes, forced, retried, pending, planned, sent, explicit>>

RequestCompact ==
  /\ phase # "idle" /\ ~pending
  /\ pending' = TRUE
  /\ UNCHANGED <<line, log, history, phase, refreshes, ids, forced, retried, planned, sent,
                 explicit>>

\* The entry of a requested compaction is written at once; the messages of the loop stay.
PrepareExplicit ==
  /\ phase = "prepare" /\ pending
  /\ pending' = FALSE /\ phase' = "answer"
  /\ \/ sent' = history /\ UNCHANGED <<log, explicit>>
     \/ /\ MayCompact /\ Room(1)
        /\ \E choice \in Selections(TRUE) :
             LET kept == KeptOf(choice) IN
             /\ Drops(kept)
             /\ log' = Append(log, CompactionOf(kept, ids)) /\ sent' = Keeping(kept)
             /\ explicit' = TRUE
  /\ UNCHANGED <<line, history, refreshes, ids, forced, retried, planned>>

Prepare ==
  /\ phase = "prepare" /\ ~pending
  /\ forced' = FALSE /\ phase' = "answer"
  /\ \/ sent' = history /\ UNCHANGED planned
     \/ /\ MayCompact
        /\ \E choice \in Selections(~forced) :
             LET kept == KeptOf(choice) IN
             /\ Drops(kept)
             /\ planned' = Append(planned, CompactionOf(kept, ids)) /\ sent' = Keeping(kept)
  /\ UNCHANGED <<line, log, history, refreshes, ids, retried, pending, explicit>>

\* The model answers with text, or with calls that are run and recorded.
Answer ==
  /\ phase = "answer"
  /\ \/ phase' = "ended" /\ Room(1) /\ Add(<<Text>>)
     \/ \E n \in 1 .. MaxCalls :
          /\ phase' = "refresh" /\ Room(n + 1)
          /\ Add(<<Calls>> \o [i \in 1 .. n |-> ResultOf(Len(log) + 1)])
  /\ sent' = <<>> /\ UNCHANGED <<line, refreshes, ids, forced, retried, pending, planned, explicit>>

\* An overflow is met once with a reload and a compaction that needs no selector; any other
\* failure ends the turn.
Overflow ==
  /\ phase = "answer" /\ ~retried
  /\ retried' = TRUE /\ forced' = TRUE
  /\ history' = Projection /\ refreshes' = TRUE /\ phase' = "refresh" /\ sent' = <<>>
  /\ UNCHANGED <<line, log, ids, pending, planned, explicit>>

Fail ==
  /\ phase = "answer"
  /\ phase' = "ended" /\ sent' = <<>>
  /\ UNCHANGED <<line, log, history, refreshes, ids, forced, retried, pending, planned,
                 explicit>>

\* persistCompactions stops at an entry that cannot be written; a request that is still
\* pending becomes a job of its own.
EndTurn ==
  /\ phase = "ended"
  /\ \E n \in 0 .. Len(planned) : Room(n) /\ log' = log \o SubSeq(planned, 1, n)
  /\ phase' = "idle" /\ planned' = <<>> /\ pending' = FALSE /\ explicit' = FALSE
  /\ forced' = FALSE /\ retried' = FALSE /\ refreshes' = FALSE /\ ids' = <<>>
  /\ UNCHANGED <<line, history, sent>>

\* The job compacts what the host holds, under the ids the host holds: those of its last
\* reload, which in line mode are too few once a turn has run.
CompactIdle ==
  /\ phase = "idle" /\ MayCompact /\ Room(1)
  /\ \E known \in {<<>>, Projection}, choice \in Selections(TRUE) :
       LET kept == KeptOf(choice) IN
       /\ line \/ known # <<>>
       /\ known # <<>> => history = Projection
       /\ Drops(kept)
       /\ log' = Append(log, CompactionOf(kept, known))
  /\ UNCHANGED <<line, history, phase, refreshes, ids, forced, retried, pending, planned, sent,
                 explicit>>

\* The session is opened again, or the TUI reloads it.
Reload ==
  /\ phase = "idle"
  /\ history' = Projection
  /\ UNCHANGED <<line, log, phase, refreshes, ids, forced, retried, pending, planned, sent,
                 explicit>>

Next ==
  \/ Prompt \/ Refresh \/ RequestCompact \/ PrepareExplicit \/ Prepare \/ Answer \/ Overflow
  \/ Fail \/ EndTurn \/ CompactIdle \/ Reload

Spec == Init /\ [][Next]_vars

-----------------------------------------------------------------------------
(* Properties.                                                             *)

\* What is sent, and what a load of the session builds, keep calls and results together.
PairsIntact == Loadable(sent) /\ Loadable(Projection)

\* A requested compaction that is written under a turn leaves the loop the messages it had.
\* When their number is that of what the session shows by then, a further compaction of the
\* turn takes the id of another message for its anchor.
Astray == \E e \in ToSet(log) : e.astray

\* While a turn runs, the messages it holds are the ones the session projects to, in the same
\* order, so that an id means the same message to both; a compaction that was requested
\* during the turn and written under it is the exception.
IdsAlign == phase = "refresh" /\ refreshes /\ ~explicit => Projection = history

\* What the latest compaction chose to keep is still in the context after any number of loads,
\* unless the summary of an earlier one is the first message it kept: the entry of that one
\* lies behind older messages, which the next load leaves out.
KeptReload ==
  Compactions = {} \/
    LET last == log[Max(Compactions)] IN
    \/ last.kept \subseteq ToSet(Projection)
    \/ last.atHead /\ log[last.of].kind = "compaction"

\* However compactions follow each other, they leave the ids true, break no pair, and lose
\* nothing they kept, as long as no anchor went astray under a requested compaction.
CompactionHonest == IdsAlign /\ (Astray \/ (PairsIntact /\ KeptReload))

\* "reopen after compaction failed" is what internal/cli/session_compaction_pairs_test.go:126
\* rules out: the session stays loadable.
SessionReloads == Loadable(Projection)
===============================================================================
