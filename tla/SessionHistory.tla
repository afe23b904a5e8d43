--------------------------- MODULE SessionHistory ---------------------------
(***************************************************************************)
(* The three copies of a conversation: the session log on disk, the        *)
(* messages of the host (hostRuntime.messages) and the history a turn      *)
(* sends to the model.  The agent loop (agent/loop.go) records what it     *)
(* says and does in all three; deliveries and reloads replace copies by    *)
(* the projection of the log (session_projection.go); the callers of a     *)
(* turn (chat.go, host_scheduled.go, tui_bridge.go) copy histories between *)
(* turns, some of it outside every lock.                                   *)
(*                                                                         *)
(* A message is its position in the log.  HostMailbox says which message   *)
(* is delivered when; here only the number of waiting messages counts.     *)
(***************************************************************************)
EXTENDS Naturals, Sequences, FiniteSets

CONSTANTS
    Runners,      \* goroutines that run turns
    Prompter,     \* the runner of the user's prompts, in the TUI the only one
    Drivers,      \* which of the two modes are considered, "tui" and "line"
    MaxBatch,     \* bound: tool calls of one answer
    MaxTurns, MaxSends, MaxFaults,  \* bounds: turns, deliveries, failures
    MaxLog,       \* bound: entries after which the model asks for no more tools
    FaultKinds    \* which failures may happen

ASSUME HistoryAssumption ==
    /\ Prompter \in Runners /\ Runners \cap {"none", "sender"} = {}
    /\ Drivers \subseteq {"tui", "line"}
    /\ MaxBatch \in Nat \ {0} /\ MaxTurns \in Nat /\ MaxSends \in Nat
    /\ MaxFaults \in Nat /\ MaxLog \in Nat
    /\ FaultKinds \subseteq {"provider", "stream", "overflow", "cut", "hook",
                             "block", "disk", "cancel"}

VARIABLES
    driver,     \* the mode of this process: the TUI, or line mode and its jobs
    log,        \* the session entries that matter to the model, in file order
    host,       \* hostRuntime.messages
    hist,       \* the history of every runner's turn (b.history in the TUI)
    pc,         \* where every runner is
    todo,       \* the calls of the last answer that have not run, first to last
    checked,    \* the runner's loop refreshes entry ids before a request
    retried,    \* the turn has already recovered from a context overflow
    failed,     \* the runner's turn returns an error
    turnActive, \* hostRuntime.turnActive
    persist,    \* who is in persistDelivery (deliveryMu), how far, and its view
    queued,     \* steer, follow-up and next-turn deliveries that wait
    deferred,   \* deliveries that wait for the end of the turn
    turns, sends, faults,     \* counters
    raced,      \* history: an idle delivery was under way while a turn set out
    mishaps     \* history: what has happened to tool calls

vars == <<driver, log, host, hist, pc, todo, checked, retried, failed, turnActive, persist,
          queued, deferred, turns, sends, faults, raced, mishaps>>
tools   == <<todo, mishaps>>
waiting == <<queued, deferred>>
bounds  == <<turns, sends, faults>>

-----------------------------------------------------------------------------
\* Session entries and their projection.

\* calls: how many tools an assistant message asks for; of: the message a tool
\* result answers.
Entry == [kind: {"message", "calls", "result", "error"}, calls: Nat, of: Nat]

Plain      == [kind |-> "message", calls |-> 0, of |-> 0]
Failure    == [kind |-> "error", calls |-> 0, of |-> 0]
Asks(n)    == [kind |-> "calls", calls |-> n, of |-> 0]
Answers(i) == [kind |-> "result", calls |-> 0, of |-> i]

\* projectModelHistoryWithIDs: the messages in file order, provider errors left out.
Messages(l) == {i \in DOMAIN l : l[i].kind # "error"}
Projection(l) ==
    [k \in 1..Cardinality(Messages(l)) |->
        CHOOSE i \in Messages(l) : Cardinality({j \in Messages(l) : j <= i}) = k]

\* validateModelHistoryTools: every call has its result, else no projection.
Paired(l) ==
    \A i \in DOMAIN l :
        Cardinality({j \in DOMAIN l : l[j].of = i}) = l[i].calls

Loads == Paired(log)
View  == Projection(log)

Tui == driver = "tui"

Init ==
    /\ driver \in Drivers
    /\ log = <<>> /\ host = <<>>
    /\ hist = [r \in Runners |-> <<>>]
    /\ pc = [r \in Runners |-> "idle"]
    /\ todo = 0 /\ checked = [r \in Runners |-> Tui \/ r # Prompter]
    /\ retried = FALSE /\ failed = [r \in Runners |-> FALSE]
    /\ turnActive = FALSE
    /\ persist = [by |-> "none", phase |-> "free", view |-> <<>>]
    /\ queued = 0 /\ deferred = 0
    /\ turns = 0 /\ sends = 0 /\ faults = 0
    /\ raced = FALSE /\ mishaps = {}

At(r, label)   == pc[r] = label
GoTo(r, label) == pc' = [pc EXCEPT ![r] = label]

\* loopMu is held from the snapshot to the end of the turn.
LoopPhases == {"snapshot", "set", "prompt", "poll", "refresh", "request", "tools",
               "warned", "retry", "stop", "end", "canceled", "drain"}
LoopFree == \A r \in Runners : pc[r] \notin LoopPhases

Fault(kind) == kind \in FaultKinds /\ faults < MaxFaults /\ faults' = faults + 1
NoFault     == UNCHANGED faults
Fails(r)    == failed' = [failed EXCEPT ![r] = TRUE]

\* A recorder appends to the session, hostTapRecorder to the host's messages
\* and the loop to its history.
Record(r, entry) ==
    /\ log' = Append(log, entry)
    /\ host' = Append(host, Len(log) + 1)
    /\ hist' = [hist EXCEPT ![r] = Append(@, Len(log) + 1)]

-----------------------------------------------------------------------------
\* Setting out.

\* The TUI reloads the session before a turn and gives up when it cannot.
Load(r) ==
    /\ Tui /\ r = Prompter
    /\ At(r, "idle") /\ turns < MaxTurns
    /\ turns' = turns + 1
    /\ IF Loads THEN hist' = [hist EXCEPT ![r] = View] /\ GoTo(r, "loaded")
                ELSE UNCHANGED <<hist, pc>>
    /\ raced' = FALSE
    /\ UNCHANGED <<log, host, tools, checked, retried, failed, turnActive, persist,
                   waiting, sends, faults>>

\* syncHostSession, at the end of refreshProjection.
MutantSyncHost(r) == UNCHANGED host
SyncHost(r)       == host' = hist[r]

Sync(r) ==
    /\ pc[r] \in {"loaded", "reloaded"}
    /\ SyncHost(r)
    /\ GoTo(r, IF At(r, "loaded") THEN "waiting" ELSE "idle")
    /\ UNCHANGED <<log, hist, tools, checked, retried, failed, turnActive, persist,
                   waiting, bounds, raced>>

\* A line-mode job reads the host's messages before it waits for loopMu; the
\* repl passes the history its last turn returned.
LineTurn(r) ==
    /\ ~Tui
    /\ At(r, "idle") /\ turns < MaxTurns
    /\ turns' = turns + 1
    /\ hist' = IF r = Prompter THEN hist ELSE [hist EXCEPT ![r] = host]
    /\ GoTo(r, "waiting")
    /\ raced' = (raced \/ persist.by = "sender")
    /\ UNCHANGED <<log, host, tools, checked, retried, failed, turnActive, persist,
                   waiting, sends, faults>>

\* A job that has become stale returns the history it was started with.
StaleJob(r) ==
    /\ At(r, "waiting") /\ LoopFree
    /\ Tui \/ r # Prompter
    /\ GoTo(r, "after")
    /\ failed' = [failed EXCEPT ![r] = FALSE]
    /\ UNCHANGED <<log, host, hist, tools, checked, retried, turnActive, persist,
                   waiting, bounds, raced>>

\* Under loopMu the messages of the host take the place of what was passed.
Snapshot(r) ==
    /\ At(r, "waiting") /\ LoopFree
    /\ hist' = IF host = <<>> THEN hist ELSE [hist EXCEPT ![r] = host]
    /\ failed' = [failed EXCEPT ![r] = FALSE] /\ retried' = FALSE
    /\ GoTo(r, "snapshot")
    /\ UNCHANGED <<log, host, tools, checked, turnActive, persist, waiting, bounds,
                   raced>>

SetMessages(r) ==
    /\ At(r, "snapshot")
    /\ host' = hist[r]
    /\ GoTo(r, "set")
    /\ UNCHANGED <<log, hist, tools, checked, retried, failed, turnActive, persist,
                   waiting, bounds, raced>>

\* beginTurn waits for turnMu, which an idle delivery holds until it is done.
BeginTurn(r) ==
    /\ At(r, "set") /\ persist.by # "sender"
    /\ turnActive' = TRUE
    /\ \E label \in {"prompt", "poll"} :
         /\ label = "poll" => Tui \/ r # Prompter
         /\ GoTo(r, label)
    /\ UNCHANGED <<log, host, hist, tools, checked, retried, failed, persist, waiting,
                   bounds, raced>>

\* RunTurn records the prompt first.
RecordPrompt(r) ==
    /\ At(r, "prompt")
    /\ \/ Record(r, Plain) /\ GoTo(r, "poll") /\ NoFault /\ UNCHANGED failed
       \/ Fault("disk") /\ Fails(r) /\ GoTo(r, "end") /\ UNCHANGED <<log, host, hist>>
    /\ UNCHANGED <<tools, checked, retried, turnActive, persist, waiting, turns, sends,
                   raced>>

-----------------------------------------------------------------------------
\* Boundaries.

\* What the loop does with a delivered message: the reloaded projection takes
\* the place of its history.
MutantDelivered(r, view) == hist' = [hist EXCEPT ![r] = @ \o view]
Delivered(r, view)       == hist' = [hist EXCEPT ![r] = view]

\* mailboxBoundary persists one delivery; no idle delivery can be under way.
Deliver(r, label) ==
    LET delivered == Append(log, Plain) IN
    /\ log' = delivered
    /\ IF Paired(delivered)
       THEN /\ host' = Projection(delivered)
            /\ Delivered(r, Projection(delivered))
            /\ GoTo(r, label)
            /\ UNCHANGED failed
       ELSE /\ Fails(r) /\ GoTo(r, "end")
            /\ UNCHANGED <<host, hist>>
    /\ NoFault

DeliveryFails(r) ==
    /\ Fault("disk")
    /\ Fails(r) /\ GoTo(r, "end")
    /\ UNCHANGED <<log, host, hist>>

\* Before a request: deliver what waits, one slot at a time, or pass.
Poll(r) ==
    /\ At(r, "poll")
    /\ \/ /\ queued > 0
          /\ queued' = queued - 1
          /\ (\E label \in {"poll", "refresh"} : Deliver(r, label)) \/ DeliveryFails(r)
       \/ /\ GoTo(r, "refresh") /\ NoFault
          /\ UNCHANGED <<log, host, hist, failed, queued>>
    /\ UNCHANGED <<tools, checked, retried, turnActive, persist, deferred, turns, sends,
                   raced>>

\* A canceled context ends a turn at the head of the loop, at a boundary, or in
\* the request; or the turn is over when it is canceled.
Cancel(r) ==
    /\ pc[r] \in {"poll", "request", "stop", "end"}
    /\ Fault("cancel")
    /\ failed' = [failed EXCEPT ![r] = @ \/ ~At(r, "end")]
    /\ GoTo(r, "canceled")
    /\ UNCHANGED <<log, host, hist, tools, checked, retried, turnActive, persist,
                   waiting, turns, sends, raced>>

MutantAligned(r) == TRUE
Aligned(r) == Len(View) = Len(hist[r])

\* RefreshSessionEntryIDs reloads the session, in the TUI into the host as well,
\* and turns the request away when the ids do not match the history in number.
Refresh(r) ==
    /\ At(r, "refresh")
    /\ host' = IF Tui /\ ~retried /\ Loads THEN View ELSE host
    /\ IF checked[r] => Loads /\ Aligned(r)
       THEN GoTo(r, "request") /\ UNCHANGED failed
       ELSE GoTo(r, "end") /\ Fails(r)
    /\ UNCHANGED <<log, hist, tools, checked, retried, turnActive, persist, waiting,
                   bounds, raced>>

-----------------------------------------------------------------------------
\* A request and the tools of its answer.

AtRequest(r) ==
    /\ At(r, "request")
    /\ UNCHANGED <<retried, checked, turnActive, persist, waiting, turns, sends, raced>>

\* An answer without tool calls.
Stops(r) ==
    /\ AtRequest(r)
    /\ Record(r, Plain)
    /\ GoTo(r, "stop")
    /\ NoFault
    /\ UNCHANGED <<tools, failed>>

\* stopReason toolUse: the calls run in order; without calls the turn is over.
UsesTools(r) ==
    /\ AtRequest(r)
    /\ Len(log) < MaxLog
    /\ \E n \in 0..MaxBatch :
         /\ Record(r, Asks(n))
         /\ todo' = n
         /\ GoTo(r, IF n = 0 THEN "end" ELSE "tools")
    /\ NoFault
    /\ UNCHANGED <<failed, mishaps>>

\* Any other stopReason with calls in the answer: they are recorded, never run.
CutWithCalls(r) ==
    /\ AtRequest(r)
    /\ Fault("cut")
    /\ \E n \in 1..MaxBatch : Record(r, Asks(n))
    /\ mishaps' = mishaps \cup {"cut"}
    /\ GoTo(r, "stop")
    /\ UNCHANGED <<failed, todo>>

\* An answer with stopReason error is recorded, then the turn fails.
ProviderError(r) ==
    /\ AtRequest(r)
    /\ Fault("provider")
    /\ Record(r, Failure)
    /\ Fails(r) /\ GoTo(r, "end")
    /\ UNCHANGED tools

\* A broken stream, a failing hook or a failing recorder records nothing.
StreamFails(r) ==
    /\ AtRequest(r)
    /\ Fault("stream")
    /\ Fails(r) /\ GoTo(r, "end")
    /\ UNCHANGED <<log, host, hist, tools>>

\* A context overflow, recorded or not, is retried once after a compaction.
Overflows(r) ==
    /\ AtRequest(r)
    /\ Fault("overflow")
    /\ Record(r, Failure) \/ UNCHANGED <<log, host, hist>>
    /\ IF retried THEN Fails(r) /\ GoTo(r, "end")
                  ELSE UNCHANGED failed /\ GoTo(r, "retry")
    /\ UNCHANGED tools

\* continueTurn starts over from the projection, in every mode with refreshes.
ContinueTurn(r) ==
    /\ At(r, "retry")
    /\ retried' = TRUE
    /\ checked' = [checked EXCEPT ![r] = TRUE]
    /\ IF Loads THEN hist' = [hist EXCEPT ![r] = View] /\ GoTo(r, "poll") /\ UNCHANGED failed
                ELSE hist' = [hist EXCEPT ![r] = <<>>] /\ GoTo(r, "end") /\ Fails(r)
    /\ UNCHANGED <<log, host, tools, turnActive, persist, waiting, bounds, raced>>

AtTools(r) ==
    /\ At(r, "tools")
    /\ UNCHANGED <<checked, retried, turnActive, persist, waiting, turns, sends, raced>>

\* The answer whose calls are running.
Asker == CHOOSE i \in DOMAIN log :
            log[i].kind = "calls" /\ \A j \in DOMAIN log : log[j].kind = "calls" => j <= i

\* A call runs, or is denied, and its result is recorded; the next one follows.
MutantNextCall(r) == GoTo(r, "poll")
NextCall(r)       == GoTo(r, IF todo = 1 THEN "warned" ELSE "tools")

ToolResult(r) ==
    /\ AtTools(r)
    /\ Record(r, Answers(Asker))
    /\ todo' = todo - 1
    /\ NextCall(r)
    /\ NoFault
    /\ UNCHANGED <<failed, mishaps>>

\* The loop detector records a result for the call and stops the turn.  The loop allows for it;
\* with one call per observation the detector of the program never escalates that far.
ToolBlocked(r) ==
    /\ AtTools(r)
    /\ Fault("block")
    /\ Record(r, Answers(Asker))
    /\ todo' = 0
    /\ mishaps' = IF todo > 1 THEN mishaps \cup {"block"} ELSE mishaps
    /\ Fails(r) /\ GoTo(r, "end")

\* A failing hook or recorder stops the turn without a result.
ToolFails(r) ==
    /\ AtTools(r)
    /\ Fault("hook")
    /\ todo' = 0
    /\ mishaps' = mishaps \cup {"hook"}
    /\ Fails(r) /\ GoTo(r, "end")
    /\ UNCHANGED <<log, host, hist>>

\* Behind the batch the loop records the detector's warnings, if there are any.
Warns(r) ==
    /\ At(r, "warned")
    /\ Record(r, Plain) \/ UNCHANGED <<log, host, hist>>
    /\ GoTo(r, "poll")
    /\ UNCHANGED <<tools, checked, retried, failed, turnActive, persist, waiting, bounds,
                   raced>>

\* The stop boundary: steer and follow-up deliveries continue the turn, deferred
\* ones do not, next-turn ones stay.
Stop(r) ==
    /\ At(r, "stop")
    /\ \/ /\ queued > 0
          /\ queued' = queued - 1
          /\ UNCHANGED deferred
          /\ Deliver(r, "poll") \/ DeliveryFails(r)
       \/ /\ deferred > 0
          /\ deferred' = deferred - 1
          /\ UNCHANGED queued
          /\ Deliver(r, IF deferred > 1 THEN "stop" ELSE "end") \/ DeliveryFails(r)
       \/ /\ deferred = 0
          /\ GoTo(r, "end") /\ NoFault
          /\ UNCHANGED <<log, host, hist, failed, waiting>>
    /\ UNCHANGED <<tools, checked, retried, turnActive, persist, turns, sends, raced>>

-----------------------------------------------------------------------------
\* The end of a turn, and the deliveries persisted outside a boundary.

EndTurn(r) ==
    /\ At(r, "end") /\ persist.by # "sender"
    /\ turnActive' = FALSE
    /\ GoTo(r, "drain")
    /\ UNCHANGED <<log, host, hist, tools, checked, retried, failed, persist, waiting,
                   bounds, raced>>

\* A canceled turn drops what was sent to it, but for the next turn.
EndCanceled(r) ==
    /\ At(r, "canceled") /\ persist.by # "sender"
    /\ turnActive' = FALSE
    /\ queued' \in 0..queued /\ deferred' = 0
    /\ GoTo(r, "after")
    /\ UNCHANGED <<log, host, hist, tools, checked, retried, failed, persist, bounds,
                   raced>>

Free == [by |-> "none", phase |-> "free", view |-> <<>>]

\* persistDelivery, under deliveryMu: commit, reload, replace the host's copy.
PersistCommits(by) ==
    /\ log' = Append(log, Plain)
    /\ persist' = [by |-> by, phase |-> "committed", view |-> <<>>]

DrainPops(r) ==
    /\ At(r, "drain") /\ deferred > 0 /\ persist.by = "none"
    /\ deferred' = deferred - 1
    /\ \/ PersistCommits(r) /\ NoFault /\ UNCHANGED <<pc, failed>>
       \/ /\ Fault("disk") /\ Fails(r) /\ GoTo(r, "after")
          /\ UNCHANGED <<log, persist>>
    /\ UNCHANGED <<host, hist, tools, checked, retried, turnActive, queued, turns,
                   sends, raced>>

DrainEnds(r) ==
    /\ At(r, "drain") /\ deferred = 0 /\ persist.by # r
    /\ GoTo(r, "after")
    /\ UNCHANGED <<log, host, hist, tools, checked, retried, failed, turnActive, persist,
                   waiting, bounds, raced>>

\* A reload that fails also ends the drain it is part of.
PersistLoads ==
    /\ persist.phase = "committed"
    /\ IF Loads
       THEN /\ persist' = [persist EXCEPT !.phase = "loaded", !.view = View]
            /\ UNCHANGED <<pc, failed>>
       ELSE /\ persist' = Free
            /\ IF persist.by \in Runners THEN GoTo(persist.by, "after") /\ Fails(persist.by)
                                         ELSE UNCHANGED <<pc, failed>>
    /\ UNCHANGED <<log, host, hist, tools, checked, retried, turnActive, waiting, bounds,
                   raced>>

PersistSets ==
    /\ persist.phase = "loaded"
    /\ host' = persist.view
    /\ persist' = Free
    /\ UNCHANGED <<log, hist, pc, tools, checked, retried, failed, turnActive, waiting,
                   bounds, raced>>

\* Senders take turnMu.  An idle message is persisted by its sender, or waits
\* for the turn it triggers; a message to a running turn waits for it.
Send ==
    /\ sends < MaxSends
    /\ persist.by # "sender"
    /\ sends' = sends + 1
    /\ \/ /\ ~turnActive /\ persist.by = "none"
          /\ PersistCommits("sender")
          /\ raced' = (raced \/ \E r \in Runners : pc[r] # "idle")
          /\ UNCHANGED waiting
       \/ /\ queued' = queued + 1
          /\ UNCHANGED <<log, persist, raced, deferred>>
       \/ /\ turnActive
          /\ deferred' = deferred + 1
          /\ UNCHANGED <<log, persist, raced, queued>>
    /\ UNCHANGED <<host, hist, pc, tools, checked, retried, failed, turnActive, turns,
                   faults>>

\* The caller of a line-mode turn gives the history it got back to the host,
\* after loopMu was released; the repl ends with its first error.
GiveBack(r) ==
    /\ ~Tui
    /\ At(r, "after")
    /\ IF r = Prompter /\ failed[r]
       THEN GoTo(r, "exited") /\ UNCHANGED host
       ELSE GoTo(r, "idle") /\ host' = IF hist[r] = <<>> THEN host ELSE hist[r]
    /\ checked' = [checked EXCEPT ![r] = r # Prompter]
    /\ UNCHANGED <<log, hist, tools, retried, failed, turnActive, persist, waiting,
                   bounds, raced>>

\* The TUI reloads the session after a turn.
Reload(r) ==
    /\ Tui
    /\ At(r, "after")
    /\ IF Loads THEN hist' = [hist EXCEPT ![r] = View] /\ GoTo(r, "reloaded")
                ELSE GoTo(r, "idle") /\ UNCHANGED hist
    /\ UNCHANGED <<log, host, tools, checked, retried, failed, turnActive, persist,
                   waiting, bounds, raced>>

-----------------------------------------------------------------------------
SetsOut(r) == \/ Load(r) \/ Sync(r) \/ LineTurn(r) \/ StaleJob(r) \/ Snapshot(r)
              \/ SetMessages(r) \/ BeginTurn(r) \/ RecordPrompt(r)

Loop(r) == \/ Poll(r) \/ Cancel(r) \/ Refresh(r) \/ Stop(r)
           \/ Stops(r) \/ UsesTools(r) \/ CutWithCalls(r) \/ ProviderError(r)
           \/ StreamFails(r) \/ Overflows(r) \/ ContinueTurn(r)
           \/ ToolResult(r) \/ ToolBlocked(r) \/ ToolFails(r) \/ Warns(r)

Ends(r) == EndTurn(r) \/ EndCanceled(r) \/ DrainPops(r) \/ DrainEnds(r) \/ GiveBack(r) \/ Reload(r)

Next ==
    /\ \/ \E r \in Runners : SetsOut(r) \/ Loop(r) \/ Ends(r)
       \/ PersistLoads \/ PersistSets \/ Send
    /\ driver' = driver

Spec == Init /\ [][Next]_vars

-----------------------------------------------------------------------------
\* Properties.

Increasing(q) == \A i, j \in DOMAIN q : i < j => q[i] < q[j]

\* No copy of the conversation holds a message twice, out of order, or one that
\* the session does not hold: deliveries replace a history, they are not added.
HistoriesInOrder ==
    /\ Increasing(host)
    /\ \A i \in DOMAIN host : host[i] \in DOMAIN log
    /\ \A r \in Runners :
         /\ Increasing(hist[r])
         /\ \A i \in DOMAIN hist[r] : hist[r][i] \in DOMAIN log

\* docs/sdk-runtime.md: the model history is rebuilt from the file "so a resumed
\* session shows each message once, entry ids stay aligned".  A request sends
\* what the session holds, the same messages and not only as many.
RequestsAlign == \A r \in Runners : At(r, "request") => hist[r] = View

\* In the TUI every request does.
RequestMatchesSession == Tui => RequestsAlign

\* When the TUI is at rest the host shows the session as it is on disk, however
\* the last turn ended, unless a delivery came in while the turn was ending.
HostFollowsSession ==
    (Tui /\ Loads /\ ~raced /\ persist.by = "none" /\ \A r \in Runners : At(r, "idle"))
        => host = View

\* "Tool call and result pairs remain valid": no prompt, delivery or warning
\* comes between a call and its result, whoever writes, unless the turn was
\* stopped within a batch.
PairsStayTogether ==
    (mishaps = {} /\ \A r \in Runners : ~At(r, "tools")) => Paired(log)

\* session_projection.go refuses a session with a "pending tool call": the
\* program takes it that no turn leaves one behind.
SessionStaysLoadable == LoopFree => Loads
=============================================================================
