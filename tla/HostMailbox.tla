---------------------------- MODULE HostMailbox ----------------------------
(***************************************************************************)
(* The delivery mailbox of the host runtime (internal/cli/host_mailbox.go, *)
(* host_scheduled.go, host_runtime.go) together with the turns that drain  *)
(* it (cli/chat.go, agent/loop.go).                                        *)
(*                                                                         *)
(* Extensions send messages at any time.  A message is persisted at once,  *)
(* queued for the running turn, or makes the host schedule a turn of its   *)
(* own.  Turns take loopMu one at a time; scheduled turns travel through a *)
(* dispatcher, so a turn that was current when it was scheduled may be     *)
(* stale when it gets the lock.  A token, renewed whenever a continuation  *)
(* is queued, consumed or invalidated, tells them apart.                   *)
(***************************************************************************)
EXTENDS Naturals, Sequences, FiniteSets

CONSTANTS
    Deliveries,      \* the messages extensions may send, each at most once
    MaxPrompts,      \* bound: turns started by the user and by /agent
    MaxGenerations,  \* bound: sessions bound to the host, one after the other
    MaxFaults,       \* bound: failures and interrupts of one behaviour
    FaultKinds,      \* which failures the environment may inject
    Serial           \* TRUE: the TUI worker runs jobs one by one
                     \* FALSE: line and print mode, a goroutine per job

ASSUME MailboxAssumption ==
    /\ MaxPrompts \in Nat /\ MaxGenerations \in Nat /\ MaxFaults \in Nat
    /\ FaultKinds \subseteq {"provider", "disk", "reload", "interrupt"}
    /\ Serial \in BOOLEAN

VARIABLES
    closed,              \* hostRuntime.closed
    cleared,             \* shutdown has emptied the mailbox and cancelled runCtx
    generation,          \* generation of the bound session and of its mailbox
    turnActive,          \* hostRuntime.turnActive
    steer, followUp, deferred, nextTurn,      \* the queues of hostMailbox
    scheduled,           \* hostMailbox.scheduled, ordered by stamp
    continuationQueued, skipSteerOnce,        \* flags of hostMailbox
    continuationToken,   \* hostMailbox.continuationToken = tokenSequence
    jobQueued,           \* hostMailbox.jobQueued
    jobs,                \* jobs handed to the dispatcher that hold no loopMu
    kicks,               \* goroutines about to call scheduleMailbox
    turn,                \* the turn that holds loopMu
    liveTurns,           \* turns whose context is not cancelled
    returning,           \* turns past loopMu whose context is not released yet
    hand,                \* the delivery popped by a boundary, not yet persisted
    turnSeq, stamp, prompts, faults,          \* counters
    mishaps,             \* history: "reload" of a continuation, "drain" of the deferred
    fate,                \* history: what became of every delivery
    log                  \* history: the session entries, in commit order

queues    == <<steer, followUp, deferred, nextTurn>>
schedule  == <<scheduled, continuationQueued, continuationToken, jobQueued, jobs>>
lifecycle == <<closed, cleared, generation>>
counters  == <<stamp, prompts, faults, mishaps>>
history   == <<fate, log>>
contexts  == <<turnSeq, liveTurns, returning>>
vars == <<closed, cleared, generation, turnActive, steer, followUp, deferred,
          nextTurn, scheduled, continuationQueued, skipSteerOnce,
          continuationToken, jobQueued, jobs, kicks, turn, liveTurns, returning,
          hand, turnSeq, stamp, prompts, faults, mishaps, fate, log>>

-----------------------------------------------------------------------------
\* Types.

Queues == {"steer", "followUp", "deferred", "nextTurn"}
Fates  == {"unsent", "queued", "persisted", "dropped", "lost"}
Phases == {"none", "admitted", "poll", "persist", "request", "stop", "agent",
           "end", "drain", "drainPersist", "finish"}

\* hostDelivery; signal is 0 for none, else the turn whose context it captured.
Delivery == [id: Deliveries, queue: Queues, gen: Nat, continueTurn: BOOLEAN,
             signal: Nat, stamp: Nat]

\* hostScheduledTurn; text holds the delivery of an external turn.
ScheduledTurn == [stamp: Nat, gen: Nat, token: Nat, external: BOOLEAN,
                  text: SUBSET Deliveries]

Job  == [turn: ScheduledTurn, phase: {"dispatched", "ready"}]
Turn == [n: Nat, kind: {"external", "continuation", "agent"}, job: BOOLEAN,
         gen: Nat, phase: Phases, external: BOOLEAN, stopping: BOOLEAN,
         more: BOOLEAN, text: SUBSET Deliveries]

Entry == [id: Deliveries, queue: Queues \cup {"direct", "prompt"},
          gen: Nat, sent: Nat, stamp: Nat]

NoTurn == [n |-> 0, kind |-> "agent", job |-> FALSE, gen |-> 0,
           phase |-> "none", external |-> FALSE, stopping |-> FALSE,
           more |-> FALSE, text |-> {}]

Elements(q) == {q[i] : i \in DOMAIN q}
Ids(q)      == {d.id : d \in Elements(q)}

-----------------------------------------------------------------------------
\* A new host; prompts, faults and generation only count towards their bounds.
NewHost ==
    /\ closed = FALSE /\ cleared = FALSE /\ turnActive = FALSE
    /\ steer = <<>> /\ followUp = <<>> /\ deferred = <<>> /\ nextTurn = <<>>
    /\ scheduled = {} /\ continuationQueued = FALSE /\ skipSteerOnce = FALSE
    /\ continuationToken = 0 /\ jobQueued = FALSE /\ jobs = {} /\ kicks = 0
    /\ turn = NoTurn /\ liveTurns = {} /\ returning = {} /\ hand = <<>>
    /\ turnSeq = 0 /\ stamp = 0 /\ mishaps = {}
    /\ fate = [d \in Deliveries |-> "unsent"]
    /\ log = <<>>

Init == NewHost /\ generation = 1 /\ prompts = 0 /\ faults = 0

Settle(ids, f) == fate' = [d \in Deliveries |-> IF d \in ids THEN f ELSE fate[d]]

Fault(kind) ==
    /\ kind \in FaultKinds /\ faults < MaxFaults
    /\ faults' = faults + 1
    /\ UNCHANGED <<stamp, prompts, mishaps>>

Live(signal) == signal = 0 \/ signal \in liveTurns

-----------------------------------------------------------------------------
\* enqueueDelivery.  Its refusals (closed host, replaced session, cancelled
\* signal, a user send without a mode during a turn) change nothing.

MutantMayEnqueue(d, signal) ==
    /\ fate[d] = "unsent"
    /\ stamp' = stamp + 1
    /\ UNCHANGED <<lifecycle, turnActive, skipSteerOnce, turn, contexts, hand,
                   prompts, faults, mishaps>>

MayEnqueue(d, signal) ==
    /\ fate[d] = "unsent"
    /\ ~closed
    /\ signal = 0 \/ signal \in liveTurns
    /\ stamp' = stamp + 1
    /\ UNCHANGED <<lifecycle, turnActive, skipSteerOnce, turn, contexts, hand,
                   prompts, faults, mishaps>>

NewDelivery(d, queue, continue, signal) ==
    [id |-> d, queue |-> queue, gen |-> generation, continueTurn |-> continue,
     signal |-> signal, stamp |-> stamp]

MutantQueueStaleToken ==
    /\ continuationToken' = continuationToken + 1
    /\ scheduled' = scheduled \cup
         {[stamp |-> stamp, gen |-> generation, token |-> continuationToken,
           external |-> FALSE, text |-> {}]}
    /\ continuationQueued' = TRUE

QueueContinuationLocked ==
    IF continuationQueued
    THEN UNCHANGED <<scheduled, continuationQueued, continuationToken>>
    ELSE /\ continuationToken' = continuationToken + 1
         /\ scheduled' = scheduled \cup
              {[stamp |-> stamp, gen |-> generation, token |-> continuationToken + 1,
                external |-> FALSE, text |-> {}]}
         /\ continuationQueued' = TRUE

\* A user message while no turn runs becomes an external turn.
SendUserIdle(d, signal) ==
    /\ MayEnqueue(d, signal)
    /\ ~turnActive
    /\ scheduled' = scheduled \cup
         {[stamp |-> stamp, gen |-> generation, token |-> 0, external |-> TRUE,
           text |-> {d}]}
    /\ kicks' = kicks + 1
    /\ Settle({d}, "queued")
    /\ UNCHANGED <<queues, continuationQueued, continuationToken, jobQueued, jobs, log>>

\* nextTurn waits for an external turn and forgets its signal.
SendNextTurn(d, signal) ==
    /\ MayEnqueue(d, signal)
    /\ nextTurn' = Append(nextTurn, NewDelivery(d, "nextTurn", FALSE, 0))
    /\ Settle({d}, "queued")
    /\ UNCHANGED <<steer, followUp, deferred, schedule, kicks, log>>

\* An idle custom message that triggers nothing is committed under turnMu.
SendIdlePersisted(d, signal) ==
    /\ MayEnqueue(d, signal)
    /\ ~turnActive
    /\ log' = Append(log, [id |-> d, queue |-> "direct", gen |-> generation,
                           sent |-> generation, stamp |-> stamp])
    /\ Settle({d}, "persisted")
    /\ UNCHANGED <<queues, schedule, kicks>>

\* An idle custom message that triggers a turn claims a continuation.
SendIdleTrigger(d, signal) ==
    /\ MayEnqueue(d, signal)
    /\ ~turnActive
    /\ steer' = Append(steer, NewDelivery(d, "steer", TRUE, signal))
    /\ QueueContinuationLocked
    /\ kicks' = kicks + 1
    /\ Settle({d}, "queued")
    /\ UNCHANGED <<followUp, deferred, nextTurn, jobQueued, jobs, log>>

SendActiveFollowUp(d, signal) ==
    /\ MayEnqueue(d, signal)
    /\ turnActive
    /\ followUp' = Append(followUp, NewDelivery(d, "followUp", TRUE, signal))
    /\ Settle({d}, "queued")
    /\ UNCHANGED <<steer, deferred, nextTurn, schedule, kicks, log>>

MutantSendActiveSteer(d, signal) ==
    /\ MayEnqueue(d, signal)
    /\ turnActive
    /\ steer' = <<NewDelivery(d, "steer", TRUE, signal)>> \o steer
    /\ Settle({d}, "queued")
    /\ UNCHANGED <<followUp, deferred, nextTurn, schedule, kicks, log>>

SendActiveSteer(d, signal) ==
    /\ MayEnqueue(d, signal)
    /\ turnActive
    /\ steer' = Append(steer, NewDelivery(d, "steer", TRUE, signal))
    /\ Settle({d}, "queued")
    /\ UNCHANGED <<followUp, deferred, nextTurn, schedule, kicks, log>>

SendActiveDeferred(d, signal) ==
    /\ MayEnqueue(d, signal)
    /\ turnActive
    /\ deferred' = Append(deferred, NewDelivery(d, "deferred", FALSE, signal))
    /\ Settle({d}, "queued")
    /\ UNCHANGED <<steer, followUp, nextTurn, schedule, kicks, log>>

\* Handlers are given the context of a chat turn; /agent runs dispatch none.
HandlerContexts == IF turn.kind = "agent" THEN liveTurns \ {turn.n} ELSE liveTurns

Send(d) == \E signal \in HandlerContexts \cup {0} :
    \/ SendUserIdle(d, signal)      \/ SendNextTurn(d, signal)
    \/ SendIdlePersisted(d, signal) \/ SendIdleTrigger(d, signal)
    \/ SendActiveFollowUp(d, signal) \/ SendActiveSteer(d, signal)
    \/ SendActiveDeferred(d, signal)

-----------------------------------------------------------------------------
\* scheduleMailbox: hand the oldest scheduled turn to the dispatcher.

DispatchNext ==
    \/ /\ closed \/ jobQueued \/ scheduled = {}
       /\ UNCHANGED <<scheduled, jobQueued, jobs>>
    \/ /\ ~closed /\ ~jobQueued
       /\ \E t \in scheduled :
            /\ \A u \in scheduled : t.stamp <= u.stamp
            /\ scheduled' = scheduled \ {t}
            /\ jobs' = jobs \cup {[turn |-> t, phase |-> "dispatched"]}
       /\ jobQueued' = TRUE

ScheduleMailbox ==
    /\ kicks > 0
    /\ kicks' = kicks - 1
    /\ DispatchNext
    /\ UNCHANGED <<lifecycle, turnActive, queues, continuationQueued,
                   skipSteerOnce, continuationToken, turn, contexts, hand,
                   counters, history>>

\* The TUI worker runs one job at a time, from its check to its return.
WorkerFree ==
    Serial => /\ turn.phase = "none"
              /\ returning = {}
              /\ \A j \in jobs : j.phase = "dispatched"

MutantAsksForNext == UNCHANGED kicks
AsksForNext == kicks' = kicks + 1

MutantTurnCurrent(t) == ~closed /\ (t.external \/ t.token = continuationToken)

\* scheduledTurnCurrent, and the same test at the head of the dispatched job.
ScheduledTurnCurrent(t) ==
    /\ ~closed
    /\ t.gen = generation
    /\ t.external \/ t.token = continuationToken

\* The dispatched job finds its turn current and leaves the mailbox.
JobStarts(j) ==
    /\ WorkerFree
    /\ j.phase = "dispatched"
    /\ ScheduledTurnCurrent(j.turn)
    /\ jobQueued' = FALSE
    /\ continuationQueued' = (continuationQueued /\ j.turn.external)
    /\ jobs' = (jobs \ {j}) \cup {[j EXCEPT !.phase = "ready"]}
    /\ UNCHANGED <<lifecycle, turnActive, queues, scheduled, skipSteerOnce,
                   continuationToken, kicks, turn, contexts, hand, counters,
                   history>>

\* The job, or the turn it was about to run, is stale: it asks for the next one.
JobSkipped(j) ==
    /\ j.phase = "dispatched" => WorkerFree
    /\ ~ScheduledTurnCurrent(j.turn)
    /\ jobQueued' = (jobQueued /\ ~(j.phase = "dispatched" /\ j.turn.gen = generation))
    /\ jobs' = jobs \ {j}
    /\ AsksForNext
    /\ Settle(j.turn.text, "dropped")
    /\ UNCHANGED <<lifecycle, turnActive, queues, scheduled, continuationQueued,
                   skipSteerOnce, continuationToken, turn, contexts, hand,
                   counters, log>>

\* The TUI reloads the session before a turn and gives the turn up on an error.
JobRefused(j) ==
    /\ Serial
    /\ j.phase = "ready"
    /\ ScheduledTurnCurrent(j.turn)
    /\ turn.phase = "none"
    /\ "reload" \in FaultKinds /\ faults < MaxFaults
    /\ faults' = faults + 1
    /\ mishaps' = IF j.turn.external THEN mishaps ELSE mishaps \cup {"reload"}
    /\ jobs' = jobs \ {j}
    /\ AsksForNext
    /\ Settle(j.turn.text, "lost")
    /\ UNCHANGED <<lifecycle, turnActive, queues, scheduled, continuationQueued,
                   skipSteerOnce, continuationToken, jobQueued, turn, contexts,
                   hand, stamp, prompts, log>>

-----------------------------------------------------------------------------
\* Turns.  A turn is admitted under loopMu, begins, alternates between request
\* boundaries and model requests, and ends.

Admit(kind, isJob, gen, text) ==
    /\ turn.phase = "none"
    /\ turnSeq' = turnSeq + 1
    /\ turn' = [n |-> turnSeq + 1, kind |-> kind, job |-> isJob, gen |-> gen,
                phase |-> "admitted", external |-> kind = "external",
                stopping |-> FALSE, more |-> FALSE, text |-> text]
    /\ liveTurns' = IF cleared THEN liveTurns ELSE liveTurns \cup {turnSeq + 1}
    /\ UNCHANGED <<lifecycle, turnActive, queues, scheduled, continuationQueued,
                   skipSteerOnce, continuationToken, jobQueued, kicks, returning,
                   hand, history>>

\* The job's turn gets loopMu and is still current.
JobAdmitted(j) ==
    /\ j.phase = "ready"
    /\ ScheduledTurnCurrent(j.turn)
    /\ jobs' = jobs \ {j}
    /\ Admit(IF j.turn.external THEN "external" ELSE "continuation", TRUE,
             j.turn.gen, j.turn.text)
    /\ UNCHANGED counters

\* The user's prompt (runOnce, runOnceContinued, repl, runUserTurn) or /agent.
PromptAdmitted(kind) ==
    /\ WorkerFree
    /\ prompts < MaxPrompts
    /\ kind = "agent" => ~closed
    /\ prompts' = prompts + 1
    /\ Admit(kind, FALSE, generation, {})
    /\ UNCHANGED <<jobs, stamp, faults, mishaps>>

InTurn(phase) == turn.phase = phase
GoTo(phase)   == turn' = [turn EXCEPT !.phase = phase]
TurnCanceled  == turn.n \notin liveTurns

\* beginTurn; RunTurn records the prompt before the first boundary.
BeginTurn ==
    /\ InTurn("admitted")
    /\ turnActive' = TRUE
    /\ GoTo(IF turn.kind = "agent" THEN "agent" ELSE "poll")
    /\ \/ /\ turn.text = {}
          /\ UNCHANGED log
       \/ \E d \in turn.text :
            log' = Append(log, [id |-> d, queue |-> "prompt", gen |-> generation,
                                sent |-> turn.gen, stamp |-> 0])
    /\ Settle(turn.text, "persisted")
    /\ UNCHANGED <<lifecycle, queues, schedule, skipSteerOnce, kicks, contexts,
                   hand, counters>>

BeginTurnFails ==
    /\ InTurn("admitted") /\ turn.kind = "external"
    /\ Fault("disk")
    /\ turnActive' = TRUE
    /\ GoTo("end")
    /\ Settle(turn.text, "lost")
    /\ UNCHANGED <<lifecycle, queues, schedule, skipSteerOnce, kicks, contexts,
                   hand, log>>

-----------------------------------------------------------------------------
\* mailboxBoundary before a model request (stopping is FALSE).

AtPoll == /\ InTurn("poll")
          /\ UNCHANGED <<lifecycle, turnActive, scheduled, jobQueued, jobs, kicks,
                         contexts, counters, history>>

PollCanceled ==
    /\ AtPoll /\ TurnCanceled
    /\ GoTo("end")
    /\ UNCHANGED <<queues, continuationQueued, continuationToken, skipSteerOnce, hand>>

MutantInjectsNextTurn == nextTurn # <<>>
InjectsNextTurn == turn.external /\ nextTurn # <<>>

\* An external turn injects the nextTurn queue first, one boundary each.
PollNextTurn ==
    /\ AtPoll /\ ~TurnCanceled
    /\ InjectsNextTurn
    /\ hand' = <<Head(nextTurn)>>
    /\ nextTurn' = Tail(nextTurn)
    /\ turn' = [turn EXCEPT !.phase = "persist", !.stopping = FALSE,
                            !.more = Len(nextTurn) > 1]
    /\ UNCHANGED <<steer, followUp, deferred, continuationQueued,
                   continuationToken, skipSteerOnce>>

\* Without an injection the boundary either skips one slot or polls steer.
PollsSteer == /\ AtPoll /\ ~TurnCanceled
              /\ ~InjectsNextTurn
              /\ UNCHANGED <<followUp, deferred, nextTurn>>

PollSkipped ==
    /\ PollsSteer /\ skipSteerOnce
    /\ skipSteerOnce' = FALSE
    /\ turn' = [turn EXCEPT !.phase = "request", !.external = FALSE]
    /\ UNCHANGED <<steer, continuationQueued, continuationToken, hand>>

PollSteer ==
    /\ PollsSteer /\ ~skipSteerOnce
    /\ steer # <<>>
    /\ hand' = <<Head(steer)>>
    /\ steer' = Tail(steer)
    /\ continuationQueued' = (continuationQueued /\ ~Head(steer).continueTurn)
    /\ continuationToken' = continuationToken + (IF Head(steer).continueTurn THEN 1 ELSE 0)
    /\ turn' = [turn EXCEPT !.phase = "persist", !.stopping = FALSE, !.more = FALSE]
    /\ UNCHANGED skipSteerOnce

PollNothing ==
    /\ PollsSteer /\ ~skipSteerOnce
    /\ steer = <<>>
    /\ turn' = [turn EXCEPT !.phase = "request", !.external = FALSE]
    /\ UNCHANGED <<steer, continuationQueued, continuationToken, skipSteerOnce, hand>>

-----------------------------------------------------------------------------
\* mailboxBoundary when the model has stopped (stopping is TRUE).

AtStop == /\ InTurn("stop")
          /\ UNCHANGED <<lifecycle, turnActive, nextTurn, scheduled, jobQueued,
                         jobs, kicks, contexts, counters, history>>

StopCanceled ==
    /\ AtStop /\ TurnCanceled
    /\ GoTo("end")
    /\ UNCHANGED <<steer, followUp, deferred, continuationQueued,
                   continuationToken, skipSteerOnce, hand>>

\* A delivery that continues the turn claims the continuation for this turn.
StopPops(queue, rest) ==
    /\ AtStop /\ ~TurnCanceled
    /\ queue # <<>>
    /\ hand' = <<Head(queue)>>
    /\ turn' = [turn EXCEPT !.phase = "persist", !.stopping = TRUE, !.more = rest]
    /\ IF Head(queue).continueTurn
       THEN /\ skipSteerOnce' = TRUE
            /\ continuationQueued' = FALSE
            /\ continuationToken' = continuationToken + 1
       ELSE UNCHANGED <<skipSteerOnce, continuationQueued, continuationToken>>

StopSteer ==
    /\ StopPops(steer, FALSE)
    /\ steer' = Tail(steer)
    /\ UNCHANGED <<followUp, deferred>>

StopFollowUp ==
    /\ steer = <<>>
    /\ StopPops(followUp, FALSE)
    /\ followUp' = Tail(followUp)
    /\ UNCHANGED <<steer, deferred>>

StopDeferred ==
    /\ steer = <<>> /\ followUp = <<>>
    /\ StopPops(deferred, Len(deferred) > 1)
    /\ deferred' = Tail(deferred)
    /\ UNCHANGED <<steer, followUp>>

StopNothing ==
    /\ AtStop /\ ~TurnCanceled
    /\ steer = <<>> /\ followUp = <<>> /\ deferred = <<>>
    /\ GoTo("end")
    /\ UNCHANGED <<steer, followUp, deferred, continuationQueued,
                   continuationToken, skipSteerOnce, hand>>

-----------------------------------------------------------------------------
\* persistDelivery: the delivery must still belong to the bound session and
\* its signal must be alive; the commit is one step under sessionMu.

MayPersist(d) == ~closed /\ d.gen = generation /\ Live(d.signal)

AtPersist(phase) ==
    /\ InTurn(phase)
    /\ hand # <<>>
    /\ hand' = <<>>
    /\ UNCHANGED <<lifecycle, turnActive, queues, schedule, skipSteerOnce, kicks,
                   contexts>>

Commit(d) ==
    /\ MayPersist(d)
    /\ log' = Append(log, [id |-> d.id, queue |-> d.queue, gen |-> generation,
                           sent |-> d.gen, stamp |-> d.stamp])
    /\ Settle({d.id}, "persisted")
    /\ UNCHANGED <<stamp, prompts, faults>>

\* The popped delivery is lost: it was taken from its queue before the checks.
CommitFails(d) ==
    /\ \/ ~MayPersist(d) /\ UNCHANGED faults
       \/ "disk" \in FaultKinds /\ faults < MaxFaults /\ faults' = faults + 1
    /\ Settle({d.id}, "lost")
    /\ UNCHANGED <<log, stamp, prompts>>

AfterBoundary ==
    IF turn.stopping
    THEN IF Head(hand).continueTurn THEN "poll" ELSE IF turn.more THEN "stop" ELSE "end"
    ELSE IF turn.more THEN "poll" ELSE "request"

PersistDelivery ==
    /\ AtPersist("persist")
    /\ Commit(Head(hand))
    /\ UNCHANGED mishaps
    /\ turn' = [turn EXCEPT !.phase = AfterBoundary,
                            !.external = turn.external /\ turn.more]

\* A failed boundary makes the turn return with an error.
PersistDeliveryFails ==
    /\ AtPersist("persist")
    /\ CommitFails(Head(hand))
    /\ UNCHANGED mishaps
    /\ GoTo("end")

-----------------------------------------------------------------------------
\* The model request, the tool calls of its answer, and the ways out of it.

AtRequest == /\ InTurn("request")
             /\ UNCHANGED <<lifecycle, turnActive, queues, schedule, skipSteerOnce,
                            kicks, contexts, hand, history>>

\* Tool results are recorded, or an overflow was compacted away: ask again.
RequestContinues == AtRequest /\ GoTo("poll") /\ UNCHANGED counters

\* The model stops without tool calls: the stop boundary is polled.
RequestStops == AtRequest /\ GoTo("stop") /\ UNCHANGED counters

\* A cancelled context, a provider, hook or recorder error, or a toolUse answer
\* without calls returns without polling the stop boundary.
RequestReturns ==
    /\ AtRequest
    /\ GoTo("end")
    /\ \/ TurnCanceled /\ UNCHANGED counters
       \/ Fault("provider")

\* runOwnedAgentTurn polls nothing; a rebind cancels it through its watcher.
AgentReturns ==
    /\ InTurn("agent")
    /\ GoTo("end")
    /\ UNCHANGED <<lifecycle, turnActive, queues, schedule, skipSteerOnce, kicks,
                   contexts, hand, counters, history>>

AgentCanceledByRebind ==
    /\ turn.kind = "agent" /\ turn.phase \in {"admitted", "agent", "end"}
    /\ turn.gen # generation
    /\ ~TurnCanceled
    /\ liveTurns' = liveTurns \ {turn.n}
    /\ UNCHANGED <<lifecycle, turnActive, queues, schedule, skipSteerOnce, kicks,
                   turn, turnSeq, returning, hand, counters, history>>

\* Abort, the interrupt key, or a cancelled command.
Interrupt ==
    /\ turn.phase # "none" /\ ~TurnCanceled
    /\ Fault("interrupt")
    /\ liveTurns' = liveTurns \ {turn.n}
    /\ UNCHANGED <<lifecycle, turnActive, queues, schedule, skipSteerOnce, kicks,
                   turn, turnSeq, returning, hand, history>>

-----------------------------------------------------------------------------
\* endTurn.

AtEnd == /\ InTurn("end")
         /\ turnActive' = FALSE
         /\ UNCHANGED <<lifecycle, nextTurn, jobQueued, jobs, kicks, contexts, hand,
                        log, prompts, faults, mishaps>>

MutantDropsEveryTurn ==
    /\ continuationToken' = continuationToken + 1
    /\ scheduled' = {}

MutantInvalidatesNothing == UNCHANGED <<continuationToken, scheduled>>

InvalidateContinuationLocked ==
    /\ continuationToken' = continuationToken + 1
    /\ scheduled' = {t \in scheduled : t.external \/ t.token > continuationToken}

\* A cancelled turn drops what was sent to it and invalidates continuations.
EndCanceled ==
    /\ AtEnd /\ TurnCanceled
    /\ steer' = <<>> /\ followUp' = <<>> /\ deferred' = <<>>
    /\ continuationQueued' = FALSE
    /\ skipSteerOnce' = FALSE
    /\ InvalidateContinuationLocked
    /\ Settle(Ids(steer) \cup Ids(followUp) \cup Ids(deferred), "dropped")
    /\ GoTo("finish")
    /\ UNCHANGED stamp

\* Otherwise what is left claims a continuation and the deferred ones drain.
EndNormal ==
    /\ AtEnd /\ ~TurnCanceled
    /\ IF steer # <<>> \/ followUp # <<>>
       THEN QueueContinuationLocked /\ stamp' = stamp + 1
       ELSE UNCHANGED <<scheduled, continuationQueued, continuationToken, stamp>>
    /\ GoTo("drain")
    /\ UNCHANGED <<steer, followUp, deferred, skipSteerOnce, fate>>

DrainPops ==
    /\ InTurn("drain")
    /\ IF deferred = <<>>
       THEN GoTo("finish") /\ UNCHANGED <<deferred, hand>>
       ELSE /\ GoTo("drainPersist")
            /\ hand' = <<Head(deferred)>>
            /\ deferred' = Tail(deferred)
    /\ UNCHANGED <<lifecycle, turnActive, steer, followUp, nextTurn, schedule,
                   skipSteerOnce, kicks, contexts, counters, history>>

MutantDrainPersists ==
    /\ AtPersist("drainPersist")
    /\ GoTo("finish")
    /\ UNCHANGED mishaps
    /\ Commit(Head(hand)) \/ CommitFails(Head(hand))

DrainPersists ==
    /\ AtPersist("drainPersist")
    /\ \/ Commit(Head(hand)) /\ GoTo("drain") /\ UNCHANGED mishaps
       \/ /\ CommitFails(Head(hand)) /\ GoTo("finish")
          /\ mishaps' = mishaps \cup {"drain"}

\* The last scheduleMailbox of endTurn, then loopMu is released; an /agent turn
\* has cancelled its context by then.
TurnFinishes ==
    /\ InTurn("finish")
    /\ DispatchNext
    /\ IF turn.kind = "agent"
       THEN liveTurns' = liveTurns \ {turn.n} /\ UNCHANGED returning
       ELSE /\ returning' = returning \cup {[n |-> turn.n, job |-> turn.job]}
            /\ UNCHANGED liveTurns
    /\ turn' = NoTurn
    /\ UNCHANGED <<lifecycle, turnActive, queues, continuationQueued, skipSteerOnce,
                   continuationToken, kicks, turnSeq, hand, counters, history>>

\* The caller of runTurn cancels the turn's context; a job asks for the next one.
ContextReleased(r) ==
    /\ returning' = returning \ {r}
    /\ liveTurns' = liveTurns \ {r.n}
    /\ kicks' = kicks + (IF r.job THEN 1 ELSE 0)
    /\ UNCHANGED <<lifecycle, turnActive, queues, schedule, skipSteerOnce, turn,
                   turnSeq, hand, counters, history>>

-----------------------------------------------------------------------------
\* bindSession and shutdown.

Texts(turns) == UNION {t.text : t \in turns}

\* A session change runs on the idle TUI worker, or while /agent runs there.
BindSession ==
    /\ Serial /\ ~closed
    /\ generation < MaxGenerations
    /\ InTurn("agent") \/ WorkerFree
    /\ generation' = generation + 1
    /\ steer' = <<>> /\ followUp' = <<>> /\ deferred' = <<>> /\ nextTurn' = <<>>
    /\ scheduled' = {} /\ continuationQueued' = FALSE /\ skipSteerOnce' = FALSE
    /\ continuationToken' = 0 /\ jobQueued' = FALSE
    /\ Settle(Ids(steer) \cup Ids(followUp) \cup Ids(deferred) \cup Ids(nextTurn)
                 \cup Texts(scheduled), "dropped")
    /\ UNCHANGED <<closed, cleared, turnActive, jobs, kicks, turn, contexts, hand,
                   counters, log>>

ShutdownCloses ==
    /\ ~closed
    /\ closed' = TRUE
    /\ UNCHANGED <<cleared, generation, turnActive, queues, schedule, skipSteerOnce,
                   kicks, turn, contexts, hand, counters, history>>

ShutdownClears ==
    /\ closed /\ ~cleared
    /\ cleared' = TRUE
    /\ steer' = <<>> /\ followUp' = <<>> /\ deferred' = <<>> /\ nextTurn' = <<>>
    /\ scheduled' = {} /\ continuationQueued' = FALSE
    /\ liveTurns' = {}
    /\ Settle(Ids(steer) \cup Ids(followUp) \cup Ids(deferred) \cup Ids(nextTurn)
                 \cup Texts(scheduled), "dropped")
    /\ UNCHANGED <<closed, generation, turnActive, skipSteerOnce, continuationToken,
                   jobQueued, jobs, kicks, turn, turnSeq, returning, hand, counters,
                   log>>

-----------------------------------------------------------------------------
JobStep == \E j \in jobs : JobStarts(j) \/ JobSkipped(j) \/ JobAdmitted(j)

Boundary ==
    \/ PollCanceled \/ PollNextTurn \/ PollSkipped \/ PollSteer \/ PollNothing
    \/ StopCanceled \/ StopSteer \/ StopFollowUp \/ StopDeferred \/ StopNothing
    \/ PersistDelivery \/ PersistDeliveryFails

Request == RequestContinues \/ RequestStops \/ RequestReturns

TurnEnds == EndCanceled \/ EndNormal \/ DrainPops \/ DrainPersists \/ TurnFinishes

TurnStep == BeginTurn \/ Boundary \/ Request \/ AgentReturns \/ TurnEnds

Release == \E r \in returning : ContextReleased(r)

Environment ==
    \/ \E d \in Deliveries : Send(d)
    \/ \E kind \in {"external", "agent"} : PromptAdmitted(kind)
    \/ \E j \in jobs : JobRefused(j)
    \/ BeginTurnFails \/ Interrupt \/ BindSession \/ ShutdownCloses

Next ==
    \/ Environment
    \/ ScheduleMailbox \/ JobStep \/ TurnStep \/ Release
    \/ AgentCanceledByRebind \/ ShutdownClears

Spec == Init /\ [][Next]_vars

\* Every goroutine runs on; loopMu is granted to a waiting job again and again;
\* a model that is asked for ever stops calling tools at some point.
Fairness ==
    /\ WF_vars(ScheduleMailbox) /\ SF_vars(JobStep) /\ WF_vars(TurnStep)
    /\ WF_vars(Release) /\ WF_vars(ShutdownClears)
    /\ SF_vars(RequestStops)

FairSpec == Spec /\ Fairness

-----------------------------------------------------------------------------
\* Properties.

HostType ==
    /\ closed \in BOOLEAN /\ cleared \in BOOLEAN
    /\ generation \in Nat /\ turnActive \in BOOLEAN

QueueType ==
    /\ steer \in Seq(Delivery) /\ followUp \in Seq(Delivery)
    /\ deferred \in Seq(Delivery) /\ nextTurn \in Seq(Delivery)
    /\ hand \in Seq(Delivery)

ScheduleType ==
    /\ scheduled \subseteq ScheduledTurn /\ jobs \subseteq Job
    /\ continuationQueued \in BOOLEAN /\ skipSteerOnce \in BOOLEAN
    /\ continuationToken \in Nat /\ jobQueued \in BOOLEAN /\ kicks \in Nat

TurnType ==
    /\ turn \in Turn /\ liveTurns \subseteq Nat /\ turnSeq \in Nat
    /\ returning \subseteq [n: Nat, job: BOOLEAN]

CounterType ==
    /\ stamp \in Nat /\ prompts \in Nat /\ faults \in Nat
    /\ mishaps \subseteq {"reload", "drain"}

HistoryType == fate \in [Deliveries -> Fates] /\ log \in Seq(Entry)

\* The variables keep their types.
TypeOK ==
    /\ HostType /\ QueueType /\ ScheduleType
    /\ TurnType /\ CounterType /\ HistoryType

\* Where an accepted message waits: a queue, a boundary's hand, a scheduled
\* turn, a dispatched job, or the turn about to record it.
Places(d) ==
    LET At(name, q) == {<<name, i>> : i \in {k \in DOMAIN q : q[k].id = d}}
    IN  At("steer", steer) \cup At("followUp", followUp)
        \cup At("deferred", deferred) \cup At("nextTurn", nextTurn)
        \cup At("hand", hand)
        \cup {<<"scheduled", t.stamp>> : t \in {u \in scheduled : d \in u.text}}
        \cup {<<"job", j.turn.stamp>> : j \in {k \in jobs : d \in k.turn.text}}
        \cup {<<"turn", n>> : n \in {m \in {turn.n} : InTurn("admitted") /\ d \in turn.text}}

Commits(d) == {i \in DOMAIN log : log[i].id = d}

\* An accepted message is in one place until it settles, and it is committed
\* to the session once or not at all, whatever the interleaving of sends,
\* boundaries, stale jobs, interrupts, rebinds and shutdown.
NothingLostOrDuplicated ==
    \A d \in Deliveries :
        /\ Cardinality(Places(d)) = IF fate[d] = "queued" THEN 1 ELSE 0
        /\ Cardinality(Commits(d)) = IF fate[d] = "persisted" THEN 1 ELSE 0

\* "Delivery order is FIFO within each queue", across turns and requeued
\* continuations.
FifoPerQueue ==
    \A i, j \in DOMAIN log :
        (i < j /\ log[i].queue = log[j].queue /\ log[i].queue \in Queues)
            => log[i].stamp < log[j].stamp

\* A message accepted for one session never enters another one.
OwnSession == \A i \in DOMAIN log : log[i].sent = log[i].gen

CurrentContinuation(t) ==
    ~t.external /\ t.gen = generation /\ t.token = continuationToken

\* The continuations that may still run: scheduled, or with the dispatcher.
Claims == {t \in scheduled \cup {j.turn : j \in jobs} : CurrentContinuation(t)}

Waiting == steer # <<>> \/ followUp # <<>>

\* A triggering message that waits while no turn runs owns a continuation, or
\* the turn that just got loopMu will find it.
NoStrandedDelivery ==
    (Waiting /\ ~turnActive /\ ~closed /\ "reload" \notin mishaps)
        => Claims # {} \/ InTurn("admitted")

\* Only one continuation is current, however many were queued.
OneContinuation == Cardinality(Claims) <= 1

\* A current continuation has a message to deliver: the model is never asked
\* again for nothing.
NoEmptyContinuation ==
    (Claims # {} \/ (InTurn("admitted") /\ turn.kind = "continuation")) /\ ~cleared
        => Waiting

\* A continuation is asked for once, and only for a message that waits.
ContinuationsPaired == OneContinuation /\ NoEmptyContinuation

\* scheduleMailbox is called once more whenever a turn is left to dispatch.
NoLostWakeup ==
    (scheduled # {} /\ ~closed)
        => \/ kicks > 0
           \/ jobs # {}
           \/ turn.phase # "none"
           \/ \E r \in returning : r.job

\* Deferred messages outlive their turn only when its drain failed.
DeferredDrained ==
    (deferred # <<>> /\ turn.phase = "none") => "drain" \in mishaps

\* Nothing enters or stays in the mailbox of a host that was shut down.
ClearedStaysEmpty ==
    cleared => /\ steer = <<>> /\ followUp = <<>> /\ deferred = <<>>
               /\ nextTurn = <<>> /\ scheduled = {}

\* A nextTurn message stays through cancelled and continuation turns.
NextTurnStays ==
    [][\A d \in Ids(nextTurn) :
        \/ d \in Ids(nextTurn')
        \/ turn.kind = "external" /\ turn.external
        \/ generation' # generation
        \/ cleared']_vars

\* Whatever triggers a turn settles, unless its job was refused for a failed reload.
TriggersSettle ==
    \A d \in Deliveries :
        (fate[d] = "queued" /\ d \notin Ids(nextTurn) \cup Ids(deferred))
            ~> (fate[d] # "queued" \/ "reload" \in mishaps)

\* docs/sdk-runtime.md: "a message that arrives while the loop is in its final
\* stop poll claims a fresh continuation, so exactly one continuation follows
\* it".  So no message is lost that was accepted while its turn was running
\* undisturbed: without a failure or an interrupt only shutdown loses one.
LateMessageIsDelivered ==
    [][\A d \in Deliveries :
        (fate[d] = "queued" /\ fate'[d] = "lost") => faults > 0 \/ closed]_vars

\* docs/sdk-runtime.md: "Steering is polled before every model request", apart
\* from the one slot that follows a stop boundary that continued the turn.
\* The code does not keep it (README, section 9).
SteeringPolled ==
    [][(turn.phase # "request" /\ turn'.phase = "request" /\ ~turn.stopping)
        => \/ turn.phase = "poll" /\ steer = <<>>
           \/ hand # <<>> /\ Head(hand).queue = "steer"]_vars
=============================================================================
