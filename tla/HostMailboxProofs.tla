------------------------- MODULE HostMailboxProofs -------------------------
(***************************************************************************)
(* Proofs about HostMailbox: the type invariant, by one lemma per group of *)
(* actions.                                                                *)
(*                                                                         *)
(* Proofs of safety properties of HostMailbox.  Every one is strengthened  *)
(* by the fact about the host that makes it inductive:                     *)
(*   ClearedStaysEmpty  a host is cleared only after it was closed         *)
(*   OwnSession         no session is bound while a turn is being admitted *)
(*   NoLostWakeup       jobQueued stands for a job the dispatcher holds    *)
(*   NextTurnStays      a turn that injects nextTurn is an external turn   *)
(*   DeferredDrained    turnActive and the phase of the turn agree         *)
(*   ContinuationsPaired, NoStrandedDelivery                               *)
(*                      one invariant (ClaimInv): tokens grow, one claim   *)
(*                      is current, and continuationQueued stands for a    *)
(*                      current turn that no job has started               *)
(*                                                                         *)
(* The two promises of the mailbox for a message: it is nowhere twice, it  *)
(* is never lost without a trace and committed at most once                *)
(* (NothingLostOrDuplicated), and the session holds the messages of each   *)
(* queue in the order they were sent (FifoPerQueue).                       *)
(*                                                                         *)
(* The first one counts places, which no prover likes.  Its invariant      *)
(* PlaceInv says the same with a function: some w maps every message to    *)
(* the one place that has it, or to "nowhere", exactly when its fate is    *)
(* "queued"; an action changes w at the messages it moves.  The second one *)
(* follows the stamps: OrderInv orders what waits in a queue, what a       *)
(* boundary holds and what the session has.                                *)
(***************************************************************************)
EXTENDS HostMailbox, FiniteSetTheorems, TLAPS

USE DEF queues, schedule, lifecycle, counters, history, contexts

-----------------------------------------------------------------------------
\* Appending to and popping from a typed queue.

\* A queue stays a queue when one of its elements is appended.
LEMMA AppendType ==
    ASSUME NEW S, NEW q \in Seq(S), NEW x \in S
    PROVE  Append(q, x) \in Seq(S)
OBVIOUS

\* The head of a queue is one of its elements and the rest is a queue again.
LEMMA PopType ==
    ASSUME NEW S, NEW q \in Seq(S), q # <<>>
    PROVE  Head(q) \in S /\ Tail(q) \in Seq(S) /\ <<Head(q)>> \in Seq(S)
OBVIOUS

\* An emptied queue is a queue.
LEMMA EmptyType == ASSUME NEW S PROVE <<>> \in Seq(S)
OBVIOUS

-----------------------------------------------------------------------------
\* What an action leaves alone keeps its type.

\* A step that leaves the lifecycle of the host alone keeps its type.
LEMMA HostFrame == HostType /\ UNCHANGED <<closed, cleared, generation, turnActive>> => HostType'
BY DEF HostType

\* A step that leaves the queues and the popped delivery alone keeps their type.
LEMMA QueueFrame ==
  QueueType /\ UNCHANGED <<steer, followUp, deferred, nextTurn, hand>> => QueueType'
BY DEF QueueType

\* A step that leaves the scheduled turns and the jobs alone keeps their type.
LEMMA ScheduleFrame ==
    ScheduleType /\ UNCHANGED <<scheduled, jobs, continuationQueued, skipSteerOnce,
                                continuationToken, jobQueued, kicks>> => ScheduleType'
BY DEF ScheduleType

\* A step that leaves the turn and the contexts alone keeps their type.
LEMMA TurnFrame == TurnType /\ UNCHANGED <<turn, liveTurns, turnSeq, returning>> => TurnType'
BY DEF TurnType

\* A step that leaves the counters alone keeps their type.
LEMMA CounterFrame == CounterType /\ UNCHANGED <<stamp, prompts, faults, mishaps>> => CounterType'
BY DEF CounterType

\* A step that leaves the session log and the fates alone keeps their type.
LEMMA HistoryFrame == HistoryType /\ UNCHANGED <<fate, log>> => HistoryType'
BY DEF HistoryType

\* A failure keeps the types of the counters.
LEMMA FaultType == ASSUME CounterType, NEW kind, Fault(kind) PROVE CounterType'
BY DEF CounterType, Fault

\* Settling the fate of some messages keeps the type of the fates.
LEMMA SettleType ==
    ASSUME HistoryType, NEW ids, NEW f \in Fates, Settle(ids, f)
    PROVE  fate' \in [Deliveries -> Fates]
BY DEF HistoryType, Settle

\* enqueueDelivery builds a delivery for any queue.
LEMMA DeliveryType ==
    ASSUME HostType, CounterType, NEW d \in Deliveries, NEW queue \in Queues,
           NEW continue \in BOOLEAN, NEW signal \in Nat
    PROVE  NewDelivery(d, queue, continue, signal) \in Delivery
BY DEF HostType, CounterType, NewDelivery, Delivery

\* queueContinuationLocked keeps the type of the scheduled turns.
LEMMA QueueContinuationType ==
    ASSUME HostType, CounterType, ScheduleType, QueueContinuationLocked
    PROVE  /\ scheduled' \subseteq ScheduledTurn
           /\ continuationQueued' \in BOOLEAN
           /\ continuationToken' \in Nat
<1> DEFINE t == [stamp |-> stamp, gen |-> generation,
                 token |-> continuationToken + 1, external |-> FALSE, text |-> {}]
<1>1. t \in ScheduledTurn
  BY DEF HostType, CounterType, ScheduleType, ScheduledTurn
<1>2. CASE continuationQueued
  BY <1>2 DEF ScheduleType, QueueContinuationLocked
<1>3. CASE ~continuationQueued
  <2>1. /\ continuationToken' = continuationToken + 1
        /\ scheduled' = scheduled \cup {t}
        /\ continuationQueued' = TRUE
    BY <1>3 DEF QueueContinuationLocked
  <2> HIDE DEF t
  <2> QED
    BY <1>1, <2>1 DEF ScheduleType
<1> QED
  BY <1>2, <1>3

\* A send keeps the types.
LEMMA SendType ==
    ASSUME TypeOK, NEW d \in Deliveries, Send(d)
    PROVE  TypeOK'
<1> USE DEF TypeOK
<1>1. PICK signal \in HandlerContexts \cup {0} :
        \/ SendUserIdle(d, signal)      \/ SendNextTurn(d, signal)
        \/ SendIdlePersisted(d, signal) \/ SendIdleTrigger(d, signal)
        \/ SendActiveFollowUp(d, signal) \/ SendActiveSteer(d, signal)
        \/ SendActiveDeferred(d, signal)
  BY DEF Send
<1>2. signal \in Nat
  BY DEF HandlerContexts, TurnType
<1>3. MayEnqueue(d, signal)
  BY <1>1 DEF SendUserIdle, SendNextTurn, SendIdlePersisted, SendIdleTrigger,
     SendActiveFollowUp, SendActiveSteer, SendActiveDeferred
<1>4. HostType' /\ TurnType' /\ CounterType'
  BY <1>3, HostFrame, TurnFrame DEF MayEnqueue, CounterType
<1>5. CASE SendUserIdle(d, signal)
  <2>1. QueueType'
    BY <1>3, <1>5, QueueFrame DEF SendUserIdle, MayEnqueue
  <2>2. ScheduleType'
    <3> DEFINE t == [stamp |-> stamp, gen |-> generation, token |-> 0,
                     external |-> TRUE, text |-> {d}]
    <3>1. t \in ScheduledTurn
      BY DEF ScheduledTurn, CounterType, HostType
    <3>2. scheduled' = scheduled \cup {t}
      BY <1>5 DEF SendUserIdle
    <3> HIDE DEF t
    <3> QED
      BY <3>1, <3>2, <1>3, <1>5 DEF SendUserIdle, ScheduleType, MayEnqueue
  <2>3. HistoryType'
    BY <1>5, SettleType DEF SendUserIdle, HistoryType, Fates
  <2> QED
    BY <1>4, <2>1, <2>2, <2>3
<1>6. CASE SendNextTurn(d, signal)
  <2>1. QueueType'
    BY <1>3, <1>6, DeliveryType, AppendType DEF SendNextTurn, MayEnqueue, QueueType, Queues
  <2>2. ScheduleType'
    BY <1>3, <1>6, ScheduleFrame DEF SendNextTurn, MayEnqueue
  <2>3. HistoryType'
    BY <1>6, SettleType DEF SendNextTurn, HistoryType, Fates
  <2> QED
    BY <1>4, <2>1, <2>2, <2>3
<1>7. CASE SendIdlePersisted(d, signal)
  <2>1. QueueType'
    BY <1>3, <1>7, QueueFrame DEF SendIdlePersisted, MayEnqueue
  <2>2. ScheduleType'
    BY <1>3, <1>7, ScheduleFrame DEF SendIdlePersisted, MayEnqueue
  <2>3. log' \in Seq(Entry)
    BY <1>7 DEF SendIdlePersisted, HistoryType, Entry, HostType, CounterType
  <2>4. HistoryType'
    BY <1>7, <2>3, SettleType DEF SendIdlePersisted, HistoryType, Fates
  <2> QED
    BY <1>4, <2>1, <2>2, <2>4
<1>8. CASE SendIdleTrigger(d, signal)
  <2>1. QueueType'
    <3>1. NewDelivery(d, "steer", TRUE, signal) \in Delivery
      BY <1>2, DeliveryType DEF Queues
    <3> QED
      BY <3>1, <1>3, <1>8, AppendType DEF SendIdleTrigger, MayEnqueue, QueueType
  <2>2. ScheduleType'
    BY <1>3, <1>8, QueueContinuationType DEF SendIdleTrigger, MayEnqueue, ScheduleType
  <2>3. HistoryType'
    BY <1>8, SettleType DEF SendIdleTrigger, HistoryType, Fates
  <2> QED
    BY <1>4, <2>1, <2>2, <2>3
<1>9. CASE SendActiveFollowUp(d, signal) \/ SendActiveSteer(d, signal) \/ SendActiveDeferred(d, signal)
  <2> USE DEF SendActiveFollowUp, SendActiveSteer, SendActiveDeferred
  <2>1. QueueType'
    <3>1. /\ NewDelivery(d, "followUp", TRUE, signal) \in Delivery
          /\ NewDelivery(d, "steer", TRUE, signal) \in Delivery
          /\ NewDelivery(d, "deferred", FALSE, signal) \in Delivery
      BY <1>2, DeliveryType DEF Queues
    <3> QED
      BY <3>1, <1>3, <1>9, AppendType DEF MayEnqueue, QueueType
  <2>2. ScheduleType'
    BY <1>3, <1>9, ScheduleFrame DEF MayEnqueue
  <2>3. HistoryType'
    BY <1>9, SettleType DEF HistoryType, Fates
  <2> QED
    BY <1>4, <2>1, <2>2, <2>3
<1> QED
  BY <1>1, <1>5, <1>6, <1>7, <1>8, <1>9

-----------------------------------------------------------------------------
\* The dispatcher.

\* The dispatch of scheduleMailbox keeps the type of the scheduled turns.
LEMMA DispatchType ==
    ASSUME ScheduleType, DispatchNext
    PROVE  scheduled' \subseteq ScheduledTurn /\ jobs' \subseteq Job /\ jobQueued' \in BOOLEAN
<1>1. CASE UNCHANGED <<scheduled, jobQueued, jobs>>
  BY <1>1 DEF ScheduleType
<1>2. CASE \E t \in scheduled : /\ scheduled' = scheduled \ {t}
                               /\ jobs' = jobs \cup {[turn |-> t, phase |-> "dispatched"]}
                               /\ jobQueued' = TRUE
  <2>1. PICK t \in scheduled : /\ scheduled' = scheduled \ {t}
                              /\ jobs' = jobs \cup {[turn |-> t, phase |-> "dispatched"]}
    BY <1>2
  <2> DEFINE j == [turn |-> t, phase |-> "dispatched"]
  <2>2. j \in Job
    BY DEF ScheduleType, Job
  <2>3. jobs' = jobs \cup {j}
    BY <2>1
  <2> HIDE DEF j
  <2> QED
    BY <1>2, <2>1, <2>2, <2>3 DEF ScheduleType
<1> QED
  BY <1>1, <1>2 DEF DispatchNext

\* Handing a scheduled turn to the dispatcher keeps the types.
LEMMA ScheduleMailboxType ==
    ASSUME TypeOK, ScheduleMailbox
    PROVE  TypeOK'
<1> USE DEF TypeOK, ScheduleMailbox
<1>1. ScheduleType'
  BY DispatchType DEF ScheduleType
<1> QED
  BY <1>1, HostFrame, QueueFrame, TurnFrame, CounterFrame, HistoryFrame

\* The admission of a turn under loopMu keeps the types.
LEMMA AdmitType ==
    ASSUME TypeOK, NEW kind \in {"external", "continuation", "agent"},
           NEW isJob \in BOOLEAN, NEW gen \in Nat, NEW text \in SUBSET Deliveries,
           Admit(kind, isJob, gen, text)
    PROVE  HostType' /\ QueueType' /\ TurnType' /\ HistoryType'
<1> USE DEF TypeOK
<1> DEFINE t == [n |-> turnSeq + 1, kind |-> kind, job |-> isJob, gen |-> gen,
                 phase |-> "admitted", external |-> kind = "external",
                 stopping |-> FALSE, more |-> FALSE, text |-> text]
<1>1. t \in Turn
  BY DEF TurnType, Turn, Phases
<1>2. /\ turn' = t /\ turnSeq' = turnSeq + 1 /\ returning' = returning
      /\ liveTurns' = liveTurns \/ liveTurns' = liveTurns \cup {turnSeq + 1}
  BY DEF Admit
<1> HIDE DEF t
<1>3. liveTurns' \subseteq Nat /\ turnSeq' \in Nat
  <2>1. turnSeq + 1 \in Nat
    BY DEF TurnType
  <2>2. liveTurns \subseteq Nat /\ liveTurns \cup {turnSeq + 1} \subseteq Nat
    BY <2>1 DEF TurnType
  <2> QED
    BY <1>2, <2>1, <2>2
<1>4. TurnType'
  BY <1>1, <1>2, <1>3 DEF TurnType
<1> QED
  BY <1>4, HostFrame, QueueFrame, HistoryFrame DEF Admit

\* What the dispatched jobs do keeps the types.
LEMMA JobType ==
    ASSUME TypeOK, NEW j \in jobs,
           JobStarts(j) \/ JobSkipped(j) \/ JobRefused(j) \/ JobAdmitted(j)
    PROVE  TypeOK'
<1> USE DEF TypeOK
<1>1. /\ j \in Job /\ j.turn \in ScheduledTurn /\ j.turn.external \in BOOLEAN
      /\ j.turn.gen \in Nat /\ j.turn.text \in SUBSET Deliveries
  BY DEF ScheduleType, Job, ScheduledTurn
<1>2. CASE JobStarts(j)
  <2> DEFINE r == [j EXCEPT !.phase = "ready"]
  <2>1. r \in Job
    BY <1>1 DEF Job
  <2>2. jobs' = (jobs \ {j}) \cup {r}
    BY <1>2 DEF JobStarts
  <2> HIDE DEF r
  <2>3. ScheduleType'
    <3>1. (continuationQueued /\ j.turn.external) \in BOOLEAN
      OBVIOUS
    <3> QED
      BY <1>2, <2>1, <2>2, <3>1 DEF JobStarts, ScheduleType
  <2> QED
    BY <1>2, <2>3, HostFrame, QueueFrame, TurnFrame, CounterFrame, HistoryFrame
       DEF JobStarts
<1>3. CASE JobSkipped(j)
  <2>1. ScheduleType'
    BY <1>3 DEF JobSkipped, AsksForNext, ScheduleType
  <2>2. HistoryType'
    BY <1>3, SettleType DEF JobSkipped, HistoryType, Fates
  <2> QED
    BY <1>3, <2>1, <2>2, HostFrame, QueueFrame, TurnFrame, CounterFrame DEF JobSkipped
<1>4. CASE JobRefused(j)
  <2>1. ScheduleType'
    BY <1>4 DEF JobRefused, AsksForNext, ScheduleType
  <2>2. HistoryType'
    BY <1>4, SettleType DEF JobRefused, HistoryType, Fates
  <2>3. CounterType'
    BY <1>4 DEF JobRefused, CounterType
  <2> QED
    BY <1>4, <2>1, <2>2, <2>3, HostFrame, QueueFrame, TurnFrame DEF JobRefused
<1>5. CASE JobAdmitted(j)
  <2>1. HostType' /\ QueueType' /\ TurnType' /\ HistoryType'
    BY <1>1, <1>5, AdmitType DEF JobAdmitted
  <2>2. ScheduleType'
    BY <1>5 DEF JobAdmitted, Admit, ScheduleType
  <2>3. CounterType'
    BY <1>5, CounterFrame DEF JobAdmitted
  <2> QED
    BY <2>1, <2>2, <2>3
<1> QED
  BY <1>2, <1>3, <1>4, <1>5

-----------------------------------------------------------------------------
\* The life of a turn.

\* A prompt that gets loopMu keeps the types.
LEMMA PromptType ==
    ASSUME TypeOK, NEW kind \in {"external", "agent"}, PromptAdmitted(kind)
    PROVE  TypeOK'
<1> USE DEF TypeOK
<1>1. HostType' /\ QueueType' /\ TurnType' /\ HistoryType'
  <2>1. Admit(kind, FALSE, generation, {})
    BY DEF PromptAdmitted
  <2>2. /\ kind \in {"external", "continuation", "agent"} /\ FALSE \in BOOLEAN
        /\ generation \in Nat /\ {} \in SUBSET Deliveries
    BY DEF HostType
  <2> QED
    BY <2>1, <2>2, AdmitType
<1>2. ScheduleType'
  BY DEF PromptAdmitted, Admit, ScheduleType
<1>3. CounterType'
  BY DEF PromptAdmitted, CounterType
<1> QED
  BY <1>1, <1>2, <1>3

\* A turn that changes its phase only keeps its type.
LEMMA GoToType ==
    ASSUME TurnType, NEW phase \in Phases, GoTo(phase),
           UNCHANGED <<liveTurns, turnSeq, returning>>
    PROVE  TurnType'
BY DEF TurnType, Turn, GoTo

\* The beginning of a turn keeps the types.
LEMMA BeginTurnType ==
    ASSUME TypeOK, BeginTurn \/ BeginTurnFails
    PROVE  TypeOK'
<1> USE DEF TypeOK
<1>1. HostType'
  BY DEF BeginTurn, BeginTurnFails, HostType
<1>2. QueueType' /\ ScheduleType'
  BY QueueFrame, ScheduleFrame DEF BeginTurn, BeginTurnFails
<1>3. TurnType'
  <2>1. GoTo("agent") \/ GoTo("poll") \/ GoTo("end")
    BY DEF BeginTurn, BeginTurnFails
  <2> QED
    BY <2>1, GoToType DEF BeginTurn, BeginTurnFails, Phases
<1>4. CounterType'
  <2>1. CASE BeginTurn
    BY <2>1, CounterFrame DEF BeginTurn
  <2>2. CASE BeginTurnFails
    BY <2>2 DEF BeginTurnFails, Fault, CounterType
  <2> QED
    BY <2>1, <2>2
<1>5. fate' \in [Deliveries -> Fates]
  BY SettleType DEF BeginTurn, BeginTurnFails, Fates
<1>6. log' \in Seq(Entry)
  <2>1. ASSUME NEW d \in turn.text
        PROVE  [id |-> d, queue |-> "prompt", gen |-> generation, sent |-> turn.gen,
                stamp |-> 0] \in Entry
    BY DEF HostType, TurnType, Turn, Entry
  <2>2. CASE BeginTurn
    BY <2>1, <2>2, AppendType DEF BeginTurn, HistoryType
  <2>3. CASE BeginTurnFails
    BY <2>3 DEF BeginTurnFails, HistoryType
  <2> QED
    BY <2>2, <2>3
<1> QED
  BY <1>1, <1>2, <1>3, <1>4, <1>5, <1>6 DEF HistoryType

\* A turn whose boundary has popped a delivery keeps its type.
LEMMA PopTurnType ==
    ASSUME TurnType, UNCHANGED <<liveTurns, turnSeq, returning>>,
           NEW phase \in Phases, NEW stopping \in BOOLEAN, NEW more \in BOOLEAN,
           turn' = [turn EXCEPT !.phase = phase, !.stopping = stopping, !.more = more]
    PROVE  TurnType'
BY DEF TurnType, Turn

\* A turn that goes on to its request keeps its type.
LEMMA RequestTurnType ==
    ASSUME TurnType, UNCHANGED <<liveTurns, turnSeq, returning>>,
           NEW phase \in Phases, NEW external \in BOOLEAN,
           turn' = [turn EXCEPT !.phase = phase, !.external = external]
    PROVE  TurnType'
BY DEF TurnType, Turn

\* A poll before a request keeps the types.
LEMMA PollType ==
    ASSUME TypeOK,
           PollCanceled \/ PollNextTurn \/ PollSkipped \/ PollSteer \/ PollNothing
    PROVE  TypeOK'
<1> USE DEF TypeOK
<1>1. AtPoll
  BY DEF PollCanceled, PollNextTurn, PollSkipped, PollSteer, PollNothing, PollsSteer
<1>2. HostType' /\ CounterType' /\ HistoryType'
  BY <1>1, HostFrame, CounterFrame, HistoryFrame DEF AtPoll
<1>3. UNCHANGED <<liveTurns, turnSeq, returning, scheduled, jobs, jobQueued, kicks>>
  BY <1>1 DEF AtPoll
<1>4. CASE PollCanceled
  BY <1>2, <1>3, <1>4, GoToType, QueueFrame, ScheduleFrame DEF PollCanceled, Phases
<1>5. CASE PollNextTurn
  <2>1. QueueType'
    BY <1>5, PopType DEF PollNextTurn, InjectsNextTurn, QueueType
  <2>2. TurnType'
    <3>1. (Len(nextTurn) > 1) \in BOOLEAN
      OBVIOUS
    <3> QED
      BY <1>3, <1>5, <3>1, PopTurnType DEF PollNextTurn, Phases
  <2> QED
    BY <1>2, <1>3, <1>5, <2>1, <2>2, ScheduleFrame DEF PollNextTurn
<1>6. CASE PollSkipped
  <2>1. TurnType'
    BY <1>3, <1>6, RequestTurnType DEF PollSkipped, Phases
  <2>2. QueueType'
    BY <1>6, QueueFrame DEF PollSkipped, PollsSteer
  <2>3. ScheduleType'
    BY <1>3, <1>6 DEF PollSkipped, ScheduleType
  <2> QED
    BY <1>2, <2>1, <2>2, <2>3
<1>7. CASE PollSteer
  <2>1. QueueType'
    BY <1>7, PopType DEF PollSteer, PollsSteer, QueueType
  <2>2. TurnType'
    BY <1>3, <1>7, PopTurnType DEF PollSteer, Phases
  <2>3. continuationQueued' \in BOOLEAN
    BY <1>7 DEF PollSteer
  <2>4. ScheduleType'
    BY <1>3, <1>7, <2>3 DEF PollSteer, ScheduleType
  <2> QED
    BY <1>2, <2>1, <2>2, <2>4
<1>8. CASE PollNothing
  <2>1. TurnType'
    BY <1>3, <1>8, RequestTurnType DEF PollNothing, Phases
  <2> QED
    BY <1>2, <1>3, <1>8, <2>1, QueueFrame, ScheduleFrame DEF PollNothing, PollsSteer
<1> QED
  BY <1>4, <1>5, <1>6, <1>7, <1>8

\* A stop boundary that pops a delivery keeps the types.
LEMMA StopPopsType ==
    ASSUME TypeOK, NEW queue \in Seq(Delivery), NEW rest \in BOOLEAN,
           StopPops(queue, rest)
    PROVE  /\ HostType' /\ ScheduleType' /\ TurnType' /\ CounterType' /\ HistoryType'
           /\ Tail(queue) \in Seq(Delivery) /\ hand' \in Seq(Delivery)
           /\ nextTurn' = nextTurn
<1> USE DEF TypeOK
<1>1. HostType' /\ CounterType' /\ HistoryType' /\ nextTurn' = nextTurn
  BY HostFrame, CounterFrame, HistoryFrame DEF StopPops, AtStop
<1>2. TurnType'
  BY PopTurnType DEF StopPops, AtStop, Phases
<1>3. Tail(queue) \in Seq(Delivery) /\ hand' \in Seq(Delivery)
  BY PopType DEF StopPops
<1>4. ScheduleType'
  <2>1. CASE Head(queue).continueTurn
    <3>1. /\ skipSteerOnce' = TRUE /\ continuationQueued' = FALSE
          /\ continuationToken' = continuationToken + 1
          /\ UNCHANGED <<scheduled, jobs, jobQueued, kicks>>
      BY <2>1 DEF StopPops, AtStop
    <3>2. ScheduleType
      OBVIOUS
    <3>3. skipSteerOnce' \in BOOLEAN
      BY <3>1
    <3>4. continuationQueued' \in BOOLEAN
      BY <3>1
    <3>5. continuationToken' \in Nat
      BY <3>1, <3>2 DEF ScheduleType
    <3> QED
      BY <3>1, <3>2, <3>3, <3>4, <3>5 DEF ScheduleType
  <2>2. CASE ~Head(queue).continueTurn
    BY <2>2, ScheduleFrame DEF StopPops, AtStop
  <2> QED
    BY <2>1, <2>2
<1> QED
  BY <1>1, <1>2, <1>3, <1>4

\* A stop boundary keeps the types.
LEMMA StopType ==
    ASSUME TypeOK,
           StopCanceled \/ StopSteer \/ StopFollowUp \/ StopDeferred \/ StopNothing
    PROVE  TypeOK'
<1> USE DEF TypeOK
<1>1. CASE StopCanceled \/ StopNothing
  BY <1>1, HostFrame, QueueFrame, ScheduleFrame, GoToType, CounterFrame, HistoryFrame
     DEF StopCanceled, StopNothing, AtStop, Phases
<1>2. CASE StopSteer
  BY <1>2, StopPopsType DEF StopSteer, QueueType
<1>3. CASE StopFollowUp
  BY <1>3, StopPopsType DEF StopFollowUp, QueueType
<1>4. CASE StopDeferred
  <2>1. (Len(deferred) > 1) \in BOOLEAN
    OBVIOUS
  <2> QED
    BY <1>4, <2>1, StopPopsType DEF StopDeferred, QueueType
<1> QED
  BY <1>1, <1>2, <1>3, <1>4

-----------------------------------------------------------------------------
\* Persisting a popped delivery.

\* persistDelivery takes the popped delivery and leaves the mailbox alone.
LEMMA PersistBase ==
    ASSUME TypeOK, NEW phase, AtPersist(phase)
    PROVE  /\ HostType' /\ QueueType' /\ ScheduleType'
           /\ UNCHANGED <<liveTurns, turnSeq, returning>>
           /\ Head(hand) \in Delivery
<1> USE DEF TypeOK
<1>1. HostType' /\ ScheduleType' /\ UNCHANGED <<liveTurns, turnSeq, returning>>
  BY HostFrame, ScheduleFrame DEF AtPersist
<1>2. Head(hand) \in Delivery
  BY PopType DEF AtPersist, QueueType
<1>3. QueueType'
  BY EmptyType DEF AtPersist, QueueType
<1> QED
  BY <1>1, <1>2, <1>3

\* A commit, or its failure, keeps the types of log, fates and counters.
LEMMA CommitType ==
    ASSUME TypeOK, NEW d \in Delivery, Commit(d) \/ CommitFails(d)
    PROVE  HistoryType' /\ stamp' \in Nat /\ prompts' \in Nat /\ faults' \in Nat
<1> USE DEF TypeOK
<1>1. CASE Commit(d)
  <2> DEFINE e == [id |-> d.id, queue |-> d.queue, gen |-> generation,
                   sent |-> d.gen, stamp |-> d.stamp]
  <2>1. e \in Entry
    BY DEF HostType, Delivery, Entry, Queues
  <2>2. log' = Append(log, e)
    BY <1>1 DEF Commit
  <2> HIDE DEF e
  <2>3. log' \in Seq(Entry)
    BY <2>1, <2>2, AppendType DEF HistoryType
  <2>4. fate' \in [Deliveries -> Fates]
    BY <1>1, SettleType DEF Commit, Fates
  <2> QED
    BY <1>1, <2>3, <2>4 DEF Commit, HistoryType, CounterType
<1>2. CASE CommitFails(d)
  <2>1. fate' \in [Deliveries -> Fates]
    BY <1>2, SettleType DEF CommitFails, Fates
  <2>2. log' \in Seq(Entry)
    BY <1>2 DEF CommitFails, HistoryType
  <2>3. faults' \in Nat
    BY <1>2 DEF CommitFails, CounterType
  <2> QED
    BY <1>2, <2>1, <2>2, <2>3 DEF CommitFails, HistoryType, CounterType
<1> QED
  BY <1>1, <1>2

\* Persisting a delivery at a boundary or in the drain keeps the types.
LEMMA PersistType ==
    ASSUME TypeOK, PersistDelivery \/ PersistDeliveryFails \/ DrainPersists
    PROVE  TypeOK'
<1>1. AtPersist("persist") \/ AtPersist("drainPersist")
  BY DEF PersistDelivery, PersistDeliveryFails, DrainPersists
<1>2. /\ HostType' /\ QueueType' /\ ScheduleType'
      /\ UNCHANGED <<liveTurns, turnSeq, returning>> /\ Head(hand) \in Delivery
  BY <1>1, PersistBase
<1>3. HistoryType' /\ stamp' \in Nat /\ prompts' \in Nat /\ faults' \in Nat
  BY <1>2, CommitType DEF PersistDelivery, PersistDeliveryFails, DrainPersists
<1>4. mishaps' \subseteq {"reload", "drain"}
  <2>1. mishaps \subseteq {"reload", "drain"}
    BY DEF TypeOK, CounterType
  <2>2. mishaps' = mishaps \/ mishaps' = mishaps \cup {"drain"}
    BY DEF PersistDelivery, PersistDeliveryFails, DrainPersists
  <2> QED
    BY <2>1, <2>2
<1>5. TurnType'
  <2>1. CASE PersistDelivery
    <3>1. AfterBoundary \in Phases
      BY DEF AfterBoundary, Phases
    <3>2. (turn.external /\ turn.more) \in BOOLEAN
      BY DEF TypeOK, TurnType, Turn
    <3> QED
      BY <1>2, <2>1, <3>1, <3>2, RequestTurnType DEF PersistDelivery, TypeOK
  <2>2. CASE PersistDeliveryFails \/ DrainPersists
    <3>1. GoTo("end") \/ GoTo("drain") \/ GoTo("finish")
      BY <2>2 DEF PersistDeliveryFails, DrainPersists
    <3> QED
      BY <1>2, <3>1, GoToType DEF TypeOK, Phases
  <2> QED
    BY <2>1, <2>2
<1> QED
  BY <1>2, <1>3, <1>4, <1>5 DEF TypeOK, CounterType

-----------------------------------------------------------------------------
\* Requests, cancellation, and the end of a turn.

\* What a turn does between its boundaries keeps the types.
LEMMA RequestType ==
    ASSUME TypeOK, Request \/ AgentReturns \/ AgentCanceledByRebind \/ Interrupt
    PROVE  TypeOK'
<1> USE DEF TypeOK
<1>1. CASE Request \/ AgentReturns
  <2>1. \/ GoTo("poll") \/ GoTo("stop") \/ GoTo("end")
    BY <1>1 DEF Request, RequestContinues, RequestStops, RequestReturns, AgentReturns
  <2>2. UNCHANGED <<lifecycle, turnActive, queues, schedule, skipSteerOnce, kicks,
                    contexts, hand, history>>
    BY <1>1 DEF Request, RequestContinues, RequestStops, RequestReturns, AgentReturns,
       AtRequest
  <2>3. TurnType'
    BY <2>1, <2>2, GoToType DEF Phases
  <2>4. UNCHANGED counters \/ Fault("provider")
    BY <1>1 DEF Request, RequestContinues, RequestStops, RequestReturns, AgentReturns
  <2>5. CounterType'
    BY <2>4, FaultType, CounterFrame
  <2> QED
    BY <2>2, <2>3, <2>5, HostFrame, QueueFrame, ScheduleFrame, HistoryFrame
<1>2. CASE AgentCanceledByRebind \/ Interrupt
  <2> USE DEF AgentCanceledByRebind, Interrupt
  <2>1. TurnType'
    BY <1>2 DEF TurnType
  <2>2. UNCHANGED counters \/ Fault("interrupt")
    BY <1>2
  <2>3. CounterType'
    BY <2>2, FaultType, CounterFrame
  <2> QED
    BY <1>2, <2>1, <2>3, HostFrame, QueueFrame, ScheduleFrame, HistoryFrame
<1> QED
  BY <1>1, <1>2

\* The end of a turn, up to the release of its context, keeps the types.
LEMMA EndType ==
    ASSUME TypeOK,
           EndCanceled \/ EndNormal \/ DrainPops \/ TurnFinishes
             \/ \E r \in returning : ContextReleased(r)
    PROVE  TypeOK'
<1> USE DEF TypeOK
<1>1. CASE EndCanceled
  <2>1. HostType' /\ CounterType'
    BY <1>1 DEF EndCanceled, AtEnd, HostType, CounterType
  <2>2. QueueType'
    BY <1>1, EmptyType DEF EndCanceled, AtEnd, QueueType
  <2>3. ScheduleType'
    <3>1. /\ scheduled' \subseteq scheduled /\ continuationToken' = continuationToken + 1
          /\ continuationQueued' = FALSE /\ skipSteerOnce' = FALSE
          /\ UNCHANGED <<jobs, jobQueued, kicks>>
      BY <1>1 DEF EndCanceled, AtEnd, InvalidateContinuationLocked
    <3>2. continuationToken' \in Nat
      BY <3>1 DEF ScheduleType
    <3> QED
      BY <3>1, <3>2 DEF ScheduleType
  <2>4. TurnType'
    BY <1>1, GoToType DEF EndCanceled, AtEnd, Phases
  <2>5. HistoryType'
    BY <1>1, SettleType DEF EndCanceled, AtEnd, HistoryType, Fates
  <2> QED
    BY <2>1, <2>2, <2>3, <2>4, <2>5
<1>2. CASE EndNormal
  <2>1. HostType' /\ QueueType' /\ HistoryType'
    BY <1>2, QueueFrame, HistoryFrame DEF EndNormal, AtEnd, HostType
  <2>2. ScheduleType' /\ stamp' \in Nat
    <3>1. UNCHANGED <<jobs, jobQueued, kicks, skipSteerOnce>>
      BY <1>2 DEF EndNormal, AtEnd
    <3>2. CASE QueueContinuationLocked /\ stamp' = stamp + 1
      BY <3>1, <3>2, QueueContinuationType DEF ScheduleType, CounterType
    <3>3. CASE UNCHANGED <<scheduled, continuationQueued, continuationToken, stamp>>
      BY <3>1, <3>3, ScheduleFrame DEF CounterType
    <3> QED
      BY <1>2, <3>2, <3>3 DEF EndNormal
  <2>3. TurnType'
    BY <1>2, GoToType DEF EndNormal, AtEnd, Phases
  <2>4. CounterType'
    BY <1>2, <2>2 DEF EndNormal, AtEnd, CounterType
  <2> QED
    BY <2>1, <2>2, <2>3, <2>4
<1>3. CASE DrainPops
  <2>1. GoTo("finish") \/ GoTo("drainPersist")
    BY <1>3 DEF DrainPops
  <2>2. TurnType'
    BY <1>3, <2>1, GoToType DEF DrainPops, Phases
  <2>3. QueueType'
    BY <1>3, PopType DEF DrainPops, QueueType
  <2> QED
    BY <1>3, <2>2, <2>3, HostFrame, ScheduleFrame, CounterFrame, HistoryFrame
       DEF DrainPops
<1>4. CASE TurnFinishes
  <2>1. ScheduleType'
    BY <1>4, DispatchType DEF TurnFinishes, ScheduleType
  <2>2. TurnType'
    <3>1. NoTurn \in Turn
      BY DEF NoTurn, Turn, Phases
    <3>2. liveTurns' \subseteq Nat
      BY <1>4 DEF TurnFinishes, TurnType
    <3>3. [n |-> turn.n, job |-> turn.job] \in [n: Nat, job: BOOLEAN]
      BY DEF TurnType, Turn
    <3>4. returning' \subseteq [n: Nat, job: BOOLEAN]
      BY <1>4, <3>3 DEF TurnFinishes, TurnType
    <3> QED
      BY <1>4, <3>1, <3>2, <3>4 DEF TurnFinishes, TurnType
  <2> QED
    BY <1>4, <2>1, <2>2, HostFrame, QueueFrame, CounterFrame, HistoryFrame
       DEF TurnFinishes
<1>5. CASE \E r \in returning : ContextReleased(r)
  <2>1. PICK r \in returning : ContextReleased(r)
    BY <1>5
  <2>2. ScheduleType'
    BY <2>1 DEF ContextReleased, ScheduleType
  <2>3. TurnType'
    BY <2>1 DEF ContextReleased, TurnType
  <2> QED
    BY <2>1, <2>2, <2>3, HostFrame, QueueFrame, CounterFrame, HistoryFrame
       DEF ContextReleased
<1> QED
  BY <1>1, <1>2, <1>3, <1>4, <1>5

\* Rebinding and shutting down keep the types.
LEMMA HostActionsType ==
    ASSUME TypeOK, BindSession \/ ShutdownCloses \/ ShutdownClears
    PROVE  TypeOK'
<1> USE DEF TypeOK
<1>1. CASE BindSession
  <2>1. HostType'
    BY <1>1 DEF BindSession, HostType
  <2>2. QueueType'
    BY <1>1, EmptyType DEF BindSession, QueueType
  <2>3. ScheduleType'
    BY <1>1 DEF BindSession, ScheduleType
  <2>4. HistoryType'
    BY <1>1, SettleType DEF BindSession, HistoryType, Fates
  <2> QED
    BY <1>1, <2>1, <2>2, <2>3, <2>4, TurnFrame, CounterFrame DEF BindSession
<1>2. CASE ShutdownCloses
  <2>1. HostType'
    BY <1>2 DEF ShutdownCloses, HostType
  <2> QED
    BY <1>2, <2>1, QueueFrame, ScheduleFrame, TurnFrame, CounterFrame, HistoryFrame
       DEF ShutdownCloses
<1>3. CASE ShutdownClears
  <2>1. HostType'
    BY <1>3 DEF ShutdownClears, HostType
  <2>2. QueueType'
    BY <1>3, EmptyType DEF ShutdownClears, QueueType
  <2>3. ScheduleType'
    BY <1>3 DEF ShutdownClears, ScheduleType
  <2>4. TurnType'
    BY <1>3 DEF ShutdownClears, TurnType
  <2>5. HistoryType'
    BY <1>3, SettleType DEF ShutdownClears, HistoryType, Fates
  <2> QED
    BY <1>3, <2>1, <2>2, <2>3, <2>4, <2>5, CounterFrame DEF ShutdownClears
<1> QED
  BY <1>1, <1>2, <1>3

-----------------------------------------------------------------------------
\* The types hold at first.
LEMMA InitType == Init => TypeOK
<1> SUFFICES ASSUME Init PROVE TypeOK
  OBVIOUS
<1> USE DEF Init, NewHost
<1>1. HostType /\ CounterType
  BY DEF HostType, CounterType
<1>2. QueueType
  BY EmptyType DEF QueueType
<1>3. ScheduleType
  BY DEF ScheduleType
<1>4. TurnType
  <2>1. NoTurn \in Turn
    BY DEF NoTurn, Turn, Phases
  <2> QED
    BY <2>1 DEF TurnType
<1>5. HistoryType
  BY EmptyType DEF HistoryType, Fates
<1> QED
  BY <1>1, <1>2, <1>3, <1>4, <1>5 DEF TypeOK

\* Every step of the host keeps the types.
LEMMA NextType == TypeOK /\ [Next]_vars => TypeOK'
<1> SUFFICES ASSUME TypeOK, [Next]_vars PROVE TypeOK'
  OBVIOUS
<1>1. CASE \E d \in Deliveries : Send(d)
  BY <1>1, SendType
<1>2. CASE \E kind \in {"external", "agent"} : PromptAdmitted(kind)
  BY <1>2, PromptType
<1>3. CASE \E j \in jobs : JobRefused(j)
  BY <1>3, JobType
<1>4. CASE JobStep
  BY <1>4, JobType DEF JobStep
<1>5. CASE BeginTurn \/ BeginTurnFails
  BY <1>5, BeginTurnType
<1>6. CASE Interrupt \/ Request \/ AgentReturns \/ AgentCanceledByRebind
  BY <1>6, RequestType
<1>7. CASE BindSession \/ ShutdownCloses \/ ShutdownClears
  BY <1>7, HostActionsType
<1>8. CASE ScheduleMailbox
  BY <1>8, ScheduleMailboxType
<1>9. CASE Boundary \/ DrainPersists
  BY <1>9, PollType, StopType, PersistType DEF Boundary
<1>10. CASE EndCanceled \/ EndNormal \/ DrainPops \/ TurnFinishes \/ Release
  BY <1>10, EndType DEF Release
<1>11. CASE UNCHANGED vars
  BY <1>11, HostFrame, QueueFrame, ScheduleFrame, TurnFrame, CounterFrame, HistoryFrame
     DEF vars, TypeOK
<1> QED
  BY <1>1, <1>2, <1>3, <1>4, <1>5, <1>6, <1>7, <1>8, <1>9, <1>10, <1>11
     DEF Next, Environment, TurnStep, TurnEnds

\* The mailbox, the dispatcher, the turn and their histories keep their types
\* whatever is sent, in every interleaving, for every number of messages, turns,
\* sessions and failures.
THEOREM TypeCorrect == Spec => []TypeOK
<1>1. Init => TypeOK
  BY InitType
<1>2. TypeOK /\ [Next]_vars => TypeOK'
  BY NextType
<1> QED
  BY <1>1, <1>2, PTL DEF Spec

-----------------------------------------------------------------------------
\* A host that was shut down.

\* No message is accepted by a host that is closed.
LEMMA SendEnqueues ==
    ASSUME NEW d, Send(d)
    PROVE  \E signal : MayEnqueue(d, signal)
BY DEF Send, SendUserIdle, SendNextTurn, SendIdlePersisted, SendIdleTrigger,
   SendActiveFollowUp, SendActiveSteer, SendActiveDeferred

ClearedInv == (cleared => closed) /\ ClearedStaysEmpty

\* The strengthened invariant is inductive: a closed host accepts nothing, and
\* a turn that ends in an empty mailbox queues no continuation.
LEMMA ClearedStep == TypeOK /\ ClearedInv /\ [Next]_vars => ClearedInv'
<1> SUFFICES ASSUME TypeOK, ClearedInv, [Next]_vars PROVE ClearedInv'
  OBVIOUS
<1> USE DEF ClearedInv, ClearedStaysEmpty
<1>1. CASE \E d \in Deliveries : Send(d)
  <2>1. ~closed /\ UNCHANGED lifecycle
    BY <1>1, SendEnqueues DEF MayEnqueue
  <2> QED
    BY <2>1
<1>2. CASE \E kind \in {"external", "agent"} : PromptAdmitted(kind)
  BY <1>2 DEF PromptAdmitted, Admit
<1>3. CASE \E j \in jobs : JobRefused(j)
  BY <1>3 DEF JobRefused
<1>4. CASE JobStep
  BY <1>4 DEF JobStep, JobStarts, JobSkipped, JobAdmitted, Admit
<1>5. CASE BeginTurn \/ BeginTurnFails
  BY <1>5 DEF BeginTurn, BeginTurnFails
<1>6. CASE Interrupt \/ Request \/ AgentReturns \/ AgentCanceledByRebind
  BY <1>6 DEF Interrupt, Request, RequestContinues, RequestStops, RequestReturns,
     AtRequest, AgentReturns, AgentCanceledByRebind
<1>7. CASE BindSession \/ ShutdownCloses \/ ShutdownClears
  BY <1>7 DEF BindSession, ShutdownCloses, ShutdownClears
<1>8. CASE ScheduleMailbox
  BY <1>8 DEF ScheduleMailbox, DispatchNext
<1>9. CASE PollCanceled \/ PollNextTurn \/ PollSkipped \/ PollSteer \/ PollNothing
  BY <1>9 DEF PollCanceled, PollNextTurn, PollSkipped, PollSteer, PollNothing,
     PollsSteer, InjectsNextTurn, AtPoll
<1>10. CASE StopCanceled \/ StopSteer \/ StopFollowUp \/ StopDeferred \/ StopNothing
  BY <1>10 DEF StopCanceled, StopSteer, StopFollowUp, StopDeferred, StopNothing,
     StopPops, AtStop
<1>11. CASE PersistDelivery \/ PersistDeliveryFails \/ DrainPersists
  BY <1>11 DEF PersistDelivery, PersistDeliveryFails, DrainPersists, AtPersist
<1>12. CASE EndCanceled
  BY <1>12 DEF EndCanceled, AtEnd, InvalidateContinuationLocked
<1>13. CASE EndNormal
  BY <1>13 DEF EndNormal, AtEnd
<1>14. CASE DrainPops \/ TurnFinishes \/ Release
  BY <1>14 DEF DrainPops, TurnFinishes, DispatchNext, Release, ContextReleased
<1>15. CASE UNCHANGED vars
  BY <1>15 DEF vars
<1> QED
  BY <1>1, <1>2, <1>3, <1>4, <1>5, <1>6, <1>7, <1>8, <1>9, <1>10, <1>11, <1>12,
     <1>13, <1>14, <1>15 DEF Next, Environment, TurnStep, TurnEnds, Boundary

\* Nothing enters or stays in the mailbox of a host that was shut down, however
\* its last sends and its last turn interleave with the shutdown.
THEOREM ClearedCorrect == Spec => []ClearedStaysEmpty
<1>1. Init => ClearedInv
  BY DEF Init, NewHost, ClearedInv, ClearedStaysEmpty
<1>2. TypeOK /\ ClearedInv /\ [Next]_vars => ClearedInv'
  BY ClearedStep
<1>3. ClearedInv => ClearedStaysEmpty
  BY DEF ClearedInv
<1> QED
  BY <1>1, <1>2, <1>3, TypeCorrect, PTL DEF Spec

-----------------------------------------------------------------------------
\* Sessions.

AdmittedInv == InTurn("admitted") => turn.gen = generation
SessionInv  == AdmittedInv /\ OwnSession

\* An entry sent to the session it is appended to keeps the log's own.
LEMMA OwnAppend ==
    ASSUME TypeOK, OwnSession, NEW e, e.sent = e.gen, log' = Append(log, e)
    PROVE  OwnSession'
BY DEF TypeOK, HistoryType, OwnSession

\* A turn is admitted for the session that is bound.
LEMMA AdmitGeneration ==
    ASSUME NEW kind, NEW isJob, NEW gen, NEW text, gen = generation,
           Admit(kind, isJob, gen, text)
    PROVE  AdmittedInv'
BY DEF AdmittedInv, InTurn, Admit

\* The strengthened invariant is inductive: loopMu is taken for a turn of the
\* bound session, no session is bound before that turn begins, and a delivery
\* is committed only to the session it was sent to.
LEMMA SessionStep == TypeOK /\ SessionInv /\ [Next]_vars => SessionInv'
<1> SUFFICES ASSUME TypeOK, SessionInv, [Next]_vars PROVE SessionInv'
  OBVIOUS
<1> USE DEF SessionInv
<1>a. ASSUME UNCHANGED <<generation, turn, log>> PROVE SessionInv'
  BY <1>a DEF AdmittedInv, InTurn, OwnSession
<1>b. ASSUME NEW phase \in Phases \ {"admitted"}, GoTo(phase) PROVE AdmittedInv'
  BY <1>b DEF AdmittedInv, InTurn, GoTo, TypeOK, TurnType, Turn
<1>c. ASSUME UNCHANGED log PROVE OwnSession'
  BY <1>c DEF OwnSession
<1>1. CASE \E d \in Deliveries : Send(d)
  <2>1. PICK d \in Deliveries : Send(d)
    BY <1>1
  <2>2. UNCHANGED <<generation, turn>>
    BY <2>1, SendEnqueues DEF MayEnqueue
  <2>3. UNCHANGED log \/ \E signal : SendIdlePersisted(d, signal)
    BY <2>1 DEF Send, SendUserIdle, SendNextTurn, SendIdleTrigger, SendActiveFollowUp,
       SendActiveSteer, SendActiveDeferred
  <2>4. CASE \E signal : SendIdlePersisted(d, signal)
    <3>1. OwnSession'
      BY <2>4, OwnAppend DEF SendIdlePersisted
    <3> QED
      BY <2>2, <3>1 DEF AdmittedInv, InTurn
  <2> QED
    BY <1>a, <2>2, <2>3, <2>4 DEF AdmittedInv, InTurn
<1>2. CASE \E kind \in {"external", "agent"} : PromptAdmitted(kind)
  <2>1. PICK kind \in {"external", "agent"} : Admit(kind, FALSE, generation, {})
    BY <1>2 DEF PromptAdmitted
  <2> QED
    BY <1>c, <2>1, AdmitGeneration DEF Admit
<1>3. CASE \E j \in jobs : JobRefused(j)
  BY <1>3, <1>a DEF JobRefused
<1>4. CASE JobStep
  <2>1. PICK j \in jobs : JobStarts(j) \/ JobSkipped(j) \/ JobAdmitted(j)
    BY <1>4 DEF JobStep
  <2>2. CASE JobStarts(j) \/ JobSkipped(j)
    BY <1>a, <2>2 DEF JobStarts, JobSkipped
  <2>3. CASE JobAdmitted(j)
    <3>1. j.turn.gen = generation
      BY <2>3 DEF JobAdmitted, ScheduledTurnCurrent
    <3>2. AdmittedInv'
      BY <2>3, <3>1, AdmitGeneration DEF JobAdmitted
    <3> QED
      BY <1>c, <2>3, <3>2 DEF JobAdmitted, Admit
  <2> QED
    BY <2>1, <2>2, <2>3
<1>5. CASE BeginTurn \/ BeginTurnFails
  <2>1. AdmittedInv'
    BY <1>5, <1>b DEF BeginTurn, BeginTurnFails, Phases
  <2>2. OwnSession'
    <3>1. CASE UNCHANGED log
      BY <1>c, <3>1
    <3>2. CASE ~UNCHANGED log
      <4>1. PICK d : log' = Append(log, [id |-> d, queue |-> "prompt",
                       gen |-> generation, sent |-> turn.gen, stamp |-> 0])
        BY <1>5, <3>2 DEF BeginTurn, BeginTurnFails
      <4>2. turn.gen = generation
        BY <1>5, <3>2 DEF BeginTurn, BeginTurnFails, AdmittedInv
      <4> QED
        BY <4>1, <4>2, OwnAppend
    <3> QED
      BY <3>1, <3>2
  <2> QED
    BY <2>1, <2>2
<1>6. CASE Interrupt \/ AgentCanceledByRebind
  BY <1>6, <1>a DEF Interrupt, AgentCanceledByRebind
<1>7. CASE Request \/ AgentReturns
  <2>1. GoTo("poll") \/ GoTo("stop") \/ GoTo("end")
    BY <1>7 DEF Request, RequestContinues, RequestStops, RequestReturns, AgentReturns
  <2>2. UNCHANGED log
    BY <1>7 DEF Request, RequestContinues, RequestStops, RequestReturns, AtRequest,
       AgentReturns
  <2> QED
    BY <1>b, <1>c, <2>1, <2>2 DEF Phases
<1>8. CASE BindSession
  <2>1. ~InTurn("admitted") /\ UNCHANGED <<turn, log>>
    BY <1>8 DEF BindSession, WorkerFree, InTurn
  <2> QED
    BY <1>c, <2>1 DEF AdmittedInv, InTurn
<1>9. CASE ShutdownCloses \/ ShutdownClears
  BY <1>9, <1>a DEF ShutdownCloses, ShutdownClears
<1>10. CASE ScheduleMailbox \/ Release
  BY <1>10, <1>a DEF ScheduleMailbox, Release, ContextReleased
<1>11. CASE PollCanceled \/ PollNextTurn \/ PollSkipped \/ PollSteer \/ PollNothing
  <2>1. UNCHANGED <<generation, log>>
    BY <1>11 DEF PollCanceled, PollNextTurn, PollSkipped, PollSteer, PollNothing,
       PollsSteer, AtPoll
  <2>2. turn'.phase # "admitted"
    BY <1>11 DEF PollCanceled, PollNextTurn, PollSkipped, PollSteer, PollNothing,
       GoTo, TypeOK, TurnType, Turn
  <2> QED
    BY <1>c, <2>1, <2>2 DEF AdmittedInv, InTurn
<1>12. CASE StopCanceled \/ StopSteer \/ StopFollowUp \/ StopDeferred \/ StopNothing
  <2>1. UNCHANGED <<generation, log>>
    BY <1>12 DEF StopCanceled, StopSteer, StopFollowUp, StopDeferred, StopNothing,
       StopPops, AtStop
  <2>2. turn'.phase # "admitted"
    BY <1>12 DEF StopCanceled, StopSteer, StopFollowUp, StopDeferred, StopNothing,
       StopPops, GoTo, TypeOK, TurnType, Turn
  <2> QED
    BY <1>c, <2>1, <2>2 DEF AdmittedInv, InTurn
<1>13. CASE PersistDelivery \/ PersistDeliveryFails \/ DrainPersists
  <2>1. turn'.phase # "admitted"
    BY <1>13 DEF PersistDelivery, PersistDeliveryFails, DrainPersists, AfterBoundary,
       GoTo, TypeOK, TurnType, Turn
  <2>2. UNCHANGED log \/ Commit(Head(hand))
    BY <1>13 DEF PersistDelivery, PersistDeliveryFails, DrainPersists, CommitFails
  <2>3. ASSUME Commit(Head(hand)) PROVE OwnSession'
    BY <2>3, OwnAppend DEF Commit, MayPersist
  <2> QED
    BY <1>c, <2>1, <2>2, <2>3 DEF AdmittedInv, InTurn
<1>14. CASE EndCanceled \/ EndNormal \/ DrainPops
  <2>1. GoTo("finish") \/ GoTo("drain") \/ GoTo("drainPersist")
    BY <1>14 DEF EndCanceled, EndNormal, DrainPops
  <2>2. UNCHANGED log
    BY <1>14 DEF EndCanceled, EndNormal, DrainPops, AtEnd
  <2> QED
    BY <1>b, <1>c, <2>1, <2>2 DEF Phases
<1>15. CASE TurnFinishes
  BY <1>15, <1>c DEF TurnFinishes, NoTurn, AdmittedInv, InTurn
<1>16. CASE UNCHANGED vars
  BY <1>16, <1>a DEF vars
<1> QED
  BY <1>1, <1>2, <1>3, <1>4, <1>5, <1>6, <1>7, <1>8, <1>9, <1>10, <1>11, <1>12,
     <1>13, <1>14, <1>15, <1>16 DEF Next, Environment, TurnStep, TurnEnds, Boundary

\* A message accepted for one session never enters another one, however often
\* the session is replaced between its acceptance, its turn and its commit.
THEOREM OwnSessionCorrect == Spec => []OwnSession
<1>1. Init => SessionInv
  BY DEF Init, NewHost, SessionInv, AdmittedInv, InTurn, NoTurn, OwnSession
<1>2. TypeOK /\ SessionInv /\ [Next]_vars => SessionInv'
  BY SessionStep
<1>3. SessionInv => OwnSession
  BY DEF SessionInv
<1> QED
  BY <1>1, <1>2, <1>3, TypeCorrect, PTL DEF Spec

-----------------------------------------------------------------------------
\* Wakeups.

\* The flag jobQueued stands for a job that will clear it, and no turn of a
\* replaced session is scheduled.
HeldInv == jobQueued => \E j \in jobs : j.phase = "dispatched" /\ j.turn.gen = generation
BoundInv == \A t \in scheduled : t.gen = generation
WakeInv == HeldInv /\ BoundInv /\ NoLostWakeup

\* After a dispatch nothing is left to dispatch, or the dispatcher holds a job.
LEMMA DispatchHeld ==
    ASSUME HeldInv, BoundInv, DispatchNext, UNCHANGED <<closed, generation>>
    PROVE  HeldInv' /\ BoundInv' /\ (scheduled' # {} /\ ~closed' => jobs' # {})
<1>1. CASE UNCHANGED <<scheduled, jobQueued, jobs>> /\ (closed \/ jobQueued \/ scheduled = {})
  BY <1>1 DEF HeldInv, BoundInv
<1>2. CASE \E t \in scheduled : /\ scheduled' = scheduled \ {t}
                               /\ jobs' = jobs \cup {[turn |-> t, phase |-> "dispatched"]}
  <2>1. PICK t \in scheduled : /\ scheduled' = scheduled \ {t}
                              /\ jobs' = jobs \cup {[turn |-> t, phase |-> "dispatched"]}
    BY <1>2
  <2> DEFINE j == [turn |-> t, phase |-> "dispatched"]
  <2>2. j \in jobs' /\ j.phase = "dispatched" /\ j.turn.gen = generation'
    BY <2>1 DEF BoundInv
  <2>3. BoundInv'
    BY <2>1 DEF BoundInv
  <2> HIDE DEF j
  <2> QED
    BY <2>2, <2>3 DEF HeldInv
<1> QED
  BY <1>1, <1>2 DEF DispatchNext

\* A queued continuation belongs to the bound session.
LEMMA QueueBound ==
    ASSUME BoundInv, UNCHANGED generation,
           QueueContinuationLocked \/ UNCHANGED scheduled
    PROVE  BoundInv'
BY DEF BoundInv, QueueContinuationLocked

\* The strengthened invariant is inductive: whoever leaves a turn scheduled has
\* asked for a dispatch, or the dispatcher holds a job that will ask, or the
\* turn that holds loopMu will.
LEMMA WakeStep == TypeOK /\ WakeInv /\ [Next]_vars => WakeInv'
<1> SUFFICES ASSUME TypeOK, WakeInv, [Next]_vars PROVE WakeInv'
  OBVIOUS
<1> USE DEF WakeInv
<1>a. kicks \in Nat
  BY DEF TypeOK, ScheduleType
<1>b. ASSUME UNCHANGED <<generation, jobs, jobQueued>> PROVE HeldInv'
  BY <1>b DEF HeldInv
<1>c. ASSUME UNCHANGED <<generation, jobs, jobQueued, closed, scheduled, kicks, returning>>,
             turn'.phase # "none" \/ turn' = turn
      PROVE  WakeInv'
  BY <1>b, <1>c DEF NoLostWakeup, BoundInv
<1>d. ASSUME kicks' = kicks + 1 PROVE NoLostWakeup'
  BY <1>a, <1>d DEF NoLostWakeup
<1>e. ASSUME turn'.phase # "none" PROVE NoLostWakeup'
  BY <1>e DEF NoLostWakeup
<1>f. ASSUME NEW phase \in Phases \ {"none"}, GoTo(phase) PROVE turn'.phase # "none"
  BY <1>f DEF GoTo, TypeOK, TurnType, Turn
<1>1. CASE \E d \in Deliveries : Send(d)
  <2>1. PICK d \in Deliveries : Send(d)
    BY <1>1
  <2>2. UNCHANGED <<closed, generation, turn, returning, jobs, jobQueued>>
    BY <2>1, SendEnqueues DEF MayEnqueue, Send, SendUserIdle, SendNextTurn,
       SendIdlePersisted, SendIdleTrigger, SendActiveFollowUp, SendActiveSteer,
       SendActiveDeferred
  <2>3. \/ UNCHANGED <<scheduled, kicks>>
        \/ kicks' = kicks + 1 /\ \E signal : SendUserIdle(d, signal)
        \/ kicks' = kicks + 1 /\ QueueContinuationLocked
    BY <2>1 DEF Send, SendUserIdle, SendNextTurn, SendIdlePersisted, SendIdleTrigger,
       SendActiveFollowUp, SendActiveSteer, SendActiveDeferred
  <2>4. CASE UNCHANGED <<scheduled, kicks>>
    BY <1>c, <2>2, <2>4
  <2>5. CASE kicks' = kicks + 1 /\ \E signal : SendUserIdle(d, signal)
    <3>1. BoundInv'
      BY <2>2, <2>5 DEF SendUserIdle, BoundInv
    <3> QED
      BY <1>b, <1>d, <2>2, <2>5, <3>1
  <2>6. CASE kicks' = kicks + 1 /\ QueueContinuationLocked
    BY <1>b, <1>d, <2>2, <2>6, QueueBound
  <2> QED
    BY <2>3, <2>4, <2>5, <2>6
<1>2. CASE \E kind \in {"external", "agent"} : PromptAdmitted(kind)
  <2>1. /\ turn'.phase = "admitted"
        /\ UNCHANGED <<generation, jobs, jobQueued, scheduled>>
    BY <1>2 DEF PromptAdmitted, Admit
  <2> QED
    BY <1>b, <1>e, <2>1 DEF BoundInv
<1>3. ASSUME NEW j \in jobs, JobStarts(j) PROVE WakeInv'
  <2>1. jobs' # {} /\ jobQueued' = FALSE /\ UNCHANGED <<generation, scheduled>>
    BY <1>3 DEF JobStarts
  <2> QED
    BY <2>1 DEF HeldInv, BoundInv, NoLostWakeup
<1>4. ASSUME NEW j \in jobs, JobSkipped(j) PROVE WakeInv'
  <2>1. NoLostWakeup' /\ BoundInv'
    BY <1>4, <1>d DEF JobSkipped, AsksForNext, BoundInv
  <2>2. CASE j.phase = "dispatched" /\ j.turn.gen = generation
    BY <1>4, <2>1, <2>2 DEF JobSkipped, HeldInv
  <2>3. CASE ~(j.phase = "dispatched" /\ j.turn.gen = generation)
    BY <1>4, <2>1, <2>3 DEF JobSkipped, HeldInv
  <2> QED
    BY <2>2, <2>3
<1>5. ASSUME NEW j \in jobs, j.phase = "ready", jobs' = jobs \ {j},
             UNCHANGED <<generation, jobQueued>>
      PROVE  HeldInv'
  BY <1>5 DEF HeldInv
<1>6. ASSUME NEW j \in jobs, JobRefused(j) PROVE WakeInv'
  BY <1>5, <1>6, <1>d DEF JobRefused, AsksForNext, BoundInv
<1>7. ASSUME NEW j \in jobs, JobAdmitted(j) PROVE WakeInv'
  <2>1. turn'.phase = "admitted" /\ UNCHANGED <<generation, scheduled, jobQueued>>
    BY <1>7 DEF JobAdmitted, Admit
  <2>2. HeldInv'
    BY <1>5, <1>7, <2>1 DEF JobAdmitted
  <2> QED
    BY <1>e, <2>1, <2>2 DEF BoundInv
<1>8. CASE BeginTurn \/ BeginTurnFails
  <2>1. turn'.phase # "none"
    BY <1>8, <1>f DEF BeginTurn, BeginTurnFails, Phases
  <2> QED
    BY <1>8, <1>c, <2>1 DEF BeginTurn, BeginTurnFails
<1>9. CASE Interrupt \/ AgentCanceledByRebind
  BY <1>9, <1>c DEF Interrupt, AgentCanceledByRebind
<1>10. CASE Request \/ AgentReturns
  <2>1. GoTo("poll") \/ GoTo("stop") \/ GoTo("end")
    BY <1>10 DEF Request, RequestContinues, RequestStops, RequestReturns, AgentReturns
  <2>2. UNCHANGED <<lifecycle, schedule, kicks, contexts>>
    BY <1>10 DEF Request, RequestContinues, RequestStops, RequestReturns, AtRequest,
       AgentReturns
  <2> QED
    BY <1>c, <1>f, <2>1, <2>2 DEF Phases
<1>11. CASE BindSession \/ ShutdownCloses \/ ShutdownClears
  BY <1>11 DEF BindSession, ShutdownCloses, ShutdownClears, HeldInv, BoundInv,
     NoLostWakeup
<1>12. CASE ScheduleMailbox
  BY <1>12, DispatchHeld DEF ScheduleMailbox, NoLostWakeup
<1>13. CASE Boundary \/ DrainPersists
  <2>1. UNCHANGED <<generation, jobs, jobQueued, scheduled>>
    BY <1>13 DEF Boundary, PollCanceled, PollNextTurn, PollSkipped, PollSteer,
       PollNothing, PollsSteer, AtPoll, StopCanceled, StopSteer, StopFollowUp,
       StopDeferred, StopNothing, StopPops, AtStop, PersistDelivery,
       PersistDeliveryFails, DrainPersists, AtPersist
  <2>2. turn'.phase # "none"
    BY <1>13 DEF Boundary, PollCanceled, PollNextTurn, PollSkipped, PollSteer,
       PollNothing, StopCanceled, StopSteer, StopFollowUp, StopDeferred, StopNothing,
       StopPops, PersistDelivery, PersistDeliveryFails, DrainPersists, AfterBoundary,
       GoTo, TypeOK, TurnType, Turn
  <2> QED
    BY <1>b, <1>e, <2>1, <2>2 DEF BoundInv
<1>14. CASE EndCanceled \/ EndNormal
  <2>1. turn'.phase # "none"
    BY <1>14, <1>f DEF EndCanceled, EndNormal, Phases
  <2>2. UNCHANGED <<generation, jobs, jobQueued>>
    BY <1>14 DEF EndCanceled, EndNormal, AtEnd
  <2>3. \/ scheduled' \subseteq scheduled
        \/ QueueContinuationLocked
    BY <1>14 DEF EndCanceled, EndNormal, InvalidateContinuationLocked
  <2>4. BoundInv'
    BY <2>2, <2>3, QueueBound DEF BoundInv
  <2> QED
    BY <1>b, <1>e, <2>1, <2>2, <2>4
<1>15. CASE DrainPops
  <2>1. turn'.phase # "none"
    BY <1>15, <1>f DEF DrainPops, Phases
  <2> QED
    BY <1>15, <1>c, <2>1 DEF DrainPops
<1>16. CASE TurnFinishes
  BY <1>16, DispatchHeld DEF TurnFinishes, NoLostWakeup
<1>17. CASE Release
  <2>1. PICK r \in returning : ContextReleased(r)
    BY <1>17 DEF Release
  <2>2. UNCHANGED <<generation, closed, scheduled, jobs, jobQueued, turn>>
    BY <2>1 DEF ContextReleased
  <2>3. CASE r.job
    BY <1>b, <1>d, <2>1, <2>2, <2>3 DEF ContextReleased, BoundInv
  <2>4. CASE ~r.job
    BY <1>a, <1>b, <2>1, <2>2, <2>4 DEF ContextReleased, BoundInv, NoLostWakeup
  <2> QED
    BY <2>3, <2>4
<1>18. CASE UNCHANGED vars
  BY <1>18, <1>c DEF vars
<1> QED
  BY <1>1, <1>2, <1>3, <1>4, <1>6, <1>7, <1>8, <1>9, <1>10, <1>11, <1>12, <1>13,
     <1>14, <1>15, <1>16, <1>17, <1>18 DEF Next, Environment, JobStep, TurnStep, TurnEnds

\* No wakeup of the dispatcher is lost: while a turn is left to dispatch, someone
\* is about to call scheduleMailbox again, for any number of messages, jobs,
\* stale turns and rebinds.
THEOREM NoLostWakeupCorrect == Spec => []NoLostWakeup
<1>1. Init => WakeInv
  BY DEF Init, NewHost, WakeInv, HeldInv, BoundInv, NoLostWakeup
<1>2. TypeOK /\ WakeInv /\ [Next]_vars => WakeInv'
  BY WakeStep
<1>3. WakeInv => NoLostWakeup
  BY DEF WakeInv
<1> QED
  BY <1>1, <1>2, <1>3, TypeCorrect, PTL DEF Spec

-----------------------------------------------------------------------------
\* nextTurn.

ExternalInv == turn.external => turn.kind = "external"

\* How a step changes the turn: it admits another one, lets loopMu go, or keeps
\* the kind of the turn and at most stops it from injecting.
LEMMA TurnSteps ==
    ASSUME TypeOK, [Next]_vars
    PROVE  \/ turn'.external => turn'.kind = "external"
           \/ turn' = NoTurn
           \/ turn'.kind = turn.kind /\ (turn'.external => turn.external)
<1>a. ASSUME NEW phase, GoTo(phase)
      PROVE  turn'.kind = turn.kind /\ (turn'.external => turn.external)
  BY <1>a DEF GoTo, TypeOK, TurnType, Turn
<1>1. CASE \E d \in Deliveries : Send(d)
  BY <1>1, SendEnqueues DEF MayEnqueue
<1>2. CASE \E kind, isJob, gen, text : Admit(kind, isJob, gen, text)
  <2>1. PICK kind, isJob, gen, text : Admit(kind, isJob, gen, text)
    BY <1>2
  <2>2. turn'.external = (kind = "external") /\ turn'.kind = kind
    BY <2>1 DEF Admit
  <2>3. CASE kind = "external"
    BY <2>2, <2>3
  <2>4. CASE kind # "external"
    BY <2>2, <2>4
  <2> QED
    BY <2>3, <2>4
<1>3. CASE (\E j \in jobs : JobRefused(j) \/ JobStarts(j) \/ JobSkipped(j)) \/ Release
  BY <1>3 DEF JobRefused, JobStarts, JobSkipped, Release, ContextReleased
<1>4. CASE BeginTurn \/ BeginTurnFails \/ Request \/ AgentReturns
  BY <1>4, <1>a DEF BeginTurn, BeginTurnFails, Request, RequestContinues,
     RequestStops, RequestReturns, AgentReturns
<1>5. CASE Interrupt \/ AgentCanceledByRebind \/ ScheduleMailbox
  BY <1>5 DEF Interrupt, AgentCanceledByRebind, ScheduleMailbox
<1>6. CASE BindSession \/ ShutdownCloses \/ ShutdownClears \/ UNCHANGED vars
  BY <1>6 DEF BindSession, ShutdownCloses, ShutdownClears, vars
<1>7. CASE Boundary
  <2> USE DEF TypeOK, TurnType, Turn
  <2>1. CASE PollCanceled \/ StopCanceled \/ StopNothing \/ PersistDeliveryFails
    BY <2>1, <1>a DEF PollCanceled, StopCanceled, StopNothing, PersistDeliveryFails
  <2>2. CASE PollNextTurn \/ PollSkipped \/ PollSteer \/ PollNothing
    BY <2>2 DEF PollNextTurn, PollSkipped, PollSteer, PollNothing
  <2>3. CASE StopSteer \/ StopFollowUp \/ StopDeferred
    BY <2>3 DEF StopSteer, StopFollowUp, StopDeferred, StopPops
  <2>4. CASE PersistDelivery
    BY <2>4 DEF PersistDelivery
  <2> QED
    BY <1>7, <2>1, <2>2, <2>3, <2>4 DEF Boundary
<1>8. CASE EndCanceled \/ EndNormal \/ DrainPops \/ DrainPersists
  BY <1>8, <1>a DEF EndCanceled, EndNormal, DrainPops, DrainPersists
<1>9. CASE TurnFinishes
  BY <1>9 DEF TurnFinishes
<1> QED
  BY <1>1, <1>2, <1>3, <1>4, <1>5, <1>6, <1>7, <1>8, <1>9 DEF Next, Environment,
     JobStep, JobAdmitted, PromptAdmitted, TurnStep, TurnEnds

\* Only the turn of an external input ever injects nextTurn messages.
LEMMA ExternalStep == TypeOK /\ ExternalInv /\ [Next]_vars => ExternalInv'
<1> SUFFICES ASSUME TypeOK, ExternalInv, [Next]_vars PROVE ExternalInv'
  OBVIOUS
<1>1. CASE turn' = NoTurn
  BY <1>1 DEF ExternalInv, NoTurn
<1>2. CASE turn'.kind = turn.kind /\ (turn'.external => turn.external)
  BY <1>2 DEF ExternalInv
<1> QED
  BY <1>1, <1>2, TurnSteps DEF ExternalInv

\* An append to a queue keeps the messages that wait in it.
LEMMA AppendKeepsIds ==
    ASSUME NEW q \in Seq(Delivery), NEW x \in Delivery
    PROVE  Ids(q) \subseteq Ids(Append(q, x))
<1>1. \A i \in DOMAIN q : i \in DOMAIN Append(q, x) /\ Append(q, x)[i] = q[i]
  OBVIOUS
<1> QED
  BY <1>1 DEF Ids, Elements

\* The steps that take a message from the nextTurn queue.
LEMMA NextTurnSteps ==
    ASSUME TypeOK, [Next]_vars
    PROVE  \/ UNCHANGED nextTurn
           \/ \E d \in Deliveries : nextTurn' = Append(nextTurn, NewDelivery(d, "nextTurn", FALSE, 0))
           \/ turn.external
           \/ generation' # generation
           \/ cleared'
<1>1. CASE \E d \in Deliveries : Send(d)
  BY <1>1 DEF Send, SendUserIdle, SendNextTurn, SendIdlePersisted, SendIdleTrigger,
     SendActiveFollowUp, SendActiveSteer, SendActiveDeferred
<1>2. CASE \E kind, isJob, gen, text : Admit(kind, isJob, gen, text)
  BY <1>2 DEF Admit
<1>3. CASE (\E j \in jobs : JobRefused(j) \/ JobStarts(j) \/ JobSkipped(j)) \/ Release
  BY <1>3 DEF JobRefused, JobStarts, JobSkipped, Release, ContextReleased
<1>4. CASE BeginTurn \/ BeginTurnFails \/ Request \/ AgentReturns
  BY <1>4 DEF BeginTurn, BeginTurnFails, Request, RequestContinues, RequestStops,
     RequestReturns, AtRequest, AgentReturns
<1>5. CASE Interrupt \/ AgentCanceledByRebind \/ ScheduleMailbox
  BY <1>5 DEF Interrupt, AgentCanceledByRebind, ScheduleMailbox
<1>6. CASE BindSession
  <2>1. generation \in Nat /\ generation' = generation + 1
    BY <1>6 DEF BindSession, TypeOK, HostType
  <2>2. generation' # generation
    BY <2>1
  <2> QED
    BY <2>2
<1>7. CASE ShutdownCloses \/ ShutdownClears \/ UNCHANGED vars
  BY <1>7 DEF ShutdownCloses, ShutdownClears, vars
<1>8. CASE Boundary
  BY <1>8 DEF Boundary, PollCanceled, PollNextTurn, InjectsNextTurn, PollSkipped,
     PollSteer, PollNothing, PollsSteer, StopCanceled, StopSteer, StopFollowUp,
     StopDeferred, StopNothing, StopPops, AtStop, PersistDelivery,
     PersistDeliveryFails, AtPersist
<1>9. CASE EndCanceled \/ EndNormal \/ DrainPops \/ DrainPersists \/ TurnFinishes
  BY <1>9 DEF EndCanceled, EndNormal, AtEnd, DrainPops, DrainPersists, AtPersist,
     TurnFinishes
<1> QED
  BY <1>1, <1>2, <1>3, <1>4, <1>5, <1>6, <1>7, <1>8, <1>9 DEF Next, Environment,
     JobStep, JobAdmitted, PromptAdmitted, TurnStep, TurnEnds

\* No step takes a nextTurn message away but the three that may.
LEMMA NextTurnStep ==
    ASSUME TypeOK, ExternalInv, [Next]_vars, NEW d \in Ids(nextTurn)
    PROVE  \/ d \in Ids(nextTurn')
           \/ turn.kind = "external" /\ turn.external
           \/ generation' # generation
           \/ cleared'
<1>1. CASE UNCHANGED nextTurn
  BY <1>1
<1>2. CASE \E e \in Deliveries :
             nextTurn' = Append(nextTurn, NewDelivery(e, "nextTurn", FALSE, 0))
  <2>1. PICK e \in Deliveries :
             nextTurn' = Append(nextTurn, NewDelivery(e, "nextTurn", FALSE, 0))
    BY <1>2
  <2>2. NewDelivery(e, "nextTurn", FALSE, 0) \in Delivery
    BY DeliveryType DEF TypeOK, Queues
  <2> QED
    BY <2>1, <2>2, AppendKeepsIds DEF TypeOK, QueueType
<1> QED
  BY <1>1, <1>2, NextTurnSteps DEF ExternalInv

\* A nextTurn message stays through cancelled turns, continuations and sends: it
\* leaves its queue only into an external turn, with its session or at shutdown.
THEOREM NextTurnStaysCorrect == Spec => NextTurnStays
<1>1. Init => ExternalInv
  BY DEF Init, NewHost, ExternalInv, NoTurn
<1>2. TypeOK /\ ExternalInv /\ [Next]_vars => ExternalInv'
  BY ExternalStep
<1>3. TypeOK /\ ExternalInv /\ [Next]_vars =>
        [\A d \in Ids(nextTurn) :
            \/ d \in Ids(nextTurn')
            \/ turn.kind = "external" /\ turn.external
            \/ generation' # generation
            \/ cleared']_vars
  BY NextTurnStep
<1> QED
  BY <1>1, <1>2, <1>3, TypeCorrect, PTL DEF Spec, NextTurnStays

-----------------------------------------------------------------------------
\* Deferred messages.

\* The phases in which the host counts a turn as active: beginTurn to endTurn.
ActivePhases == {"poll", "persist", "request", "stop", "agent", "end"}

ActiveInv   == turnActive <=> turn.phase \in ActivePhases
LeftoverInv == deferred # <<>> => \/ turn.phase \in ActivePhases \cup {"drain", "drainPersist"}
                                  \/ "drain" \in mishaps
DrainInv    == ActiveInv /\ LeftoverInv

\* The flag turnActive and the phase of the turn agree, and deferred messages
\* wait for a turn that will drain them unless a drain has failed.
LEMMA DrainStep == TypeOK /\ DrainInv /\ [Next]_vars => DrainInv'
<1> SUFFICES ASSUME TypeOK, DrainInv, [Next]_vars PROVE DrainInv'
  OBVIOUS
<1> USE DEF DrainInv, ActiveInv, LeftoverInv, ActivePhases
<1>a. ASSUME UNCHANGED <<turnActive, turn, deferred, mishaps>> PROVE DrainInv'
  BY <1>a
<1>b. ASSUME NEW phase, GoTo(phase) PROVE turn'.phase = phase
  BY <1>b DEF GoTo, TypeOK, TurnType, Turn
<1>1. CASE \E d \in Deliveries : Send(d)
  <2>1. PICK d \in Deliveries : Send(d)
    BY <1>1
  <2>2. UNCHANGED <<turnActive, turn, mishaps>>
    BY <2>1, SendEnqueues DEF MayEnqueue
  <2>3. UNCHANGED deferred \/ turnActive
    BY <2>1 DEF Send, SendUserIdle, SendNextTurn, SendIdlePersisted, SendIdleTrigger,
       SendActiveFollowUp, SendActiveSteer, SendActiveDeferred
  <2> QED
    BY <2>2, <2>3
<1>2. CASE \/ \E kind \in {"external", "agent"} : PromptAdmitted(kind)
           \/ \E j \in jobs : JobAdmitted(j)
  <2>1. /\ turn.phase = "none" /\ turn'.phase = "admitted"
        /\ UNCHANGED <<turnActive, deferred, mishaps>>
    BY <1>2 DEF PromptAdmitted, JobAdmitted, Admit
  <2> QED
    BY <2>1
<1>3. CASE (\E j \in jobs : JobStarts(j) \/ JobSkipped(j)) \/ Release
  BY <1>3, <1>a DEF JobStarts, JobSkipped, Release, ContextReleased
<1>4. CASE \E j \in jobs : JobRefused(j)
  BY <1>4 DEF JobRefused
<1>5. CASE BeginTurn \/ BeginTurnFails
  <2>1. turn.phase = "admitted" /\ turn'.phase \in ActivePhases
    BY <1>5, <1>b DEF BeginTurn, BeginTurnFails, InTurn
  <2>2. turnActive' = TRUE
    BY <1>5 DEF BeginTurn, BeginTurnFails
  <2> QED
    BY <2>1, <2>2
<1>6. CASE Request \/ AgentReturns
  <2>1. turn.phase \in ActivePhases /\ turn'.phase \in ActivePhases
    BY <1>6, <1>b DEF Request, RequestContinues, RequestStops, RequestReturns, AtRequest,
       AgentReturns, InTurn
  <2>2. UNCHANGED turnActive
    BY <1>6 DEF Request, RequestContinues, RequestStops, RequestReturns, AtRequest,
       AgentReturns
  <2> QED
    BY <2>1, <2>2
<1>7. CASE Interrupt \/ AgentCanceledByRebind \/ ScheduleMailbox \/ ShutdownCloses
  BY <1>7, <1>a DEF Interrupt, AgentCanceledByRebind, ScheduleMailbox, ShutdownCloses, Fault
<1>8. CASE BindSession \/ ShutdownClears
  BY <1>8 DEF BindSession, ShutdownClears
<1>9. CASE Boundary
  <2>1. UNCHANGED turnActive
    BY <1>9 DEF Boundary, PollCanceled, PollNextTurn, PollSkipped, PollSteer,
       PollNothing, PollsSteer, AtPoll, StopCanceled, StopSteer, StopFollowUp,
       StopDeferred, StopNothing, StopPops, AtStop, PersistDelivery,
       PersistDeliveryFails, AtPersist
  <2>2. turn.phase \in ActivePhases
    BY <1>9 DEF Boundary, PollCanceled, PollNextTurn, PollSkipped, PollSteer,
       PollNothing, PollsSteer, AtPoll, StopCanceled, StopSteer, StopFollowUp,
       StopDeferred, StopNothing, StopPops, AtStop, PersistDelivery,
       PersistDeliveryFails, AtPersist, InTurn
  <2>3. turn'.phase \in ActivePhases
    BY <1>9, <1>b DEF Boundary, PollCanceled, PollNextTurn, PollSkipped, PollSteer,
       PollNothing, StopCanceled, StopSteer, StopFollowUp, StopDeferred, StopNothing,
       StopPops, PersistDelivery, PersistDeliveryFails, AfterBoundary, TypeOK, TurnType, Turn
  <2> QED
    BY <2>1, <2>2, <2>3
<1>10. CASE EndCanceled \/ EndNormal
  <2>1. turnActive' = FALSE /\ UNCHANGED mishaps
    BY <1>10 DEF EndCanceled, EndNormal, AtEnd
  <2>2. turn'.phase = "drain" \/ (turn'.phase = "finish" /\ deferred' = <<>>)
    BY <1>10, <1>b DEF EndCanceled, EndNormal
  <2> QED
    BY <2>1, <2>2
<1>11. CASE DrainPops
  <2>1. UNCHANGED <<turnActive, mishaps>> /\ turn.phase = "drain"
    BY <1>11 DEF DrainPops, InTurn
  <2>2. turn'.phase = "drainPersist" \/ (turn'.phase = "finish" /\ deferred' = <<>>)
    BY <1>11, <1>b DEF DrainPops
  <2> QED
    BY <2>1, <2>2
<1>12. CASE DrainPersists
  <2>1. UNCHANGED <<turnActive, deferred>> /\ turn.phase = "drainPersist"
    BY <1>12 DEF DrainPersists, AtPersist, InTurn
  <2>2. turn'.phase = "drain" \/ (turn'.phase = "finish" /\ "drain" \in mishaps')
    BY <1>12, <1>b DEF DrainPersists
  <2> QED
    BY <2>1, <2>2
<1>13. CASE TurnFinishes
  BY <1>13 DEF TurnFinishes, NoTurn, InTurn
<1>14. CASE UNCHANGED vars
  BY <1>14, <1>a DEF vars
<1> QED
  BY <1>1, <1>2, <1>3, <1>4, <1>5, <1>6, <1>7, <1>8, <1>9, <1>10, <1>11, <1>12, <1>13, <1>14
     DEF Next, Environment, JobStep, TurnStep, TurnEnds

\* The deferred messages of a turn are drained when it ends, in whatever order
\* they are sent, popped, interrupted and dropped: what outlives a turn was left
\* by a drain that failed.
THEOREM DeferredDrainedCorrect == Spec => []DeferredDrained
<1>1. Init => DrainInv
  BY DEF Init, NewHost, NoTurn, DrainInv, ActiveInv, LeftoverInv, ActivePhases
<1>2. TypeOK /\ DrainInv /\ [Next]_vars => DrainInv'
  BY DrainStep
<1>3. DrainInv => DeferredDrained
  BY DEF DrainInv, LeftoverInv, ActivePhases, DeferredDrained
<1> QED
  BY <1>1, <1>2, <1>3, TypeCorrect, PTL DEF Spec

-----------------------------------------------------------------------------
\* Continuations.

\* The turns left to run: scheduled, or with the dispatcher.
Left == scheduled \cup {j.turn : j \in jobs}

TokensBounded ==
    \A t \in Left :
        /\ t.gen <= generation
        /\ ~t.external /\ t.gen = generation => t.token <= continuationToken
OneClaim == \A t, u \in Claims : t = u
TokenInv == TokensBounded /\ OneClaim

\* The turns left to run have types.
LEMMA LeftType == TypeOK => Left \subseteq ScheduledTurn
BY DEF TypeOK, ScheduleType, Job, Left

\* Claims are among the turns left.
LEMMA ClaimsLeft == Claims = {t \in Left : CurrentContinuation(t)}
BY DEF Claims, Left

\* No turn is added; the token is kept or renewed, which ends every claim.
LEMMA TokensKept ==
    ASSUME TypeOK, TokenInv, Left' \subseteq Left, generation' = generation,
           continuationToken' \in {continuationToken, continuationToken + 1}
    PROVE  TokenInv' /\ (continuationToken' # continuationToken => Claims' = {})
                     /\ (continuationToken' = continuationToken => Claims' \subseteq Claims)
<1>0. /\ Claims' = {t \in Left' : CurrentContinuation(t)'}
      /\ \A t \in Left : t \in ScheduledTurn
      /\ continuationToken \in Nat /\ generation \in Nat
  BY LeftType, ClaimsLeft DEF TypeOK, ScheduleType, HostType, Claims, Left
<1> USE ClaimsLeft DEF TokenInv, TokensBounded, OneClaim, CurrentContinuation
<1>1. CASE continuationToken' = continuationToken
  BY <1>0, <1>1
<1>2. CASE continuationToken' = continuationToken + 1
  <2>1. \A t \in Left : ~t.external /\ t.gen = generation => t.token < continuationToken'
    BY <1>0, <1>2 DEF ScheduledTurn
  <2>2. Claims' = {}
    <3>1. ASSUME NEW t \in Claims' PROVE FALSE
      <4>1. t \in Left /\ t.token = continuationToken' /\ ~t.external /\ t.gen = generation
        BY <1>0, <3>1
      <4> QED BY <4>1, <2>1, <1>0, <1>2
    <3> QED BY <3>1
  <2>3. TokensBounded'
    BY <1>0, <1>2, <2>1 DEF ScheduledTurn
  <2> QED
    BY <1>0, <1>2, <2>2, <2>3
<1> QED
  BY <1>1, <1>2

\* A turn that is added is an external one, or carries a fresh token.
LEMMA TokensAdded ==
    ASSUME TypeOK, TokenInv, generation' = generation, NEW n \in ScheduledTurn,
           Left' = Left \cup {n}, n.gen = generation,
           \/ n.external /\ continuationToken' = continuationToken
           \/ ~n.external /\ n.token = continuationToken + 1
              /\ continuationToken' = continuationToken + 1
    PROVE  TokenInv' /\ (n.external => Claims' = Claims) /\ (~n.external => n \in Claims')
<1>0. /\ Claims' = {t \in Left' : CurrentContinuation(t)'}
      /\ \A t \in Left : t \in ScheduledTurn
      /\ continuationToken \in Nat /\ generation \in Nat
  BY LeftType, ClaimsLeft DEF TypeOK, ScheduleType, HostType, Claims, Left
<1> USE ClaimsLeft DEF TokenInv, TokensBounded, OneClaim, CurrentContinuation
<1>1. CASE n.external
  BY <1>0, <1>1 DEF ScheduledTurn
<1>2. CASE ~n.external
  <2>1. \A t \in Left : ~t.external /\ t.gen = generation => t.token < continuationToken'
    BY <1>0, <1>2 DEF ScheduledTurn
  <2>2. Claims' = {n}
    <3>1. ASSUME NEW t \in Claims' PROVE t = n
      <4>1. t \in Left' /\ t.token = continuationToken' /\ ~t.external /\ t.gen = generation
        BY <1>0, <3>1
      <4> QED BY <4>1, <2>1, <1>0, <1>2
    <3>2. n \in Claims'
      BY <1>0, <1>2
    <3> QED BY <3>1, <3>2
  <2>3. TokensBounded'
    BY <1>0, <1>2, <2>1 DEF ScheduledTurn
  <2> QED
    BY <1>2, <2>2, <2>3
<1> QED
  BY <1>1, <1>2

\* The elements of a queue, of what is appended to it and popped from it.
LEMMA ElementsOf ==
    ASSUME NEW S, NEW q \in Seq(S)
    PROVE  /\ \A x \in S : Elements(Append(q, x)) = Elements(q) \cup {x}
           /\ q # <<>> => /\ Head(q) \in Elements(q)
                          /\ Elements(q) = {Head(q)} \cup Elements(Tail(q))
<1> USE DEF Elements
<1>1. ASSUME NEW x \in S PROVE Elements(Append(q, x)) = Elements(q) \cup {x}
  <2>1. /\ DOMAIN Append(q, x) = 1 .. (Len(q) + 1)
        /\ \A i \in 1 .. Len(q) : Append(q, x)[i] = q[i]
        /\ Append(q, x)[Len(q) + 1] = x
        /\ DOMAIN q = 1 .. Len(q) /\ Len(q) \in Nat
    OBVIOUS
  <2>2. 1 .. (Len(q) + 1) = (1 .. Len(q)) \cup {Len(q) + 1}
    BY <2>1
  <2> QED
    BY <2>1, <2>2
<1>2. ASSUME q # <<>>
      PROVE  Head(q) \in Elements(q) /\ Elements(q) = {Head(q)} \cup Elements(Tail(q))
  <2>1. /\ DOMAIN Tail(q) = 1 .. (Len(q) - 1) /\ Head(q) = q[1] /\ 1 \in DOMAIN q
        /\ \A i \in DOMAIN Tail(q) : Tail(q)[i] = q[i + 1]
        /\ DOMAIN q = 1 .. Len(q) /\ Len(q) \in Nat /\ Len(q) > 0
    BY <1>2
  <2>2. ASSUME NEW i \in DOMAIN q, i # 1
        PROVE  i - 1 \in DOMAIN Tail(q) /\ Tail(q)[i - 1] = q[i]
    BY <2>1, <2>2
  <2>3. ASSUME NEW i \in DOMAIN Tail(q)
        PROVE  i + 1 \in DOMAIN q /\ Tail(q)[i] = q[i + 1]
    BY <2>1, <2>3
  <2>4. Head(q) \in Elements(q)
    BY <2>1
  <2>5. Elements(Tail(q)) \subseteq Elements(q)
    BY <2>1, <2>3
  <2>6. ASSUME NEW x \in Elements(q) PROVE x = Head(q) \/ x \in Elements(Tail(q))
    <3>1. PICK i \in DOMAIN q : x = q[i]
      BY <2>6
    <3> QED
      BY <3>1, <2>1, <2>2
  <2> HIDE DEF Elements
  <2> QED
    BY <2>4, <2>5, <2>6
<1> QED
  BY <1>1, <1>2

\* The continuation that is queued is one that no job has started.
Unstarted == scheduled \cup {j.turn : j \in {k \in jobs : k.phase = "dispatched"}}

ContinueInv == \A d \in Elements(steer) \cup Elements(followUp) : d.continueTurn
QueuedInv   == continuationQueued /\ ~closed => \E t \in Unstarted : CurrentContinuation(t)
WaitInv     == ContinueInv /\ QueuedInv /\ NoEmptyContinuation /\ NoStrandedDelivery

\* After queueContinuationLocked a continuation is queued that no job has started.
LEMMA QueueClaims ==
    ASSUME TypeOK, TokenInv, QueuedInv, QueueContinuationLocked,
           UNCHANGED <<generation, jobs, closed>>
    PROVE  /\ TokenInv' /\ QueuedInv'
           /\ ~closed => Claims' # {}
<1>1. CASE continuationQueued
  <2>1. UNCHANGED <<scheduled, continuationQueued, continuationToken>>
    BY <1>1 DEF QueueContinuationLocked
  <2>2. TokenInv' /\ QueuedInv' /\ Claims' = Claims
    BY <2>1 DEF TokenInv, TokensBounded, OneClaim, Left, Claims, CurrentContinuation,
       QueuedInv, Unstarted
  <2>3. ~closed => Claims # {}
    BY <1>1 DEF QueuedInv, Unstarted, Claims
  <2> QED
    BY <2>2, <2>3
<1>2. CASE ~continuationQueued
  <2> DEFINE n == [stamp |-> stamp, gen |-> generation,
                   token |-> continuationToken + 1, external |-> FALSE, text |-> {}]
  <2>1. n \in ScheduledTurn /\ n.gen = generation /\ ~n.external /\ n.token = continuationToken + 1
    BY DEF TypeOK, HostType, CounterType, ScheduleType, ScheduledTurn
  <2>2. continuationToken' = continuationToken + 1 /\ scheduled' = scheduled \cup {n}
    BY <1>2 DEF QueueContinuationLocked
  <2> HIDE DEF n
  <2>3. Left' = Left \cup {n}
    BY <2>2 DEF Left
  <2>4. TokenInv' /\ n \in Claims'
    BY <2>1, <2>2, <2>3, TokensAdded
  <2>5. QueuedInv'
    BY <2>2, <2>4 DEF QueuedInv, Unstarted, Claims
  <2> QED
    BY <2>4, <2>5
<1> QED
  BY <1>1, <1>2

\* A dispatch hands a turn on and leaves every turn where a claim finds it.
LEMMA DispatchLeft ==
    ASSUME DispatchNext
    PROVE  Left' = Left /\ Unstarted' = Unstarted
<1>1. CASE UNCHANGED <<scheduled, jobQueued, jobs>>
  BY <1>1 DEF Left, Unstarted
<1>2. CASE \E t \in scheduled : /\ scheduled' = scheduled \ {t}
                               /\ jobs' = jobs \cup {[turn |-> t, phase |-> "dispatched"]}
  <2>1. PICK t \in scheduled : /\ scheduled' = scheduled \ {t}
                              /\ jobs' = jobs \cup {[turn |-> t, phase |-> "dispatched"]}
    BY <1>2
  <2> DEFINE j == [turn |-> t, phase |-> "dispatched"]
  <2>2. j.turn = t /\ j.phase = "dispatched" /\ jobs' = jobs \cup {j}
    BY <2>1
  <2> HIDE DEF j
  <2> QED
    BY <2>1, <2>2 DEF Left, Unstarted
<1> QED
  BY <1>1, <1>2 DEF DispatchNext

\* A step that moves no claim and no waiting message keeps the claims paired,
\* unless it makes an active turn idle or admits one.
LEMMA QuietKeepsClaims ==
    ASSUME TokenInv, WaitInv, Left' = Left, Unstarted' = Unstarted,
           UNCHANGED <<generation, closed, cleared, steer, followUp, continuationQueued,
                       continuationToken>>,
           mishaps \subseteq mishaps',
           turn'.phase # "admitted" \/ turn' = turn,
           ~turnActive' => ~turnActive /\ (InTurn("admitted") => InTurn("admitted")')
    PROVE  TokenInv' /\ WaitInv'
<1>1. Claims' = Claims /\ TokenInv'
  BY ClaimsLeft DEF Claims, Left, TokenInv, TokensBounded, OneClaim, CurrentContinuation
<1>2. ContinueInv' /\ QueuedInv'
  BY DEF WaitInv, ContinueInv, QueuedInv, CurrentContinuation
<1>3. NoEmptyContinuation'
  BY <1>1 DEF WaitInv, NoEmptyContinuation, InTurn, Waiting
<1>4. NoStrandedDelivery'
  BY <1>1 DEF WaitInv, NoStrandedDelivery, InTurn, Waiting
<1> QED
  BY <1>1, <1>2, <1>3, <1>4 DEF WaitInv

\* A queue that was appended to is not empty.
LEMMA AppendFull ==
    ASSUME NEW S, NEW q \in Seq(S), NEW x \in S
    PROVE  Append(q, x) # <<>>
<1>1. Len(Append(q, x)) = Len(q) + 1 /\ Len(q) \in Nat /\ Len(<<>>) = 0
  OBVIOUS
<1> QED
  BY <1>1

\* What a send does to the claims: a triggering one queues a continuation.
LEMMA SendClaims ==
    ASSUME TypeOK, TokenInv, WaitInv, NEW d \in Deliveries, Send(d)
    PROVE  TokenInv' /\ WaitInv'
<1>1. PICK signal \in HandlerContexts \cup {0} :
        \/ SendUserIdle(d, signal)      \/ SendNextTurn(d, signal)
        \/ SendIdlePersisted(d, signal) \/ SendIdleTrigger(d, signal)
        \/ SendActiveFollowUp(d, signal) \/ SendActiveSteer(d, signal)
        \/ SendActiveDeferred(d, signal)
  BY DEF Send
<1>2. MayEnqueue(d, signal)
  BY <1>1 DEF SendUserIdle, SendNextTurn, SendIdlePersisted, SendIdleTrigger,
     SendActiveFollowUp, SendActiveSteer, SendActiveDeferred
<1>3. UNCHANGED <<generation, closed, cleared, turnActive, turn, mishaps>>
  BY <1>2 DEF MayEnqueue
<1>4. signal \in Nat
  BY DEF HandlerContexts, TypeOK, TurnType
<1>5. CASE SendNextTurn(d, signal) \/ SendIdlePersisted(d, signal) \/ SendActiveDeferred(d, signal)
  <2>1. UNCHANGED <<steer, followUp, scheduled, continuationQueued, continuationToken, jobs>>
    BY <1>5 DEF SendNextTurn, SendIdlePersisted, SendActiveDeferred
  <2>2. Left' = Left /\ Unstarted' = Unstarted
    BY <2>1 DEF Left, Unstarted
  <2> QED
    BY <1>3, <2>1, <2>2, QuietKeepsClaims DEF InTurn
<1>6. CASE SendUserIdle(d, signal)
  <2> DEFINE n == [stamp |-> stamp, gen |-> generation, token |-> 0, external |-> TRUE,
                   text |-> {d}]
  <2>1. n \in ScheduledTurn /\ n.external /\ n.gen = generation
    BY DEF ScheduledTurn, TypeOK, HostType, CounterType
  <2>2. /\ scheduled' = scheduled \cup {n}
        /\ UNCHANGED <<steer, followUp, continuationQueued, continuationToken, jobs>>
    BY <1>6 DEF SendUserIdle
  <2> HIDE DEF n
  <2>3. Left' = Left \cup {n} /\ Unstarted \subseteq Unstarted'
    BY <2>2 DEF Left, Unstarted
  <2>4. TokenInv' /\ Claims' = Claims
    BY <1>3, <2>1, <2>2, <2>3, TokensAdded
  <2>5. ContinueInv' /\ QueuedInv'
    BY <1>3, <2>2, <2>3 DEF WaitInv, ContinueInv, QueuedInv, CurrentContinuation
  <2>6. NoEmptyContinuation' /\ NoStrandedDelivery'
    BY <1>3, <2>2, <2>4 DEF WaitInv, NoEmptyContinuation, NoStrandedDelivery, InTurn, Waiting
  <2> QED
    BY <2>4, <2>5, <2>6 DEF WaitInv
<1>7. CASE SendIdleTrigger(d, signal)
  <2> DEFINE x == NewDelivery(d, "steer", TRUE, signal)
  <2>1. x \in Delivery
    BY <1>4, DeliveryType DEF TypeOK, Queues
  <2>2. x.continueTurn
    BY DEF NewDelivery
  <2>3. /\ steer' = Append(steer, x) /\ QueueContinuationLocked
        /\ UNCHANGED <<followUp, jobs>>
    BY <1>7 DEF SendIdleTrigger
  <2> HIDE DEF x
  <2>4. steer' # <<>>
    BY <2>1, <2>3, AppendFull DEF TypeOK, QueueType
  <2>5. ContinueInv'
    BY <2>1, <2>2, <2>3, ElementsOf DEF TypeOK, QueueType, WaitInv, ContinueInv
  <2>6. TokenInv' /\ QueuedInv' /\ (~closed => Claims' # {})
    BY <1>3, <2>3, QueueClaims DEF WaitInv
  <2> QED
    BY <1>3, <2>4, <2>5, <2>6 DEF WaitInv, NoEmptyContinuation, NoStrandedDelivery, Waiting
<1>8. CASE SendActiveFollowUp(d, signal)
  <2> DEFINE x == NewDelivery(d, "followUp", TRUE, signal)
  <2>1. x \in Delivery
    BY <1>4, DeliveryType DEF TypeOK, Queues
  <2>2. x.continueTurn
    BY DEF NewDelivery
  <2>3. /\ followUp' = Append(followUp, x) /\ turnActive
        /\ UNCHANGED <<steer, scheduled, continuationQueued, continuationToken, jobs>>
    BY <1>8 DEF SendActiveFollowUp
  <2> HIDE DEF x
  <2>4. Waiting'
    BY <2>1, <2>3, AppendFull DEF TypeOK, QueueType, Waiting
  <2>5. ContinueInv'
    BY <2>1, <2>2, <2>3, ElementsOf DEF TypeOK, QueueType, WaitInv, ContinueInv
  <2>6. TokenInv' /\ QueuedInv'
    BY <1>3, <2>3 DEF WaitInv, QueuedInv, Unstarted, TokenInv, TokensBounded, OneClaim, Claims,
       Left, CurrentContinuation
  <2> QED
    BY <1>3, <2>3, <2>4, <2>5, <2>6 DEF WaitInv, NoEmptyContinuation, NoStrandedDelivery
<1>9. CASE SendActiveSteer(d, signal)
  <2> DEFINE x == NewDelivery(d, "steer", TRUE, signal)
  <2>1. x \in Delivery
    BY <1>4, DeliveryType DEF TypeOK, Queues
  <2>2. x.continueTurn
    BY DEF NewDelivery
  <2>3. /\ steer' = Append(steer, x) /\ turnActive
        /\ UNCHANGED <<followUp, scheduled, continuationQueued, continuationToken, jobs>>
    BY <1>9 DEF SendActiveSteer
  <2> HIDE DEF x
  <2>4. Waiting'
    BY <2>1, <2>3, AppendFull DEF TypeOK, QueueType, Waiting
  <2>5. ContinueInv'
    BY <2>1, <2>2, <2>3, ElementsOf DEF TypeOK, QueueType, WaitInv, ContinueInv
  <2>6. TokenInv' /\ QueuedInv'
    BY <1>3, <2>3 DEF WaitInv, QueuedInv, Unstarted, TokenInv, TokensBounded, OneClaim, Claims,
       Left, CurrentContinuation
  <2> QED
    BY <1>3, <2>3, <2>4, <2>5, <2>6 DEF WaitInv, NoEmptyContinuation, NoStrandedDelivery
<1> QED
  BY <1>1, <1>5, <1>6, <1>7, <1>8, <1>9

\* What a dispatched job does to the claims: its turn is one of them until it is
\* admitted, dropped because it is none any more, or refused.
LEMMA JobClaims ==
    ASSUME TypeOK, TokenInv, WaitInv, NEW j \in jobs,
           JobStarts(j) \/ JobSkipped(j) \/ JobRefused(j) \/ JobAdmitted(j)
    PROVE  TokenInv' /\ WaitInv'
<1> USE DEF WaitInv
<1>0. UNCHANGED <<generation, closed, cleared, turnActive, steer, followUp, scheduled,
                  continuationToken>>
  BY DEF JobStarts, JobSkipped, JobRefused, JobAdmitted, Admit
<1>1. ContinueInv'
  BY <1>0 DEF ContinueInv
<1>2. ASSUME jobs' = jobs \ {j} PROVE TokenInv' /\ Claims' \subseteq Claims
  <2>1. Left' \subseteq Left
    BY <1>0, <1>2 DEF Left
  <2> QED
    BY <1>0, <2>1, TokensKept
<1>3. ASSUME jobs' = jobs \ {j}, ~CurrentContinuation(j.turn), ~closed
      PROVE  Claims' = Claims
  BY <1>0, <1>3 DEF Claims, CurrentContinuation
<1>4. ASSUME jobs' = jobs \ {j}, j.phase = "ready" \/ ~CurrentContinuation(j.turn),
             continuationQueued' => continuationQueued
      PROVE  QueuedInv'
  <2>1. ASSUME NEW t \in Unstarted, CurrentContinuation(t) PROVE t \in Unstarted'
    BY <1>0, <1>4, <2>1 DEF Unstarted
  <2> QED
    BY <1>0, <1>4, <2>1 DEF QueuedInv, CurrentContinuation
<1>5. CASE JobStarts(j)
  <2> DEFINE r == [j EXCEPT !.phase = "ready"]
  <2>1. /\ r.turn = j.turn /\ r.phase = "ready" /\ j.phase = "dispatched"
        /\ jobs' = (jobs \ {j}) \cup {r}
        /\ continuationQueued' = (continuationQueued /\ j.turn.external)
        /\ UNCHANGED <<turn, mishaps>>
    BY <1>5 DEF JobStarts, TypeOK, ScheduleType, Job
  <2> HIDE DEF r
  <2>2. Left' = Left
    BY <1>0, <2>1 DEF Left
  <2>3. TokenInv' /\ Claims' = Claims
    BY <1>0, <2>2, ClaimsLeft DEF TokenInv, TokensBounded, OneClaim, CurrentContinuation,
       Claims, Left
  <2>4. QueuedInv'
    <3>1. CASE continuationQueued' /\ ~closed'
      <4>1. PICK t \in Unstarted : CurrentContinuation(t)
        BY <1>0, <2>1, <3>1 DEF QueuedInv
      <4>2. j.turn.external
        BY <2>1, <3>1
      <4>3. t # j.turn
        BY <4>1, <4>2 DEF CurrentContinuation
      <4>4. t \in Unstarted'
        BY <1>0, <2>1, <4>1, <4>3 DEF Unstarted
      <4> QED
        BY <1>0, <4>1, <4>4 DEF QueuedInv, CurrentContinuation
    <3> QED
      BY <3>1 DEF QueuedInv
  <2>5. NoEmptyContinuation' /\ NoStrandedDelivery'
    BY <1>0, <2>1, <2>3 DEF NoEmptyContinuation, NoStrandedDelivery, InTurn, Waiting
  <2> QED
    BY <1>1, <2>3, <2>4, <2>5
<1>6. CASE JobSkipped(j)
  <2>1. /\ jobs' = jobs \ {j} /\ ~ScheduledTurnCurrent(j.turn)
        /\ UNCHANGED <<turn, mishaps, continuationQueued>>
    BY <1>6 DEF JobSkipped
  <2>2. ~closed => ~CurrentContinuation(j.turn)
    BY <2>1 DEF ScheduledTurnCurrent, CurrentContinuation
  <2>3. QueuedInv'
    BY <1>0, <1>4, <2>1, <2>2 DEF QueuedInv
  <2>4. NoEmptyContinuation'
    BY <1>0, <1>2, <2>1 DEF NoEmptyContinuation, InTurn, Waiting
  <2>5. NoStrandedDelivery'
    BY <1>0, <1>3, <2>1, <2>2 DEF NoStrandedDelivery, InTurn, Waiting
  <2> QED
    BY <1>1, <1>2, <2>1, <2>3, <2>4, <2>5
<1>7. CASE JobRefused(j)
  <2>1. /\ jobs' = jobs \ {j} /\ j.phase = "ready" /\ ScheduledTurnCurrent(j.turn)
        /\ mishaps' = IF j.turn.external THEN mishaps ELSE mishaps \cup {"reload"}
        /\ UNCHANGED <<turn, continuationQueued>>
    BY <1>7 DEF JobRefused
  <2>2. QueuedInv'
    BY <1>4, <2>1
  <2>3. NoEmptyContinuation'
    BY <1>0, <1>2, <2>1 DEF NoEmptyContinuation, InTurn, Waiting
  <2>4. NoStrandedDelivery'
    BY <1>0, <1>3, <2>1 DEF NoStrandedDelivery, InTurn, Waiting, CurrentContinuation
  <2> QED
    BY <1>1, <1>2, <2>1, <2>2, <2>3, <2>4
<1>8. CASE JobAdmitted(j)
  <2>1. /\ jobs' = jobs \ {j} /\ j.phase = "ready" /\ ScheduledTurnCurrent(j.turn)
        /\ turn'.phase = "admitted"
        /\ turn'.kind = IF j.turn.external THEN "external" ELSE "continuation"
        /\ UNCHANGED <<continuationQueued, mishaps>>
    BY <1>8 DEF JobAdmitted, Admit
  <2>2. QueuedInv'
    BY <1>4, <2>1
  <2>3. NoEmptyContinuation'
    <3>1. ~j.turn.external => j.turn \in Claims
      BY <2>1 DEF Claims, CurrentContinuation, ScheduledTurnCurrent
    <3>2. turn'.kind = "continuation" => Claims # {}
      BY <2>1, <3>1
    <3> QED
      BY <1>0, <1>2, <2>1, <3>2 DEF NoEmptyContinuation, InTurn, Waiting
  <2>4. NoStrandedDelivery'
    BY <2>1 DEF NoStrandedDelivery, InTurn
  <2> QED
    BY <1>1, <1>2, <2>1, <2>2, <2>3, <2>4
<1> QED
  BY <1>5, <1>6, <1>7, <1>8

\* A boundary that takes a message that continues the turn ends every claim.
LEMMA PopClaims ==
    ASSUME TypeOK, ActiveInv, TokenInv, WaitInv, Boundary
    PROVE  TokenInv' /\ WaitInv'
<1> USE DEF WaitInv
<1>a. turn.phase \in {"poll", "stop", "persist"} /\ turn'.phase # "admitted"
  BY DEF Boundary, PollCanceled, PollNextTurn, PollSkipped, PollSteer, PollNothing, PollsSteer,
     AtPoll, StopCanceled, StopSteer, StopFollowUp, StopDeferred, StopNothing, StopPops, AtStop,
     PersistDelivery, PersistDeliveryFails, AtPersist, InTurn, AfterBoundary, GoTo, TypeOK,
     TurnType, Turn
<1>b. UNCHANGED <<generation, closed, cleared, turnActive, scheduled, jobs, mishaps>>
  BY DEF Boundary, PollCanceled, PollNextTurn, PollSkipped, PollSteer, PollNothing, PollsSteer,
     AtPoll, StopCanceled, StopSteer, StopFollowUp, StopDeferred, StopNothing, StopPops, AtStop,
     PersistDelivery, PersistDeliveryFails, AtPersist
<1>c. turnActive
  BY <1>a DEF ActiveInv, ActivePhases
<1>d. Left' = Left /\ Unstarted' = Unstarted
  BY <1>b DEF Left, Unstarted
<1>1. ASSUME UNCHANGED <<steer, followUp, continuationQueued, continuationToken>>
      PROVE  TokenInv' /\ WaitInv'
  BY <1>1, <1>a, <1>b, <1>c, <1>d, QuietKeepsClaims
<1>2. ASSUME continuationQueued' = FALSE, continuationToken' = continuationToken + 1, ContinueInv'
      PROVE  TokenInv' /\ WaitInv'
  <2>1. TokenInv' /\ Claims' = {}
    <3>1. continuationToken' # continuationToken
      BY <1>2 DEF TypeOK, ScheduleType
    <3> QED
      BY <1>2, <1>b, <1>d, <3>1, TokensKept
  <2>2. QueuedInv'
    BY <1>2 DEF QueuedInv
  <2>3. NoEmptyContinuation' /\ NoStrandedDelivery'
    BY <1>a, <1>b, <1>c, <2>1 DEF NoEmptyContinuation, NoStrandedDelivery, InTurn
  <2> QED
    BY <1>2, <2>1, <2>2, <2>3
<1>3. CASE PollSteer
  <2>1. Head(steer).continueTurn /\ ContinueInv'
    BY <1>3, ElementsOf DEF PollSteer, PollsSteer, ContinueInv, TypeOK, QueueType
  <2> QED
    BY <1>2, <1>3, <2>1 DEF PollSteer
<1>4. CASE StopSteer
  <2>1. Head(steer).continueTurn /\ ContinueInv'
    BY <1>4, ElementsOf DEF StopSteer, StopPops, ContinueInv, TypeOK, QueueType
  <2> QED
    BY <1>2, <1>4, <2>1 DEF StopSteer, StopPops
<1>5. CASE StopFollowUp
  <2>1. Head(followUp).continueTurn /\ ContinueInv'
    BY <1>5, ElementsOf DEF StopFollowUp, StopPops, ContinueInv, TypeOK, QueueType
  <2> QED
    BY <1>2, <1>5, <2>1 DEF StopFollowUp, StopPops
<1>6. CASE StopDeferred
  <2>1. ContinueInv'
    BY <1>6 DEF StopDeferred, ContinueInv
  <2>2. \/ UNCHANGED <<continuationQueued, continuationToken>>
        \/ continuationQueued' = FALSE /\ continuationToken' = continuationToken + 1
    BY <1>6 DEF StopDeferred, StopPops
  <2> QED
    BY <1>1, <1>2, <1>6, <2>1, <2>2 DEF StopDeferred
<1>7. CASE \/ PollCanceled \/ PollNextTurn \/ PollSkipped \/ PollNothing
           \/ StopCanceled \/ StopNothing \/ PersistDelivery \/ PersistDeliveryFails
  BY <1>7, <1>1 DEF PollCanceled, PollNextTurn, PollSkipped, PollNothing, PollsSteer,
     StopCanceled, StopNothing, PersistDelivery, PersistDeliveryFails, AtPersist
<1> QED
  BY <1>3, <1>4, <1>5, <1>6, <1>7 DEF Boundary

\* The end of a turn, a rebind and a shutdown drop the claims with the messages,
\* or queue a continuation for what is left.
LEMMA EndClaims ==
    ASSUME TypeOK, TokenInv, WaitInv,
           EndCanceled \/ EndNormal \/ BindSession \/ ShutdownCloses \/ ShutdownClears
    PROVE  TokenInv' /\ WaitInv'
<1> USE DEF WaitInv
<1>0. continuationToken \in Nat /\ generation \in Nat
  BY DEF TypeOK, ScheduleType, HostType
<1>1. CASE EndCanceled
  <2>1. /\ steer' = <<>> /\ followUp' = <<>> /\ continuationQueued' = FALSE
        /\ continuationToken' = continuationToken + 1 /\ scheduled' \subseteq scheduled
        /\ turn'.phase = "finish"
        /\ UNCHANGED <<generation, closed, cleared, jobs, mishaps>>
    BY <1>1 DEF EndCanceled, AtEnd, InvalidateContinuationLocked, GoTo, TypeOK, TurnType, Turn
  <2>2. Left' \subseteq Left
    BY <2>1 DEF Left
  <2>3. TokenInv' /\ Claims' = {}
    <3>1. continuationToken' # continuationToken
      BY <1>0, <2>1
    <3> QED
      BY <2>1, <2>2, <3>1, TokensKept
  <2>4. ContinueInv' /\ QueuedInv'
    BY <2>1 DEF ContinueInv, QueuedInv, Elements
  <2>5. NoEmptyContinuation' /\ NoStrandedDelivery'
    BY <2>1, <2>3 DEF NoEmptyContinuation, NoStrandedDelivery, InTurn, Waiting
  <2> QED
    BY <2>3, <2>4, <2>5
<1>2. CASE EndNormal
  <2>1. /\ UNCHANGED <<steer, followUp, generation, closed, cleared, jobs, mishaps>>
        /\ turn'.phase = "drain"
    BY <1>2 DEF EndNormal, AtEnd, GoTo, TypeOK, TurnType, Turn
  <2>2. ContinueInv'
    BY <2>1 DEF ContinueInv
  <2>3. CASE Waiting
    <3>1. QueueContinuationLocked
      BY <1>2, <2>3 DEF EndNormal, Waiting
    <3>2. TokenInv' /\ QueuedInv' /\ (~closed => Claims' # {})
      BY <2>1, <3>1, QueueClaims
    <3> QED
      BY <2>1, <2>2, <2>3, <3>2 DEF NoEmptyContinuation, NoStrandedDelivery, Waiting
  <2>4. CASE ~Waiting
    <3>1. UNCHANGED <<scheduled, continuationQueued, continuationToken>>
      BY <1>2, <2>4 DEF EndNormal, Waiting
    <3>2. TokenInv' /\ QueuedInv' /\ Claims' = Claims
      BY <2>1, <3>1 DEF TokenInv, TokensBounded, OneClaim, Left, Claims, CurrentContinuation,
         QueuedInv, Unstarted
    <3>3. NoEmptyContinuation' /\ NoStrandedDelivery'
      BY <2>1, <2>4, <3>2 DEF NoEmptyContinuation, NoStrandedDelivery, Waiting, InTurn
    <3> QED
      BY <2>2, <3>2, <3>3
  <2> QED
    BY <2>3, <2>4
<1>3. CASE BindSession
  <2>1. /\ steer' = <<>> /\ followUp' = <<>> /\ scheduled' = {} /\ continuationQueued' = FALSE
        /\ generation' = generation + 1 /\ turn'.phase # "admitted"
        /\ UNCHANGED <<jobs, turn>>
    BY <1>3 DEF BindSession, InTurn, WorkerFree
  <2>2. Left' \subseteq Left
    BY <2>1 DEF Left
  <2>3. \A t \in Left : t.gen < generation'
    <3>1. \A t \in Left : t.gen \in Nat /\ t.gen <= generation
      BY LeftType DEF TokenInv, TokensBounded, ScheduledTurn
    <3> QED
      BY <1>0, <2>1, <3>1
  <2>4. Claims' = {} /\ TokensBounded'
    <3>1. \A t \in Left' : t.gen < generation' /\ t.gen \in Nat /\ generation' \in Nat
      BY <1>0, <2>1, <2>2, <2>3, LeftType DEF ScheduledTurn
    <3>2. \A t \in Left' : t.gen # generation' /\ t.gen <= generation'
      BY <3>1
    <3>3. Claims' = {t \in Left' : CurrentContinuation(t)'}
      BY DEF Claims, Left
    <3> QED
      BY <3>2, <3>3 DEF TokensBounded, CurrentContinuation
  <2>5. TokenInv'
    BY <2>4 DEF TokenInv, OneClaim
  <2>6. ContinueInv' /\ QueuedInv'
    BY <2>1 DEF ContinueInv, QueuedInv, Elements
  <2>7. NoEmptyContinuation' /\ NoStrandedDelivery'
    BY <2>1, <2>4 DEF NoEmptyContinuation, NoStrandedDelivery, InTurn, Waiting
  <2> QED
    BY <2>5, <2>6, <2>7
<1>4. CASE ShutdownCloses
  <2>1. /\ closed' = TRUE
        /\ UNCHANGED <<generation, cleared, steer, followUp, scheduled, jobs, turn,
                       continuationToken>>
    BY <1>4 DEF ShutdownCloses
  <2>2. TokenInv' /\ Claims' = Claims
    BY <2>1 DEF TokenInv, TokensBounded, OneClaim, Left, Claims, CurrentContinuation
  <2> QED
    BY <2>1, <2>2 DEF ContinueInv, QueuedInv, NoEmptyContinuation, NoStrandedDelivery, InTurn,
       Waiting
<1>5. CASE ShutdownClears
  <2>1. /\ closed' /\ cleared' = TRUE /\ steer' = <<>> /\ followUp' = <<>> /\ scheduled' = {}
        /\ UNCHANGED <<generation, jobs, continuationToken>>
    BY <1>5 DEF ShutdownClears
  <2>2. Left' \subseteq Left
    BY <2>1 DEF Left
  <2>3. TokenInv'
    BY <2>1, <2>2, TokensKept
  <2> QED
    BY <2>1, <2>3 DEF ContinueInv, QueuedInv, NoEmptyContinuation, NoStrandedDelivery, Elements
<1> QED
  BY <1>1, <1>2, <1>3, <1>4, <1>5

\* Every step keeps the claims and the waiting messages paired.
LEMMA ClaimsStep ==
    TypeOK /\ DrainInv /\ TokenInv /\ WaitInv /\ [Next]_vars => TokenInv' /\ WaitInv'
<1> SUFFICES ASSUME TypeOK, DrainInv, TokenInv, WaitInv, [Next]_vars
             PROVE  TokenInv' /\ WaitInv'
  OBVIOUS
<1>a. ActiveInv
  BY DEF DrainInv
<1>b. ASSUME UNCHANGED <<generation, closed, cleared, steer, followUp, continuationQueued,
                         continuationToken, scheduled, jobs>>,
             mishaps \subseteq mishaps',
             turn'.phase # "admitted" \/ turn' = turn,
             ~turnActive' => ~turnActive /\ (InTurn("admitted") => InTurn("admitted")')
      PROVE  TokenInv' /\ WaitInv'
  BY <1>b, QuietKeepsClaims DEF Left, Unstarted
<1>c. ASSUME NEW phase, GoTo(phase) PROVE turn'.phase = phase
  BY <1>c DEF GoTo, TypeOK, TurnType, Turn
<1>1. CASE \E d \in Deliveries : Send(d)
  BY <1>1, SendClaims
<1>2. CASE \E kind \in {"external", "agent"} : PromptAdmitted(kind)
  <2>1. PICK kind \in {"external", "agent"} : PromptAdmitted(kind)
    BY <1>2
  <2>2. /\ UNCHANGED <<generation, closed, cleared, steer, followUp, continuationQueued,
                       continuationToken, scheduled, jobs, mishaps>>
        /\ turn'.phase = "admitted" /\ turn'.kind # "continuation"
    BY <2>1 DEF PromptAdmitted, Admit
  <2>3. TokenInv' /\ QueuedInv' /\ ContinueInv' /\ Claims' = Claims
    BY <2>2 DEF TokenInv, TokensBounded, OneClaim, Left, Claims, CurrentContinuation,
       WaitInv, QueuedInv, Unstarted, ContinueInv
  <2>4. NoEmptyContinuation' /\ NoStrandedDelivery'
    BY <2>2, <2>3 DEF WaitInv, NoEmptyContinuation, NoStrandedDelivery, Waiting, InTurn
  <2> QED
    BY <2>3, <2>4 DEF WaitInv
<1>3. CASE JobStep \/ \E j \in jobs : JobRefused(j)
  BY <1>3, JobClaims DEF JobStep
<1>4. CASE BeginTurn \/ BeginTurnFails
  <2>1. turn'.phase # "admitted"
    BY <1>4, <1>c DEF BeginTurn, BeginTurnFails
  <2>2. turnActive' = TRUE /\ UNCHANGED mishaps
    BY <1>4 DEF BeginTurn, BeginTurnFails, Fault
  <2> QED
    BY <1>4, <1>b, <2>1, <2>2 DEF BeginTurn, BeginTurnFails
<1>5. CASE Request \/ AgentReturns
  <2>1. turn.phase \in {"request", "agent"} /\ turn'.phase # "admitted"
    BY <1>5, <1>c DEF Request, RequestContinues, RequestStops, RequestReturns, AtRequest,
       AgentReturns, InTurn
  <2>2. UNCHANGED <<turnActive, mishaps, generation, closed, cleared, steer, followUp,
                    continuationQueued, continuationToken, scheduled, jobs>>
    BY <1>5 DEF Request, RequestContinues, RequestStops, RequestReturns, AtRequest,
       AgentReturns, Fault
  <2> QED
    BY <1>b, <2>1, <2>2 DEF InTurn
<1>6. CASE Interrupt \/ AgentCanceledByRebind \/ Release
  BY <1>6, <1>b DEF Interrupt, AgentCanceledByRebind, Release, ContextReleased, Fault, InTurn
<1>7. CASE Boundary
  BY <1>7, <1>a, PopClaims
<1>8. CASE EndCanceled \/ EndNormal \/ BindSession \/ ShutdownCloses \/ ShutdownClears
  BY <1>8, EndClaims
<1>9. CASE DrainPops \/ DrainPersists
  <2>1. turn.phase \in {"drain", "drainPersist"} /\ turn'.phase # "admitted"
    BY <1>9, <1>c DEF DrainPops, DrainPersists, AtPersist, InTurn
  <2>2. /\ UNCHANGED <<turnActive, generation, closed, cleared, steer, followUp,
                       continuationQueued, continuationToken, scheduled, jobs>>
        /\ mishaps \subseteq mishaps'
    BY <1>9 DEF DrainPops, DrainPersists, AtPersist
  <2> QED
    BY <1>b, <2>1, <2>2 DEF InTurn
<1>10. CASE ScheduleMailbox \/ TurnFinishes
  <2>1. Left' = Left /\ Unstarted' = Unstarted
    BY <1>10, DispatchLeft DEF ScheduleMailbox, TurnFinishes
  <2>2. UNCHANGED <<turnActive, generation, closed, cleared, steer, followUp,
                    continuationQueued, continuationToken, mishaps>>
    BY <1>10 DEF ScheduleMailbox, TurnFinishes
  <2>3. turn' = turn \/ (turn.phase = "finish" /\ turn'.phase = "none")
    BY <1>10 DEF ScheduleMailbox, TurnFinishes, InTurn, NoTurn
  <2> QED
    BY <2>1, <2>2, <2>3, QuietKeepsClaims DEF InTurn
<1>11. CASE UNCHANGED vars
  BY <1>11, <1>b DEF vars, InTurn
<1> QED
  BY <1>1, <1>2, <1>3, <1>4, <1>5, <1>6, <1>7, <1>8, <1>9, <1>10, <1>11
     DEF Next, Environment, TurnStep, TurnEnds

\* A set whose elements are all equal has at most one of them.
LEMMA AtMostOne ==
    ASSUME NEW S, \A x, y \in S : x = y
    PROVE  Cardinality(S) <= 1
<1>1. CASE S = {}
  BY <1>1, FS_EmptySet
<1>2. CASE S # {}
  <2>1. PICK x : S = {x}
    BY <1>2
  <2> QED
    BY <2>1, FS_Singleton
<1> QED
  BY <1>1, <1>2

ClaimInv == DrainInv /\ TokenInv /\ WaitInv

\* The strengthened invariant about continuations holds in every reachable state.
LEMMA ClaimsCorrect == Spec => []ClaimInv
<1>1. Init => ClaimInv
  <2> SUFFICES ASSUME Init PROVE ClaimInv
    OBVIOUS
  <2> USE DEF Init, NewHost, NoTurn
  <2>1. DrainInv
    BY DEF DrainInv, ActiveInv, LeftoverInv, ActivePhases
  <2>2. Left = {} /\ Claims = {}
    BY DEF Left, Claims
  <2>3. TokenInv
    BY <2>2 DEF TokenInv, TokensBounded, OneClaim
  <2>4. WaitInv
    BY <2>2 DEF WaitInv, ContinueInv, QueuedInv, NoEmptyContinuation, NoStrandedDelivery,
       Waiting, InTurn, Elements
  <2> QED
    BY <2>1, <2>3, <2>4 DEF ClaimInv
<1>2. TypeOK /\ ClaimInv /\ [Next]_vars => ClaimInv'
  BY DrainStep, ClaimsStep DEF ClaimInv
<1> QED
  BY <1>1, <1>2, TypeCorrect, PTL DEF Spec

\* However messages, stale jobs, interrupts and rebinds interleave, at most one
\* continuation is current, and it has a message to deliver: the model is not
\* asked twice, and never for nothing.
THEOREM ContinuationsPairedCorrect == Spec => []ContinuationsPaired
<1>1. ClaimInv => ContinuationsPaired
  BY AtMostOne DEF ClaimInv, TokenInv, OneClaim, WaitInv, ContinuationsPaired, OneContinuation
<1> QED
  BY <1>1, ClaimsCorrect, PTL

\* A triggering message that waits while no turn runs owns a continuation that is
\* still current, or a turn was just admitted that will find it: none is stranded
\* by a turn that ends, by a stale job or by a token renewed for another message.
THEOREM NoStrandedDeliveryCorrect == Spec => []NoStrandedDelivery
<1>1. ClaimInv => NoStrandedDelivery
  BY DEF ClaimInv, WaitInv
<1> QED
  BY <1>1, ClaimsCorrect, PTL

-----------------------------------------------------------------------------
\* Queues whose elements have different ids.

Apart(q) == \A i, j \in DOMAIN q : q[i].id = q[j].id => i = j

\* The ids in a queue, in what is appended to it and popped from it.
LEMMA IdsOf ==
    ASSUME NEW S, NEW q \in Seq(S)
    PROVE  /\ \A x \in S : Ids(Append(q, x)) = Ids(q) \cup {x.id}
           /\ q # <<>> => Ids(q) = {Head(q).id} \cup Ids(Tail(q))
           /\ \A x \in S : Ids(<<x>>) = {x.id}
           /\ Ids(<<>>) = {}
<1>1. ASSUME NEW x \in S PROVE Ids(Append(q, x)) = Ids(q) \cup {x.id}
  BY <1>1, ElementsOf DEF Ids
<1>2. ASSUME q # <<>> PROVE Ids(q) = {Head(q).id} \cup Ids(Tail(q))
  BY <1>2, ElementsOf DEF Ids
<1>3. ASSUME NEW x \in S PROVE Ids(<<x>>) = {x.id}
  BY <1>3 DEF Ids, Elements
<1>4. Ids(<<>>) = {}
  BY DEF Ids, Elements
<1> QED
  BY <1>1, <1>2, <1>3, <1>4

\* Pushing a new id and popping keep the ids of a queue apart.
LEMMA ApartOf ==
    ASSUME NEW S, NEW q \in Seq(S), Apart(q)
    PROVE  /\ \A x \in S : x.id \notin Ids(q) => Apart(Append(q, x))
           /\ q # <<>> => Head(q).id \notin Ids(Tail(q)) /\ Apart(Tail(q))
<1> USE DEF Apart
<1>1. ASSUME NEW x \in S, x.id \notin Ids(q) PROVE Apart(Append(q, x))
  <2>1. /\ DOMAIN Append(q, x) = 1 .. (Len(q) + 1)
        /\ \A i \in 1 .. Len(q) : Append(q, x)[i] = q[i]
        /\ Append(q, x)[Len(q) + 1] = x
        /\ DOMAIN q = 1 .. Len(q) /\ Len(q) \in Nat
    OBVIOUS
  <2>2. \A i \in 1 .. Len(q) : q[i].id # x.id
    BY <1>1, <2>1 DEF Ids, Elements
  <2> QED
    BY <2>1, <2>2
<1>2. ASSUME q # <<>> PROVE Head(q).id \notin Ids(Tail(q)) /\ Apart(Tail(q))
  <2>1. /\ DOMAIN Tail(q) = 1 .. (Len(q) - 1) /\ Head(q) = q[1] /\ 1 \in DOMAIN q
        /\ \A i \in DOMAIN Tail(q) : Tail(q)[i] = q[i + 1] /\ i + 1 \in DOMAIN q /\ i \in Nat
        /\ DOMAIN q = 1 .. Len(q) /\ Len(q) \in Nat /\ Len(q) > 0
    BY <1>2
  <2>2. Apart(Tail(q))
    <3> SUFFICES ASSUME NEW i \in DOMAIN Tail(q), NEW j \in DOMAIN Tail(q),
                        Tail(q)[i].id = Tail(q)[j].id
                 PROVE  i = j
      OBVIOUS
    <3>1. i + 1 = j + 1
      BY <2>1
    <3> QED
      BY <2>1, <3>1
  <2>3. ASSUME Head(q).id \in Ids(Tail(q)) PROVE FALSE
    <3>1. PICK i \in DOMAIN Tail(q) : Tail(q)[i].id = Head(q).id
      BY <2>3 DEF Ids, Elements
    <3>2. i + 1 = 1
      BY <2>1, <3>1
    <3> QED
      BY <2>1, <3>1, <3>2
  <2> QED
    BY <2>2, <2>3
<1> QED
  BY <1>1, <1>2

-----------------------------------------------------------------------------
\* Where the accepted messages wait.

Spots == {"steer", "followUp", "deferred", "nextTurn", "hand", "scheduled", "job", "turn"}

JobTexts == Texts({j.turn : j \in jobs})
TurnText == IF InTurn("admitted") THEN turn.text ELSE {}

\* w tells where every message waits, or that it does not.
Waits(w) ==
    /\ w \in [Deliveries -> Spots \cup {"nowhere"}]
    /\ \A d \in Deliveries :
         /\ d \in Ids(steer)        <=> w[d] = "steer"
         /\ d \in Ids(followUp)     <=> w[d] = "followUp"
         /\ d \in Ids(deferred)     <=> w[d] = "deferred"
         /\ d \in Ids(nextTurn)     <=> w[d] = "nextTurn"
         /\ d \in Ids(hand)         <=> w[d] = "hand"
         /\ d \in Texts(scheduled)  <=> w[d] = "scheduled"
         /\ d \in JobTexts          <=> w[d] = "job"
         /\ d \in TurnText          <=> w[d] = "turn"
         /\ fate[d] = "queued"      <=> w[d] # "nowhere"

QueuesApart == Apart(steer) /\ Apart(followUp) /\ Apart(deferred) /\ Apart(nextTurn)

HandInv == Len(hand) <= 1 /\ (hand # <<>> => turn.phase \in {"persist", "drainPersist"})

\* A turn that was scheduled for a message has that one, a continuation has none.
Single(text) == \A d, e \in text : d = e
TextInv ==
    /\ \A t \in Left : Single(t.text) /\ (~t.external => t.text = {})
    /\ Single(turn.text)

\* No message is in two scheduled turns, or in two jobs.
TurnsApart ==
    /\ \A t, u \in scheduled : t.text \cap u.text # {} => t = u
    /\ \A j, k \in jobs : j.turn.text \cap k.turn.text # {} => j = k

LogInv == Apart(log) /\ \A d \in Deliveries : fate[d] = "persisted" <=> d \in Ids(log)

SpotInv == (\E w : Waits(w)) /\ QueuesApart /\ TurnsApart
PlaceInv == SpotInv /\ HandInv /\ TextInv /\ LogInv

\* Whatever waits is a message that was sent.
LEMMA SpotTypes ==
    ASSUME TypeOK
    PROVE  /\ Ids(steer) \subseteq Deliveries /\ Ids(followUp) \subseteq Deliveries
           /\ Ids(deferred) \subseteq Deliveries /\ Ids(nextTurn) \subseteq Deliveries
           /\ Ids(hand) \subseteq Deliveries /\ Texts(scheduled) \subseteq Deliveries
           /\ JobTexts \subseteq Deliveries /\ TurnText \subseteq Deliveries
           /\ Ids(log) \subseteq Deliveries
<1>1. ASSUME NEW q \in Seq(Delivery) PROVE Ids(q) \subseteq Deliveries
  <2>1. \A i \in DOMAIN q : q[i] \in Delivery
    OBVIOUS
  <2> QED
    BY <2>1 DEF Ids, Elements, Delivery
<1>2. Ids(log) \subseteq Deliveries
  <2>1. \A i \in DOMAIN log : log[i] \in Entry
    BY DEF TypeOK, HistoryType
  <2> QED
    BY <2>1 DEF Ids, Elements, Entry
<1>3. Texts(scheduled) \subseteq Deliveries /\ JobTexts \subseteq Deliveries
  BY DEF TypeOK, ScheduleType, Texts, JobTexts, Job, ScheduledTurn
<1>4. TurnText \subseteq Deliveries
  BY DEF TypeOK, TurnType, Turn, TurnText
<1> QED
  BY <1>1, <1>2, <1>3, <1>4 DEF TypeOK, QueueType

\* Texts of jobs.
LEMMA JobTextsOf == JobTexts = UNION {j.turn.text : j \in jobs}
BY DEF JobTexts, Texts

\* A step that moves no message keeps every one in its place.
LEMMA QuietSpots ==
    ASSUME SpotInv, UNCHANGED <<steer, followUp, deferred, nextTurn, hand, scheduled, jobs, fate>>,
           TurnText' = TurnText
    PROVE  SpotInv'
<1>1. PICK w : Waits(w)
  BY DEF SpotInv
<1>2. Waits(w)'
  BY <1>1 DEF Waits, JobTexts
<1> QED
  BY <1>2 DEF SpotInv, QueuesApart, TurnsApart

\* A continuation that is queued has no text.
LEMMA QueueTexts ==
    ASSUME TurnsApart, QueueContinuationLocked, UNCHANGED jobs
    PROVE  Texts(scheduled') = Texts(scheduled) /\ TurnsApart'
<1>1. CASE continuationQueued
  BY <1>1 DEF QueueContinuationLocked, TurnsApart
<1>2. CASE ~continuationQueued
  <2> DEFINE n == [stamp |-> stamp, gen |-> generation,
                   token |-> continuationToken + 1, external |-> FALSE, text |-> {}]
  <2>1. n.text = {} /\ scheduled' = scheduled \cup {n}
    BY <1>2 DEF QueueContinuationLocked
  <2> HIDE DEF n
  <2> QED
    BY <2>1 DEF Texts, TurnsApart
<1> QED
  BY <1>1, <1>2

\* A message that enters a queue was nowhere before.
LEMMA EnterSpots ==
    ASSUME TypeOK, SpotInv, NEW d \in Deliveries, fate[d] = "unsent",
           UNCHANGED <<hand, jobs>>, TurnText' = TurnText, Settle({d}, "queued"),
           Texts(scheduled') = Texts(scheduled), TurnsApart',
           NEW x \in Delivery, x.id = d,
           \/ steer' = Append(steer, x) /\ UNCHANGED <<followUp, deferred, nextTurn>>
           \/ followUp' = Append(followUp, x) /\ UNCHANGED <<steer, deferred, nextTurn>>
           \/ deferred' = Append(deferred, x) /\ UNCHANGED <<steer, followUp, nextTurn>>
           \/ nextTurn' = Append(nextTurn, x) /\ UNCHANGED <<steer, followUp, deferred>>
    PROVE  SpotInv'
<1>1. PICK w : Waits(w) /\ w[d] = "nowhere"
  BY DEF SpotInv, Waits
<1>2. /\ steer \in Seq(Delivery) /\ followUp \in Seq(Delivery)
      /\ deferred \in Seq(Delivery) /\ nextTurn \in Seq(Delivery)
      /\ QueuesApart
  BY DEF TypeOK, QueueType, SpotInv
<1>3. /\ d \notin Ids(steer) /\ d \notin Ids(followUp)
      /\ d \notin Ids(deferred) /\ d \notin Ids(nextTurn)
  BY <1>1 DEF Waits
<1>4. ASSUME NEW q \in Seq(Delivery), Apart(q), d \notin Ids(q)
      PROVE  Ids(Append(q, x)) = Ids(q) \cup {d} /\ Apart(Append(q, x))
  BY <1>4, IdsOf, ApartOf
<1>5. QueuesApart'
  BY <1>2, <1>3, <1>4 DEF QueuesApart
<1>6. ASSUME NEW s \in Spots,
             Ids(steer') = Ids(steer) \cup (IF s = "steer" THEN {d} ELSE {}),
             Ids(followUp') = Ids(followUp) \cup (IF s = "followUp" THEN {d} ELSE {}),
             Ids(deferred') = Ids(deferred) \cup (IF s = "deferred" THEN {d} ELSE {}),
             Ids(nextTurn') = Ids(nextTurn) \cup (IF s = "nextTurn" THEN {d} ELSE {}),
             s \in {"steer", "followUp", "deferred", "nextTurn"}
      PROVE  \E v : Waits(v)'
  <2> DEFINE v == [e \in Deliveries |-> IF e = d THEN s ELSE w[e]]
  <2>1. v \in [Deliveries -> Spots \cup {"nowhere"}] /\ JobTexts' = JobTexts
    BY <1>1, <1>6 DEF Waits, JobTexts
  <2>2. v[d] = s /\ \A e \in Deliveries : e # d => v[e] = w[e]
    OBVIOUS
  <2>3. /\ fate' = [e \in Deliveries |-> IF e = d THEN "queued" ELSE fate[e]]
        /\ Ids(hand') = Ids(hand)
    BY DEF Settle
  <2> HIDE DEF v
  <2>4. ASSUME NEW e \in Deliveries
        PROVE  /\ e \in Ids(steer')       <=> v[e] = "steer"
               /\ e \in Ids(followUp')    <=> v[e] = "followUp"
               /\ e \in Ids(deferred')    <=> v[e] = "deferred"
               /\ e \in Ids(nextTurn')    <=> v[e] = "nextTurn"
               /\ e \in Ids(hand')        <=> v[e] = "hand"
               /\ e \in Texts(scheduled') <=> v[e] = "scheduled"
               /\ e \in JobTexts'         <=> v[e] = "job"
               /\ e \in TurnText'         <=> v[e] = "turn"
               /\ fate'[e] = "queued"     <=> v[e] # "nowhere"
    <3>1. CASE e = d
      BY <1>1, <1>6, <2>1, <2>2, <2>3, <3>1 DEF Waits
    <3>2. CASE e # d
      BY <1>1, <1>6, <2>1, <2>2, <2>3, <3>2 DEF Waits
    <3> QED
      BY <3>1, <3>2
  <2> QED
    BY <2>1, <2>4 DEF Waits
<1>7. \E v : Waits(v)'
  <2>1. CASE steer' = Append(steer, x) /\ UNCHANGED <<followUp, deferred, nextTurn>>
    BY <1>2, <1>3, <1>4, <1>6, <2>1 DEF Spots, QueuesApart
  <2>2. CASE followUp' = Append(followUp, x) /\ UNCHANGED <<steer, deferred, nextTurn>>
    BY <1>2, <1>3, <1>4, <1>6, <2>2 DEF Spots, QueuesApart
  <2>3. CASE deferred' = Append(deferred, x) /\ UNCHANGED <<steer, followUp, nextTurn>>
    BY <1>2, <1>3, <1>4, <1>6, <2>3 DEF Spots, QueuesApart
  <2>4. CASE nextTurn' = Append(nextTurn, x) /\ UNCHANGED <<steer, followUp, deferred>>
    BY <1>2, <1>3, <1>4, <1>6, <2>4 DEF Spots, QueuesApart
  <2> QED
    BY <2>1, <2>2, <2>3, <2>4
<1> QED
  BY <1>5, <1>7 DEF SpotInv

\* An accepted message enters one place; it was nowhere before.
LEMMA SendSpots ==
    ASSUME TypeOK, SpotInv, NEW d \in Deliveries, Send(d)
    PROVE  SpotInv'
<1>1. PICK signal \in HandlerContexts \cup {0} :
        \/ SendUserIdle(d, signal)      \/ SendNextTurn(d, signal)
        \/ SendIdlePersisted(d, signal) \/ SendIdleTrigger(d, signal)
        \/ SendActiveFollowUp(d, signal) \/ SendActiveSteer(d, signal)
        \/ SendActiveDeferred(d, signal)
  BY DEF Send
<1>2. MayEnqueue(d, signal)
  BY <1>1 DEF SendUserIdle, SendNextTurn, SendIdlePersisted, SendIdleTrigger,
     SendActiveFollowUp, SendActiveSteer, SendActiveDeferred
<1>3. UNCHANGED hand /\ TurnText' = TurnText /\ fate[d] = "unsent"
  BY <1>2 DEF MayEnqueue, TurnText, InTurn
<1>4. signal \in Nat
  BY DEF HandlerContexts, TypeOK, TurnType
<1>5. PICK w : Waits(w) /\ w[d] = "nowhere"
  BY <1>3 DEF SpotInv, Waits
<1>6. CASE SendUserIdle(d, signal)
  <2> DEFINE n == [stamp |-> stamp, gen |-> generation, token |-> 0, external |-> TRUE,
                   text |-> {d}]
  <2>1. n.text = {d}
    OBVIOUS
  <2>2. /\ scheduled' = scheduled \cup {n} /\ Settle({d}, "queued")
        /\ UNCHANGED <<steer, followUp, deferred, nextTurn, jobs>>
    BY <1>6 DEF SendUserIdle
  <2> HIDE DEF n
  <2>3. Texts(scheduled') = Texts(scheduled) \cup {d}
    BY <2>1, <2>2 DEF Texts
  <2>4. d \notin Texts(scheduled)
    BY <1>5 DEF Waits
  <2>5. TurnsApart'
    BY <2>1, <2>2, <2>4 DEF SpotInv, TurnsApart, Texts
  <2>6. Waits([w EXCEPT ![d] = "scheduled"])'
    BY <1>3, <1>5, <2>2, <2>3 DEF Waits, Spots, Settle, JobTexts
  <2> QED
    BY <2>2, <2>5, <2>6 DEF SpotInv, QueuesApart
<1>7. CASE SendIdlePersisted(d, signal)
  <2>1. /\ Settle({d}, "persisted")
        /\ UNCHANGED <<steer, followUp, deferred, nextTurn, scheduled, jobs>>
    BY <1>7 DEF SendIdlePersisted
  <2>2. Waits(w)'
    BY <1>3, <1>5, <2>1 DEF Waits, Settle, JobTexts
  <2> QED
    BY <2>1, <2>2 DEF SpotInv, QueuesApart, TurnsApart
<1>8. UNCHANGED scheduled /\ UNCHANGED jobs => Texts(scheduled') = Texts(scheduled) /\ TurnsApart'
  BY DEF SpotInv, TurnsApart
<1>9. ASSUME NEW name \in Queues, NEW continue \in BOOLEAN, NEW s \in Nat
      PROVE  /\ NewDelivery(d, name, continue, s) \in Delivery
             /\ NewDelivery(d, name, continue, s).id = d
  BY DeliveryType DEF TypeOK, NewDelivery
<1>10. CASE SendNextTurn(d, signal)
  <2> DEFINE x == NewDelivery(d, "nextTurn", FALSE, 0)
  <2>1. x \in Delivery /\ x.id = d
    BY <1>9 DEF Queues
  <2>2. /\ nextTurn' = Append(nextTurn, x) /\ Settle({d}, "queued")
        /\ UNCHANGED <<steer, followUp, deferred, scheduled, jobs>>
    BY <1>10 DEF SendNextTurn
  <2> HIDE DEF x
  <2> QED
    BY <1>3, <1>8, <2>1, <2>2, EnterSpots
<1>11. CASE SendIdleTrigger(d, signal)
  <2> DEFINE x == NewDelivery(d, "steer", TRUE, signal)
  <2>1. x \in Delivery /\ x.id = d
    BY <1>4, <1>9 DEF Queues
  <2>2. /\ steer' = Append(steer, x) /\ Settle({d}, "queued")
        /\ UNCHANGED <<followUp, deferred, nextTurn, jobs>>
    BY <1>11 DEF SendIdleTrigger
  <2>3. Texts(scheduled') = Texts(scheduled) /\ TurnsApart'
    BY <1>11, QueueTexts DEF SendIdleTrigger, SpotInv
  <2> HIDE DEF x
  <2> QED
    BY <1>3, <2>1, <2>2, <2>3, EnterSpots
<1>12. CASE SendActiveFollowUp(d, signal)
  <2> DEFINE x == NewDelivery(d, "followUp", TRUE, signal)
  <2>1. x \in Delivery /\ x.id = d
    BY <1>4, <1>9 DEF Queues
  <2>2. /\ followUp' = Append(followUp, x) /\ Settle({d}, "queued")
        /\ UNCHANGED <<steer, deferred, nextTurn, scheduled, jobs>>
    BY <1>12 DEF SendActiveFollowUp
  <2> HIDE DEF x
  <2> QED
    BY <1>3, <1>8, <2>1, <2>2, EnterSpots
<1>13. CASE SendActiveSteer(d, signal)
  <2> DEFINE x == NewDelivery(d, "steer", TRUE, signal)
  <2>1. x \in Delivery /\ x.id = d
    BY <1>4, <1>9 DEF Queues
  <2>2. /\ steer' = Append(steer, x) /\ Settle({d}, "queued")
        /\ UNCHANGED <<followUp, deferred, nextTurn, scheduled, jobs>>
    BY <1>13 DEF SendActiveSteer
  <2> HIDE DEF x
  <2> QED
    BY <1>3, <1>8, <2>1, <2>2, EnterSpots
<1>14. CASE SendActiveDeferred(d, signal)
  <2> DEFINE x == NewDelivery(d, "deferred", FALSE, signal)
  <2>1. x \in Delivery /\ x.id = d
    BY <1>4, <1>9 DEF Queues
  <2>2. /\ deferred' = Append(deferred, x) /\ Settle({d}, "queued")
        /\ UNCHANGED <<steer, followUp, nextTurn, scheduled, jobs>>
    BY <1>14 DEF SendActiveDeferred
  <2> HIDE DEF x
  <2> QED
    BY <1>3, <1>8, <2>1, <2>2, EnterSpots
<1> QED
  BY <1>1, <1>6, <1>7, <1>10, <1>11, <1>12, <1>13, <1>14

\* The dispatcher moves the text of a scheduled turn to a job.
LEMMA DispatchSpots ==
    ASSUME TypeOK, SpotInv, DispatchNext, TurnText' = TurnText,
           UNCHANGED <<steer, followUp, deferred, nextTurn, hand, fate>>
    PROVE  SpotInv'
<1>1. CASE UNCHANGED <<scheduled, jobQueued, jobs>>
  BY <1>1, QuietSpots
<1>2. CASE \E t \in scheduled : /\ scheduled' = scheduled \ {t}
                               /\ jobs' = jobs \cup {[turn |-> t, phase |-> "dispatched"]}
  <2>1. PICK t \in scheduled : /\ scheduled' = scheduled \ {t}
                              /\ jobs' = jobs \cup {[turn |-> t, phase |-> "dispatched"]}
    BY <1>2
  <2> DEFINE j == [turn |-> t, phase |-> "dispatched"]
  <2>2. j.turn = t /\ jobs' = jobs \cup {j}
    BY <2>1
  <2> HIDE DEF j
  <2>3. PICK w : Waits(w)
    BY DEF SpotInv
  <2>4. /\ Texts(scheduled') = Texts(scheduled) \ t.text
        /\ JobTexts' = JobTexts \cup t.text
        /\ t.text \subseteq Texts(scheduled) /\ t.text \subseteq Deliveries
    BY <2>1, <2>2, SpotTypes, JobTextsOf DEF SpotInv, TurnsApart, Texts, JobTexts
  <2> DEFINE v == [d \in Deliveries |-> IF d \in t.text THEN "job" ELSE w[d]]
  <2>5. Waits(v)'
    BY <2>3, <2>4 DEF Waits, Spots
  <2>6. ASSUME NEW k \in jobs, k.turn.text \cap t.text # {} PROVE FALSE
    <3>1. PICK d : d \in JobTexts /\ d \in Texts(scheduled) /\ d \in Deliveries
      BY <2>4, <2>6, JobTextsOf
    <3> QED
      BY <2>3, <3>1 DEF Waits
  <2>7. TurnsApart'
    BY <2>1, <2>2, <2>6 DEF SpotInv, TurnsApart
  <2> QED
    BY <2>5, <2>7 DEF SpotInv, QueuesApart
<1> QED
  BY <1>1, <1>2 DEF DispatchNext

\* What a job does to the text it carries.
LEMMA JobSpots ==
    ASSUME TypeOK, SpotInv, NEW j \in jobs,
           JobStarts(j) \/ JobSkipped(j) \/ JobRefused(j) \/ JobAdmitted(j)
    PROVE  SpotInv'
<1>0. UNCHANGED <<steer, followUp, deferred, nextTurn, hand, scheduled>>
  BY DEF JobStarts, JobSkipped, JobRefused, JobAdmitted, Admit
<1>1. PICK w : Waits(w)
  BY DEF SpotInv
<1>2. ASSUME jobs' = jobs \ {j}
      PROVE  JobTexts' = JobTexts \ j.turn.text /\ TurnsApart'
  BY <1>0, <1>2, JobTextsOf DEF JobTexts, Texts, SpotInv, TurnsApart
<1>3. j.turn.text \subseteq JobTexts /\ j.turn.text \subseteq Deliveries
  BY JobTextsOf, SpotTypes
<1>4. CASE JobStarts(j)
  <2> DEFINE r == [j EXCEPT !.phase = "ready"]
  <2>1. /\ r.turn = j.turn /\ jobs' = (jobs \ {j}) \cup {r}
        /\ TurnText' = TurnText /\ UNCHANGED fate
    BY <1>4 DEF JobStarts, TypeOK, ScheduleType, Job, TurnText, InTurn
  <2> HIDE DEF r
  <2>2. JobTexts' = JobTexts
    BY <2>1, JobTextsOf DEF JobTexts, Texts
  <2>3. Waits(w)'
    BY <1>0, <1>1, <2>1, <2>2 DEF Waits
  <2>4. TurnsApart'
    BY <1>0, <2>1 DEF SpotInv, TurnsApart
  <2> QED
    BY <1>0, <2>3, <2>4 DEF SpotInv, QueuesApart
<1>5. CASE JobSkipped(j) \/ JobRefused(j)
  <2>1. /\ jobs' = jobs \ {j} /\ TurnText' = TurnText
        /\ \E f \in {"dropped", "lost"} : Settle(j.turn.text, f)
    BY <1>5 DEF JobSkipped, JobRefused, TurnText, InTurn
  <2> DEFINE v == [d \in Deliveries |-> IF d \in j.turn.text THEN "nowhere" ELSE w[d]]
  <2>2. Waits(v)'
    BY <1>0, <1>1, <1>2, <1>3, <2>1 DEF Waits, Spots, Settle
  <2> QED
    BY <1>0, <1>2, <2>1, <2>2 DEF SpotInv, QueuesApart
<1>6. CASE JobAdmitted(j)
  <2>1. /\ jobs' = jobs \ {j} /\ UNCHANGED fate
        /\ turn.phase = "none" /\ turn'.phase = "admitted" /\ turn'.text = j.turn.text
    BY <1>6 DEF JobAdmitted, Admit
  <2>2. TurnText = {} /\ TurnText' = j.turn.text
    BY <2>1 DEF TurnText, InTurn
  <2> DEFINE v == [d \in Deliveries |-> IF d \in j.turn.text THEN "turn" ELSE w[d]]
  <2>3. Waits(v)'
    BY <1>0, <1>1, <1>2, <1>3, <2>1, <2>2 DEF Waits, Spots
  <2> QED
    BY <1>0, <1>2, <2>1, <2>3 DEF SpotInv, QueuesApart
<1> QED
  BY <1>4, <1>5, <1>6

\* The message of a popped delivery waits in the hand instead of its queue.
LEMMA PopWaits ==
    ASSUME NEW w, Waits(w), NEW h \in Deliveries, UNCHANGED <<scheduled, jobs, fate>>,
           TurnText' = TurnText, Ids(hand) = {}, Ids(hand') = {h},
           h \in Ids(steer) \cup Ids(followUp) \cup Ids(deferred) \cup Ids(nextTurn),
           Ids(steer') = Ids(steer) \ {h}, Ids(followUp') = Ids(followUp) \ {h},
           Ids(deferred') = Ids(deferred) \ {h}, Ids(nextTurn') = Ids(nextTurn) \ {h}
    PROVE  \E v : Waits(v)'
<1> DEFINE v == [d \in Deliveries |-> IF d = h THEN "hand" ELSE w[d]]
<1>1. JobTexts' = JobTexts /\ Texts(scheduled') = Texts(scheduled)
  BY DEF JobTexts
<1>2. v \in [Deliveries -> Spots \cup {"nowhere"}]
  BY DEF Waits, Spots
<1>3. v[h] = "hand" /\ \A d \in Deliveries : d # h => v[d] = w[d]
  OBVIOUS
<1> HIDE DEF v
<1>4. ASSUME NEW d \in Deliveries
      PROVE  /\ d \in Ids(steer')        <=> v[d] = "steer"
             /\ d \in Ids(followUp')     <=> v[d] = "followUp"
             /\ d \in Ids(deferred')     <=> v[d] = "deferred"
             /\ d \in Ids(nextTurn')     <=> v[d] = "nextTurn"
             /\ d \in Ids(hand')         <=> v[d] = "hand"
             /\ d \in Texts(scheduled')  <=> v[d] = "scheduled"
             /\ d \in JobTexts'          <=> v[d] = "job"
             /\ d \in TurnText'          <=> v[d] = "turn"
             /\ fate'[d] = "queued"      <=> v[d] # "nowhere"
  <2>1. CASE d = h
    BY <1>1, <1>3, <2>1 DEF Waits
  <2>2. CASE d # h
    BY <1>1, <1>3, <2>2 DEF Waits
  <2> QED
    BY <2>1, <2>2
<1> QED
  BY <1>2, <1>4 DEF Waits

\* A pop moves the head of a queue to the hand of the boundary.
LEMMA PopSpots ==
    ASSUME TypeOK, SpotInv, hand = <<>>, UNCHANGED <<scheduled, jobs, fate>>,
           TurnText' = TurnText,
           \/ /\ steer # <<>> /\ hand' = <<Head(steer)>> /\ steer' = Tail(steer)
              /\ UNCHANGED <<followUp, deferred, nextTurn>>
           \/ /\ followUp # <<>> /\ hand' = <<Head(followUp)>> /\ followUp' = Tail(followUp)
              /\ UNCHANGED <<steer, deferred, nextTurn>>
           \/ /\ deferred # <<>> /\ hand' = <<Head(deferred)>> /\ deferred' = Tail(deferred)
              /\ UNCHANGED <<steer, followUp, nextTurn>>
           \/ /\ nextTurn # <<>> /\ hand' = <<Head(nextTurn)>> /\ nextTurn' = Tail(nextTurn)
              /\ UNCHANGED <<steer, followUp, deferred>>
    PROVE  SpotInv'
<1>1. PICK w : Waits(w)
  BY DEF SpotInv
<1>2. TurnsApart'
  BY DEF SpotInv, TurnsApart
<1>3. ASSUME NEW q \in Seq(Delivery), q # <<>>, Apart(q)
      PROVE  /\ Ids(q) = {Head(q).id} \cup Ids(Tail(q)) /\ Head(q).id \notin Ids(Tail(q))
             /\ Ids(<<Head(q)>>) = {Head(q).id} /\ Head(q).id \in Deliveries /\ Apart(Tail(q))
  <2>1. Head(q) \in Delivery
    BY <1>3
  <2> QED
    BY <1>3, <2>1, IdsOf, ApartOf DEF Delivery
<1>4. Ids(hand) = {} /\ JobTexts' = JobTexts
  BY DEF Ids, Elements, JobTexts
<1>5. /\ steer \in Seq(Delivery) /\ followUp \in Seq(Delivery) /\ deferred \in Seq(Delivery)
      /\ nextTurn \in Seq(Delivery) /\ QueuesApart
  BY DEF TypeOK, QueueType, SpotInv
<1> USE DEF QueuesApart
<1>6. CASE steer # <<>> /\ hand' = <<Head(steer)>> /\ steer' = Tail(steer)
           /\ UNCHANGED <<followUp, deferred, nextTurn>>
  <2> DEFINE h == Head(steer).id
  <2>1. /\ Ids(steer) = {h} \cup Ids(steer') /\ h \notin Ids(steer') /\ Ids(hand') = {h}
        /\ h \in Deliveries /\ Apart(steer')
    BY <1>3, <1>5, <1>6
  <2> HIDE DEF h
  <2>2. h \notin Ids(followUp) /\ h \notin Ids(deferred) /\ h \notin Ids(nextTurn)
    BY <1>1, <2>1 DEF Waits
  <2>3. /\ Ids(steer') = Ids(steer) \ {h}
        /\ Ids(followUp') = Ids(followUp) \ {h}
        /\ Ids(deferred') = Ids(deferred) \ {h}
        /\ Ids(nextTurn') = Ids(nextTurn) \ {h}
    BY <1>6, <2>1, <2>2
  <2>4. \E v : Waits(v)'
    BY <1>1, <1>4, <2>1, <2>2, <2>3, PopWaits
  <2> QED
    BY <1>2, <1>5, <1>6, <2>1, <2>4 DEF SpotInv
<1>7. CASE followUp # <<>> /\ hand' = <<Head(followUp)>> /\ followUp' = Tail(followUp)
           /\ UNCHANGED <<steer, deferred, nextTurn>>
  <2> DEFINE h == Head(followUp).id
  <2>1. /\ Ids(followUp) = {h} \cup Ids(followUp') /\ h \notin Ids(followUp') /\ Ids(hand') = {h}
        /\ h \in Deliveries /\ Apart(followUp')
    BY <1>3, <1>5, <1>7
  <2> HIDE DEF h
  <2>2. h \notin Ids(steer) /\ h \notin Ids(deferred) /\ h \notin Ids(nextTurn)
    BY <1>1, <2>1 DEF Waits
  <2>3. /\ Ids(followUp') = Ids(followUp) \ {h}
        /\ Ids(steer') = Ids(steer) \ {h}
        /\ Ids(deferred') = Ids(deferred) \ {h}
        /\ Ids(nextTurn') = Ids(nextTurn) \ {h}
    BY <1>7, <2>1, <2>2
  <2>4. \E v : Waits(v)'
    BY <1>1, <1>4, <2>1, <2>2, <2>3, PopWaits
  <2> QED
    BY <1>2, <1>5, <1>7, <2>1, <2>4 DEF SpotInv
<1>8. CASE deferred # <<>> /\ hand' = <<Head(deferred)>> /\ deferred' = Tail(deferred)
           /\ UNCHANGED <<steer, followUp, nextTurn>>
  <2> DEFINE h == Head(deferred).id
  <2>1. /\ Ids(deferred) = {h} \cup Ids(deferred') /\ h \notin Ids(deferred') /\ Ids(hand') = {h}
        /\ h \in Deliveries /\ Apart(deferred')
    BY <1>3, <1>5, <1>8
  <2> HIDE DEF h
  <2>2. h \notin Ids(steer) /\ h \notin Ids(followUp) /\ h \notin Ids(nextTurn)
    BY <1>1, <2>1 DEF Waits
  <2>3. /\ Ids(deferred') = Ids(deferred) \ {h}
        /\ Ids(steer') = Ids(steer) \ {h}
        /\ Ids(followUp') = Ids(followUp) \ {h}
        /\ Ids(nextTurn') = Ids(nextTurn) \ {h}
    BY <1>8, <2>1, <2>2
  <2>4. \E v : Waits(v)'
    BY <1>1, <1>4, <2>1, <2>2, <2>3, PopWaits
  <2> QED
    BY <1>2, <1>5, <1>8, <2>1, <2>4 DEF SpotInv
<1>9. CASE nextTurn # <<>> /\ hand' = <<Head(nextTurn)>> /\ nextTurn' = Tail(nextTurn)
           /\ UNCHANGED <<steer, followUp, deferred>>
  <2> DEFINE h == Head(nextTurn).id
  <2>1. /\ Ids(nextTurn) = {h} \cup Ids(nextTurn') /\ h \notin Ids(nextTurn') /\ Ids(hand') = {h}
        /\ h \in Deliveries /\ Apart(nextTurn')
    BY <1>3, <1>5, <1>9
  <2> HIDE DEF h
  <2>2. h \notin Ids(steer) /\ h \notin Ids(followUp) /\ h \notin Ids(deferred)
    BY <1>1, <2>1 DEF Waits
  <2>3. /\ Ids(nextTurn') = Ids(nextTurn) \ {h}
        /\ Ids(steer') = Ids(steer) \ {h}
        /\ Ids(followUp') = Ids(followUp) \ {h}
        /\ Ids(deferred') = Ids(deferred) \ {h}
    BY <1>9, <2>1, <2>2
  <2>4. \E v : Waits(v)'
    BY <1>1, <1>4, <2>1, <2>2, <2>3, PopWaits
  <2> QED
    BY <1>2, <1>5, <1>9, <2>1, <2>4 DEF SpotInv
<1> QED
  BY <1>6, <1>7, <1>8, <1>9

\* The delivery in hand is committed or lost.
LEMMA CommitSpots ==
    ASSUME TypeOK, SpotInv, HandInv, hand # <<>>, hand' = <<>>,
           UNCHANGED <<steer, followUp, deferred, nextTurn, scheduled, jobs>>,
           TurnText' = TurnText, NEW f \in {"persisted", "lost"}, Settle({Head(hand).id}, f)
    PROVE  SpotInv'
<1>1. PICK w : Waits(w)
  BY DEF SpotInv
<1>2. Ids(hand) = {Head(hand).id} /\ Ids(hand') = {} /\ Head(hand).id \in Deliveries
  <2>1. hand \in Seq(Delivery) /\ Head(hand) \in Delivery /\ Tail(hand) \in Seq(Delivery)
    BY PopType DEF TypeOK, QueueType
  <2>2. Len(hand) \in Nat /\ Len(hand) <= 1 /\ Len(hand) # 0
    BY <2>1 DEF HandInv
  <2>3. Ids(Tail(hand)) = {}
    <3>1. DOMAIN Tail(hand) = 1 .. (Len(hand) - 1) /\ Len(hand) = 1
      BY <2>1, <2>2
    <3>2. DOMAIN Tail(hand) = {}
      BY <3>1
    <3> QED
      BY <3>2 DEF Ids, Elements
  <2>4. Ids(hand) = {Head(hand).id} \cup Ids(Tail(hand)) /\ Ids(<<>>) = {}
    BY <2>1, IdsOf
  <2> QED
    BY <2>1, <2>3, <2>4 DEF Delivery
<1>0. PICK h \in Deliveries : h = Head(hand).id
  BY <1>2
<1>3. /\ fate' = [d \in Deliveries |-> IF d = h THEN f ELSE fate[d]] /\ f # "queued"
      /\ Ids(hand) = {h} /\ Ids(hand') = {} /\ h \in Deliveries
  BY <1>0, <1>2 DEF Settle
<1> DEFINE v == [d \in Deliveries |-> IF d = h THEN "nowhere" ELSE w[d]]
<1>4. v \in [Deliveries -> Spots \cup {"nowhere"}]
  BY <1>1 DEF Waits, Spots
<1>5. Waits(v)'
  <2>1. JobTexts' = JobTexts /\ \A d \in Deliveries : v[d] = IF d = h THEN "nowhere" ELSE w[d]
    BY DEF JobTexts
  <2> HIDE DEF v
  <2> QED
    BY <1>1, <1>3, <1>4, <2>1 DEF Waits
<1> QED
  BY <1>5 DEF SpotInv, QueuesApart, TurnsApart

\* A turn begins: its text is recorded or lost.
LEMMA BeginSpots ==
    ASSUME TypeOK, SpotInv, BeginTurn \/ BeginTurnFails
    PROVE  SpotInv'
<1>1. PICK w : Waits(w)
  BY DEF SpotInv
<1>2. /\ UNCHANGED <<steer, followUp, deferred, nextTurn, hand, scheduled, jobs>>
      /\ turn.phase = "admitted" /\ turn'.phase # "admitted"
      /\ \E f \in {"persisted", "lost"} : Settle(turn.text, f)
  BY DEF BeginTurn, BeginTurnFails, InTurn, GoTo, TypeOK, TurnType, Turn
<1>3. TurnText = turn.text /\ TurnText' = {} /\ turn.text \subseteq Deliveries
  BY <1>2 DEF TurnText, InTurn, TypeOK, TurnType, Turn
<1>0. PICK ids \in SUBSET Deliveries : ids = turn.text
  BY <1>3
<1> DEFINE v == [d \in Deliveries |-> IF d \in ids THEN "nowhere" ELSE w[d]]
<1>4. PICK f \in {"persisted", "lost"} : Settle(turn.text, f)
  BY <1>2
<1>5. Waits(v)'
  <2>1. JobTexts' = JobTexts /\ f # "queued"
    BY <1>2 DEF JobTexts
  <2> QED
    BY <1>0, <1>1, <1>2, <1>3, <1>4, <2>1 DEF Waits, Spots, Settle
<1> QED
  BY <1>2, <1>5 DEF SpotInv, QueuesApart, TurnsApart

\* The messages of queues and scheduled turns that are emptied are dropped.
LEMMA DropSpots ==
    ASSUME TypeOK, SpotInv, TextInv, EndCanceled \/ BindSession \/ ShutdownClears
    PROVE  SpotInv'
<1>1. PICK w : Waits(w)
  BY DEF SpotInv
<1>2. Ids(<<>>) = {} /\ Apart(<<>>) /\ Texts({}) = {}
  BY DEF Ids, Elements, Apart, Texts
<1>3. CASE EndCanceled
  <2>1. /\ steer' = <<>> /\ followUp' = <<>> /\ deferred' = <<>>
        /\ UNCHANGED <<nextTurn, hand, jobs>>
        /\ Settle(Ids(steer) \cup Ids(followUp) \cup Ids(deferred), "dropped")
        /\ scheduled' = {t \in scheduled : t.external \/ t.token > continuationToken}
    BY <1>3 DEF EndCanceled, AtEnd, InvalidateContinuationLocked
  <2>2. turn.phase = "end" /\ turn'.phase = "finish"
    BY <1>3 DEF EndCanceled, AtEnd, InTurn, GoTo, TypeOK, TurnType, Turn
  <2>3. TurnText' = {} /\ TurnText = {}
    BY <2>2 DEF TurnText, InTurn
  <2>4. Texts(scheduled') = Texts(scheduled) /\ TurnsApart'
    BY <2>1 DEF Texts, TextInv, Left, SpotInv, TurnsApart
  <2> DEFINE v == [d \in Deliveries |-> IF w[d] \in {"steer", "followUp", "deferred"}
                                        THEN "nowhere" ELSE w[d]]
  <2>5. Waits(v)'
    BY <1>1, <1>2, <2>1, <2>3, <2>4 DEF Waits, Spots, Settle, JobTexts
  <2> QED
    BY <1>2, <2>1, <2>4, <2>5 DEF SpotInv, QueuesApart
<1>4. CASE BindSession \/ ShutdownClears
  <2>1. /\ steer' = <<>> /\ followUp' = <<>> /\ deferred' = <<>> /\ nextTurn' = <<>>
        /\ scheduled' = {} /\ UNCHANGED <<hand, jobs>> /\ TurnText' = TurnText
        /\ Settle(Ids(steer) \cup Ids(followUp) \cup Ids(deferred) \cup Ids(nextTurn)
                  \cup Texts(scheduled), "dropped")
    BY <1>4 DEF BindSession, ShutdownClears, TurnText, InTurn
  <2> DEFINE v == [d \in Deliveries |->
                     IF w[d] \in {"steer", "followUp", "deferred", "nextTurn", "scheduled"}
                     THEN "nowhere" ELSE w[d]]
  <2>2. Waits(v)'
    BY <1>1, <1>2, <2>1 DEF Waits, Spots, Settle, JobTexts
  <2> QED
    BY <1>2, <2>1, <2>2 DEF SpotInv, QueuesApart, TurnsApart
<1> QED
  BY <1>3, <1>4

\* The pop of a boundary: the head of one queue becomes the delivery in hand.
Pops ==
    \/ /\ steer # <<>> /\ hand' = <<Head(steer)>> /\ steer' = Tail(steer)
       /\ UNCHANGED <<followUp, deferred, nextTurn>>
    \/ /\ followUp # <<>> /\ hand' = <<Head(followUp)>> /\ followUp' = Tail(followUp)
       /\ UNCHANGED <<steer, deferred, nextTurn>>
    \/ /\ deferred # <<>> /\ hand' = <<Head(deferred)>> /\ deferred' = Tail(deferred)
       /\ UNCHANGED <<steer, followUp, nextTurn>>
    \/ /\ nextTurn # <<>> /\ hand' = <<Head(nextTurn)>> /\ nextTurn' = Tail(nextTurn)
       /\ UNCHANGED <<steer, followUp, deferred>>

PersistPhases == {"persist", "drainPersist"}

\* Every boundary passes, pops, or settles the delivery it has popped.
LEMMA BoundarySteps ==
    ASSUME TypeOK, Boundary \/ DrainPops \/ DrainPersists
    PROVE  /\ UNCHANGED <<scheduled, jobs, stamp>> /\ turn'.text = turn.text
           /\ turn.phase # "admitted" /\ turn'.phase # "admitted"
           /\ \/ /\ turn.phase \notin PersistPhases
                 /\ UNCHANGED <<steer, followUp, deferred, nextTurn, hand, fate, log>>
              \/ /\ turn.phase \notin PersistPhases /\ turn'.phase \in PersistPhases
                 /\ Pops /\ UNCHANGED <<fate, log>>
              \/ /\ hand # <<>> /\ hand' = <<>> /\ UNCHANGED <<steer, followUp, deferred, nextTurn>>
                 /\ Commit(Head(hand)) \/ CommitFails(Head(hand))
<1>a. ASSUME NEW phase, GoTo(phase) PROVE turn'.phase = phase /\ turn'.text = turn.text
  BY <1>a DEF GoTo, TypeOK, TurnType, Turn
<1>1. CASE PollCanceled \/ StopCanceled \/ StopNothing \/ PollSkipped \/ PollNothing
  <2>1. /\ UNCHANGED <<scheduled, jobs, stamp>> /\ turn.phase \in {"poll", "stop"}
        /\ UNCHANGED <<steer, followUp, deferred, nextTurn, hand, fate, log>>
    BY <1>1 DEF PollCanceled, StopCanceled, StopNothing, PollSkipped, PollNothing, PollsSteer,
       AtPoll, AtStop, InTurn
  <2>2. turn'.phase \in {"end", "request"} /\ turn'.text = turn.text
    BY <1>1, <1>a DEF PollCanceled, StopCanceled, StopNothing, PollSkipped, PollNothing,
       TypeOK, TurnType, Turn
  <2> QED
    BY <2>1, <2>2 DEF PersistPhases
<1>2. CASE PollNextTurn \/ PollSteer \/ StopSteer \/ StopFollowUp \/ StopDeferred
  <2>1. /\ UNCHANGED <<scheduled, jobs, stamp, fate, log>> /\ turn.phase \in {"poll", "stop"}
    BY <1>2 DEF PollNextTurn, PollSteer, StopSteer, StopFollowUp, StopDeferred, StopPops,
       PollsSteer, AtPoll, AtStop, InTurn
  <2>2. turn'.phase = "persist" /\ turn'.text = turn.text
    BY <1>2 DEF PollNextTurn, PollSteer, StopSteer, StopFollowUp, StopDeferred, StopPops,
       TypeOK, TurnType, Turn
  <2>3. Pops
    BY <1>2 DEF PollNextTurn, PollSteer, StopSteer, StopFollowUp, StopDeferred, StopPops,
       PollsSteer, AtPoll, AtStop, Pops, InjectsNextTurn
  <2> QED
    BY <2>1, <2>2, <2>3 DEF PersistPhases
<1>3. CASE DrainPops
  <2>1. /\ UNCHANGED <<scheduled, jobs, stamp, fate, log>> /\ turn.phase = "drain"
    BY <1>3 DEF DrainPops, InTurn
  <2>2. CASE deferred = <<>>
    <3>1. turn'.phase = "finish" /\ turn'.text = turn.text
      BY <1>3, <2>2, <1>a DEF DrainPops
    <3> QED
      BY <1>3, <2>1, <2>2, <3>1 DEF DrainPops, PersistPhases
  <2>3. CASE deferred # <<>>
    <3>1. turn'.phase = "drainPersist" /\ turn'.text = turn.text
      BY <1>3, <2>3, <1>a DEF DrainPops
    <3>2. Pops
      BY <1>3, <2>3 DEF DrainPops, Pops
    <3> QED
      BY <2>1, <3>1, <3>2 DEF PersistPhases
  <2> QED
    BY <2>2, <2>3
<1>4. CASE PersistDelivery \/ PersistDeliveryFails \/ DrainPersists
  <2>1. /\ UNCHANGED <<scheduled, jobs, steer, followUp, deferred, nextTurn>>
        /\ turn.phase \in PersistPhases /\ hand # <<>> /\ hand' = <<>>
        /\ Commit(Head(hand)) \/ CommitFails(Head(hand))
    BY <1>4 DEF PersistDelivery, PersistDeliveryFails, DrainPersists, AtPersist, InTurn,
       PersistPhases
  <2>2. UNCHANGED stamp
    BY <2>1 DEF Commit, CommitFails
  <2>3. turn'.phase # "admitted" /\ turn'.text = turn.text
    <3>1. CASE PersistDelivery
      <4>1. AfterBoundary # "admitted"
        BY DEF AfterBoundary
      <4>2. turn'.phase = AfterBoundary /\ turn'.text = turn.text
        BY <3>1 DEF PersistDelivery, TypeOK, TurnType, Turn
      <4> QED
        BY <4>1, <4>2
    <3>2. CASE PersistDeliveryFails \/ DrainPersists
      BY <3>2, <1>a DEF PersistDeliveryFails, DrainPersists
    <3> QED
      BY <1>4, <3>1, <3>2
  <2> QED
    BY <2>1, <2>2, <2>3 DEF PersistPhases
<1> QED
  BY <1>1, <1>2, <1>3, <1>4 DEF Boundary

\* A boundary has one delivery in hand while it persists it, and none before.
LEMMA HandStep == TypeOK /\ HandInv /\ [Next]_vars => HandInv'
<1> SUFFICES ASSUME TypeOK, HandInv, [Next]_vars PROVE HandInv'
  OBVIOUS
<1> USE DEF HandInv
<1>a. ASSUME UNCHANGED hand, turn' = turn \/ turn.phase \notin PersistPhases PROVE HandInv'
  BY <1>a DEF PersistPhases
<1>1. CASE \E d \in Deliveries : Send(d)
  BY <1>1, <1>a, SendEnqueues DEF MayEnqueue
<1>2. CASE \/ \E kind \in {"external", "agent"} : PromptAdmitted(kind)
           \/ \E j \in jobs : JobAdmitted(j)
  BY <1>2, <1>a DEF PromptAdmitted, JobAdmitted, Admit, PersistPhases
<1>3. CASE \/ \E j \in jobs : JobStarts(j) \/ JobSkipped(j) \/ JobRefused(j)
           \/ Release \/ Interrupt \/ AgentCanceledByRebind \/ ScheduleMailbox
           \/ BindSession \/ ShutdownCloses \/ ShutdownClears
  BY <1>3, <1>a DEF JobStarts, JobSkipped, JobRefused, Release, ContextReleased, Interrupt,
     AgentCanceledByRebind, ScheduleMailbox, BindSession, ShutdownCloses, ShutdownClears
<1>4. CASE BeginTurn \/ BeginTurnFails \/ Request \/ AgentReturns \/ EndCanceled \/ EndNormal
           \/ TurnFinishes
  <2>1. UNCHANGED hand
    BY <1>4 DEF BeginTurn, BeginTurnFails, Request, RequestContinues, RequestStops,
       RequestReturns, AtRequest, AgentReturns, EndCanceled, EndNormal, AtEnd, TurnFinishes
  <2>2. turn.phase \notin PersistPhases
    BY <1>4 DEF BeginTurn, BeginTurnFails, Request, RequestContinues, RequestStops,
       RequestReturns, AtRequest, AgentReturns, EndCanceled, EndNormal, AtEnd, TurnFinishes,
       InTurn, PersistPhases
  <2> QED
    BY <1>a, <2>1, <2>2
<1>5. CASE Boundary \/ DrainPops \/ DrainPersists
  <2>1. CASE turn.phase \notin PersistPhases /\ UNCHANGED hand
    BY <1>a, <2>1
  <2>2. CASE turn'.phase \in PersistPhases /\ Pops
    <3>1. PICK x : hand' = <<x>>
      BY <2>2 DEF Pops
    <3> QED
      BY <2>2, <3>1 DEF PersistPhases
  <2>3. CASE hand' = <<>>
    BY <2>3
  <2> QED
    BY <1>5, <2>1, <2>2, <2>3, BoundarySteps
<1>6. CASE UNCHANGED vars
  BY <1>6, <1>a DEF vars
<1> QED
  BY <1>1, <1>2, <1>3, <1>4, <1>5, <1>6
     DEF Next, Environment, JobStep, TurnStep, TurnEnds

\* The text of a turn is the one of the scheduled turn it runs.
LEMMA TextStep == TypeOK /\ TextInv /\ [Next]_vars => TextInv'
<1> SUFFICES ASSUME TypeOK, TextInv, [Next]_vars PROVE TextInv'
  OBVIOUS
<1> USE DEF TextInv
<1>a. ASSUME Left' \subseteq Left, turn'.text = turn.text \/ Single(turn'.text) PROVE TextInv'
  BY <1>a DEF Single
<1>b. ASSUME NEW phase, GoTo(phase) PROVE turn'.text = turn.text
  BY <1>b DEF GoTo, TypeOK, TurnType, Turn
<1>c. ASSUME QueueContinuationLocked, UNCHANGED jobs, turn'.text = turn.text
      PROVE  TextInv'
  <2>1. CASE continuationQueued
    BY <1>a, <1>c, <2>1 DEF QueueContinuationLocked, Left
  <2>2. CASE ~continuationQueued
    <3> DEFINE n == [stamp |-> stamp, gen |-> generation,
                     token |-> continuationToken + 1, external |-> FALSE, text |-> {}]
    <3>1. n.text = {} /\ scheduled' = scheduled \cup {n}
      BY <1>c, <2>2 DEF QueueContinuationLocked
    <3> HIDE DEF n
    <3>2. Left' = Left \cup {n} /\ turn'.text = turn.text
      BY <1>c, <3>1 DEF Left
    <3> QED
      BY <3>1, <3>2 DEF Single
  <2> QED
    BY <2>1, <2>2
<1>1. CASE \E d \in Deliveries : Send(d)
  <2>1. PICK d \in Deliveries : Send(d)
    BY <1>1
  <2>2. UNCHANGED turn
    BY <2>1, SendEnqueues DEF MayEnqueue
  <2>3. PICK signal \in HandlerContexts \cup {0} :
          \/ SendUserIdle(d, signal)      \/ SendNextTurn(d, signal)
          \/ SendIdlePersisted(d, signal) \/ SendIdleTrigger(d, signal)
          \/ SendActiveFollowUp(d, signal) \/ SendActiveSteer(d, signal)
          \/ SendActiveDeferred(d, signal)
    BY <2>1 DEF Send
  <2>4. CASE SendUserIdle(d, signal)
    <3> DEFINE n == [stamp |-> stamp, gen |-> generation, token |-> 0, external |-> TRUE,
                     text |-> {d}]
    <3>1. n.text = {d} /\ n.external /\ scheduled' = scheduled \cup {n} /\ UNCHANGED jobs
      BY <2>4 DEF SendUserIdle
    <3> HIDE DEF n
    <3>2. Left' = Left \cup {n}
      BY <3>1 DEF Left
    <3> QED
      BY <2>2, <3>1, <3>2 DEF Single
  <2>5. CASE SendIdleTrigger(d, signal)
    BY <1>c, <2>2, <2>5 DEF SendIdleTrigger
  <2>6. CASE \/ SendNextTurn(d, signal) \/ SendIdlePersisted(d, signal)
             \/ SendActiveFollowUp(d, signal) \/ SendActiveSteer(d, signal)
             \/ SendActiveDeferred(d, signal)
    BY <1>a, <2>2, <2>6 DEF SendNextTurn, SendIdlePersisted, SendActiveFollowUp,
       SendActiveSteer, SendActiveDeferred, Left
  <2> QED
    BY <2>3, <2>4, <2>5, <2>6
<1>2. CASE \E kind \in {"external", "agent"} : PromptAdmitted(kind)
  BY <1>2, <1>a DEF PromptAdmitted, Admit, Left, Single
<1>3. CASE \E j \in jobs : JobAdmitted(j)
  <2>1. PICK j \in jobs : JobAdmitted(j)
    BY <1>3
  <2>2. j.turn \in Left /\ turn'.text = j.turn.text /\ Left' \subseteq Left
    BY <2>1 DEF JobAdmitted, Admit, Left
  <2> QED
    BY <1>a, <2>2
<1>4. CASE \E j \in jobs : JobStarts(j)
  <2>1. PICK j \in jobs : JobStarts(j)
    BY <1>4
  <2> DEFINE r == [j EXCEPT !.phase = "ready"]
  <2>2. r.turn = j.turn /\ jobs' = (jobs \ {j}) \cup {r} /\ UNCHANGED <<scheduled, turn>>
    BY <2>1 DEF JobStarts, TypeOK, ScheduleType, Job
  <2> HIDE DEF r
  <2>3. Left' \subseteq Left
    BY <2>2 DEF Left
  <2> QED
    BY <1>a, <2>2, <2>3
<1>5. CASE \E j \in jobs : JobSkipped(j) \/ JobRefused(j)
  BY <1>5, <1>a DEF JobSkipped, JobRefused, Left
<1>6. CASE ScheduleMailbox \/ TurnFinishes
  <2>1. Left' = Left
    BY <1>6, DispatchLeft DEF ScheduleMailbox, TurnFinishes
  <2>2. turn' = turn \/ turn'.text = {}
    BY <1>6 DEF ScheduleMailbox, TurnFinishes, NoTurn
  <2> QED
    BY <1>a, <2>1, <2>2 DEF Single
<1>7. CASE \/ BeginTurn \/ BeginTurnFails \/ Request \/ AgentReturns \/ Interrupt
           \/ AgentCanceledByRebind \/ Release \/ ShutdownCloses
  <2>1. Left' = Left
    BY <1>7 DEF BeginTurn, BeginTurnFails, Request, RequestContinues, RequestStops,
       RequestReturns, AtRequest, AgentReturns, Interrupt, AgentCanceledByRebind, Release,
       ContextReleased, ShutdownCloses, Left
  <2>2. turn'.text = turn.text
    BY <1>7, <1>b DEF BeginTurn, BeginTurnFails, Request, RequestContinues, RequestStops,
       RequestReturns, AgentReturns, Interrupt, AgentCanceledByRebind, Release,
       ContextReleased, ShutdownCloses
  <2> QED
    BY <1>a, <2>1, <2>2
<1>8. CASE Boundary \/ DrainPops \/ DrainPersists
  BY <1>8, <1>a, BoundarySteps DEF Left
<1>9. CASE EndNormal
  <2>1. turn'.text = turn.text /\ UNCHANGED jobs
    BY <1>9, <1>b DEF EndNormal, AtEnd
  <2>2. QueueContinuationLocked \/ UNCHANGED scheduled
    BY <1>9 DEF EndNormal
  <2> QED
    BY <1>a, <1>c, <2>1, <2>2 DEF Left
<1>10. CASE EndCanceled \/ BindSession \/ ShutdownClears
  <2>1. turn'.text = turn.text
    BY <1>10, <1>b DEF EndCanceled, BindSession, ShutdownClears
  <2>2. Left' \subseteq Left
    BY <1>10 DEF EndCanceled, AtEnd, InvalidateContinuationLocked, BindSession,
       ShutdownClears, Left
  <2> QED
    BY <1>a, <2>1, <2>2
<1>11. CASE UNCHANGED vars
  BY <1>11, <1>a DEF vars, Left
<1> QED
  BY <1>1, <1>2, <1>3, <1>4, <1>5, <1>6, <1>7, <1>8, <1>9, <1>10, <1>11
     DEF Next, Environment, JobStep, TurnStep, TurnEnds

\* Every step moves a message from one place to the next, or settles it.
LEMMA SpotStep == TypeOK /\ PlaceInv /\ [Next]_vars => SpotInv'
<1> SUFFICES ASSUME TypeOK, PlaceInv, [Next]_vars PROVE SpotInv'
  OBVIOUS
<1> USE DEF PlaceInv
<1>a. ASSUME UNCHANGED <<steer, followUp, deferred, nextTurn, hand, scheduled, jobs, fate>>,
             turn' = turn \/ (turn.phase # "admitted" /\ turn'.phase # "admitted")
      PROVE  SpotInv'
  BY <1>a, QuietSpots DEF TurnText, InTurn
<1>b. ASSUME NEW phase, GoTo(phase) PROVE turn'.phase = phase
  BY <1>b DEF GoTo, TypeOK, TurnType, Turn
<1>1. CASE \E d \in Deliveries : Send(d)
  BY <1>1, SendSpots
<1>2. CASE \E kind \in {"external", "agent"} : PromptAdmitted(kind)
  <2>1. /\ UNCHANGED <<steer, followUp, deferred, nextTurn, hand, scheduled, jobs, fate>>
        /\ turn.phase = "none" /\ turn'.text = {}
    BY <1>2 DEF PromptAdmitted, Admit
  <2>2. TurnText = {} /\ TurnText' = {}
    BY <2>1 DEF TurnText, InTurn
  <2> QED
    BY <2>1, <2>2, QuietSpots
<1>3. CASE JobStep \/ \E j \in jobs : JobRefused(j)
  BY <1>3, JobSpots DEF JobStep
<1>4. CASE BeginTurn \/ BeginTurnFails
  BY <1>4, BeginSpots
<1>5. CASE Request \/ AgentReturns
  <2>1. turn.phase \in {"request", "agent"} /\ turn'.phase # "admitted"
    BY <1>5, <1>b DEF Request, RequestContinues, RequestStops, RequestReturns, AtRequest,
       AgentReturns, InTurn
  <2>2. UNCHANGED <<steer, followUp, deferred, nextTurn, hand, scheduled, jobs, fate>>
    BY <1>5 DEF Request, RequestContinues, RequestStops, RequestReturns, AtRequest,
       AgentReturns
  <2> QED
    BY <1>a, <2>1, <2>2
<1>6. CASE Interrupt \/ AgentCanceledByRebind \/ Release \/ ShutdownCloses
  BY <1>6, <1>a DEF Interrupt, AgentCanceledByRebind, Release, ContextReleased, ShutdownCloses
<1>7. CASE Boundary \/ DrainPops \/ DrainPersists
  <2>0. TurnText = {} /\ TurnText' = {} /\ UNCHANGED <<scheduled, jobs>>
    BY <1>7, BoundarySteps DEF TurnText, InTurn
  <2>1. CASE UNCHANGED <<steer, followUp, deferred, nextTurn, hand, fate, log>>
    BY <2>0, <2>1, QuietSpots
  <2>2. CASE turn.phase \notin PersistPhases /\ Pops /\ UNCHANGED <<fate, log>>
    <3>1. hand = <<>>
      BY <2>2 DEF HandInv, PersistPhases
    <3> QED
      BY <2>0, <2>2, <3>1, PopSpots DEF Pops
  <2>3. CASE /\ hand # <<>> /\ hand' = <<>> /\ UNCHANGED <<steer, followUp, deferred, nextTurn>>
             /\ Commit(Head(hand)) \/ CommitFails(Head(hand))
    <3>1. PICK f \in {"persisted", "lost"} : Settle({Head(hand).id}, f)
      BY <2>3 DEF Commit, CommitFails
    <3> QED
      BY <2>0, <2>3, <3>1, CommitSpots
  <2> QED
    BY <1>7, <2>1, <2>2, <2>3, BoundarySteps
<1>8. CASE EndNormal
  <2>1. /\ UNCHANGED <<steer, followUp, deferred, nextTurn, hand, jobs, fate>>
        /\ turn.phase = "end" /\ turn'.phase = "drain"
    BY <1>8, <1>b DEF EndNormal, AtEnd, InTurn
  <2>2. Texts(scheduled') = Texts(scheduled) /\ TurnsApart'
    <3>1. CASE QueueContinuationLocked
      BY <2>1, <3>1, QueueTexts DEF SpotInv
    <3>2. CASE UNCHANGED scheduled
      BY <2>1, <3>2 DEF SpotInv, TurnsApart
    <3> QED
      BY <1>8, <3>1, <3>2 DEF EndNormal
  <2>3. PICK w : Waits(w)
    BY DEF SpotInv
  <2>4. JobTexts' = JobTexts /\ TurnText = {} /\ TurnText' = {}
    BY <2>1 DEF JobTexts, TurnText, InTurn
  <2>5. Waits(w)'
    BY <2>1, <2>2, <2>3, <2>4 DEF Waits
  <2> QED
    BY <2>1, <2>2, <2>5 DEF SpotInv, QueuesApart
<1>9. CASE ScheduleMailbox \/ TurnFinishes
  <2>1. /\ DispatchNext /\ UNCHANGED <<steer, followUp, deferred, nextTurn, hand, fate>>
        /\ turn' = turn \/ (turn.phase = "finish" /\ turn'.phase = "none")
    BY <1>9 DEF ScheduleMailbox, TurnFinishes, InTurn, NoTurn
  <2>2. TurnText' = TurnText
    BY <2>1 DEF TurnText, InTurn
  <2> QED
    BY <2>1, <2>2, DispatchSpots
<1>10. CASE EndCanceled \/ BindSession \/ ShutdownClears
  BY <1>10, DropSpots
<1>11. CASE UNCHANGED vars
  BY <1>11, <1>a DEF vars
<1> QED
  BY <1>1, <1>2, <1>3, <1>4, <1>5, <1>6, <1>7, <1>8, <1>9, <1>10, <1>11
     DEF Next, Environment, TurnStep, TurnEnds

-----------------------------------------------------------------------------
\* The session entries.

\* Messages that settle otherwise do not touch the session.
LEMMA LogKept ==
    ASSUME TypeOK, LogInv, NEW ids, NEW f, Settle(ids, f), f # "persisted", UNCHANGED log,
           \A d \in ids : d \in Deliveries => fate[d] # "persisted"
    PROVE  LogInv'
BY DEF LogInv, Settle

\* A message that is committed was not committed before.
LEMMA LogAppended ==
    ASSUME TypeOK, LogInv, NEW d \in Deliveries, fate[d] # "persisted",
           Settle({d}, "persisted"), NEW e \in Entry, e.id = d, log' = Append(log, e)
    PROVE  LogInv'
<1>1. log \in Seq(Entry)
  BY DEF TypeOK, HistoryType
<1>2. Ids(log') = Ids(log) \cup {d}
  BY <1>1, IdsOf
<1>3. d \notin Ids(log)
  BY DEF LogInv
<1>4. Apart(log')
  BY <1>1, <1>3, ApartOf DEF LogInv
<1> QED
  BY <1>2, <1>4 DEF LogInv, Settle

\* Whatever waits was accepted and is not settled.
LEMMA WaitingQueued ==
    ASSUME SpotInv,
           NEW d \in Deliveries,
           \/ d \in Ids(steer) \cup Ids(followUp) \cup Ids(deferred) \cup Ids(nextTurn)
           \/ d \in Ids(hand) \cup Texts(scheduled) \cup JobTexts \cup TurnText
    PROVE  fate[d] = "queued"
<1>1. PICK w : Waits(w)
  BY DEF SpotInv
<1> QED
  BY <1>1 DEF Waits

\* A message enters the session when it settles as persisted.
LEMMA LogStep == TypeOK /\ PlaceInv /\ [Next]_vars => LogInv'
<1> SUFFICES ASSUME TypeOK, PlaceInv, [Next]_vars PROVE LogInv'
  OBVIOUS
<1> USE DEF PlaceInv
<1>a. ASSUME UNCHANGED <<fate, log>> PROVE LogInv'
  BY <1>a DEF LogInv
<1>1. CASE \E d \in Deliveries : Send(d)
  <2>1. PICK d \in Deliveries : Send(d)
    BY <1>1
  <2>2. PICK signal \in HandlerContexts \cup {0} :
          \/ SendUserIdle(d, signal)      \/ SendNextTurn(d, signal)
          \/ SendIdlePersisted(d, signal) \/ SendIdleTrigger(d, signal)
          \/ SendActiveFollowUp(d, signal) \/ SendActiveSteer(d, signal)
          \/ SendActiveDeferred(d, signal)
    BY <2>1 DEF Send
  <2>3. fate[d] = "unsent"
    BY <2>1, SendEnqueues DEF MayEnqueue
  <2>4. CASE SendIdlePersisted(d, signal)
    <3> DEFINE e == [id |-> d, queue |-> "direct", gen |-> generation,
                     sent |-> generation, stamp |-> stamp]
    <3>1. e \in Entry /\ e.id = d /\ log' = Append(log, e) /\ Settle({d}, "persisted")
      BY <2>4 DEF SendIdlePersisted, Entry, TypeOK, HostType, CounterType
    <3> HIDE DEF e
    <3> QED
      BY <2>3, <3>1, LogAppended
  <2>5. CASE \/ SendUserIdle(d, signal) \/ SendNextTurn(d, signal)
             \/ SendIdleTrigger(d, signal) \/ SendActiveFollowUp(d, signal)
             \/ SendActiveSteer(d, signal) \/ SendActiveDeferred(d, signal)
    <3>1. Settle({d}, "queued") /\ UNCHANGED log
      BY <2>5 DEF SendUserIdle, SendNextTurn, SendIdleTrigger, SendActiveFollowUp,
         SendActiveSteer, SendActiveDeferred
    <3> QED
      BY <2>3, <3>1, LogKept
  <2> QED
    BY <2>2, <2>4, <2>5
<1>2. CASE \/ \E kind \in {"external", "agent"} : PromptAdmitted(kind)
           \/ \E j \in jobs : JobStarts(j) \/ JobAdmitted(j)
           \/ Request \/ AgentReturns \/ Interrupt \/ AgentCanceledByRebind \/ Release
           \/ ShutdownCloses \/ ScheduleMailbox \/ TurnFinishes \/ EndNormal
  BY <1>2, <1>a DEF PromptAdmitted, Admit, JobStarts, JobAdmitted, Request,
     RequestContinues, RequestStops, RequestReturns, AtRequest, AgentReturns, Interrupt,
     AgentCanceledByRebind, Release, ContextReleased, ShutdownCloses, ScheduleMailbox,
     TurnFinishes, EndNormal, AtEnd
<1>3. CASE \E j \in jobs : JobSkipped(j) \/ JobRefused(j)
  <2>1. PICK j \in jobs : JobSkipped(j) \/ JobRefused(j)
    BY <1>3
  <2>2. PICK f \in {"dropped", "lost"} : Settle(j.turn.text, f) /\ UNCHANGED log
    BY <2>1 DEF JobSkipped, JobRefused
  <2>3. \A d \in j.turn.text : d \in Deliveries => fate[d] = "queued"
    BY WaitingQueued, JobTextsOf
  <2> QED
    BY <2>2, <2>3, LogKept
<1>4. CASE BeginTurn
  <2>1. turn.phase = "admitted" /\ TurnText = turn.text /\ turn.text \subseteq Deliveries
    BY <1>4, SpotTypes DEF BeginTurn, InTurn, TurnText
  <2>2. CASE turn.text = {} /\ UNCHANGED log
    BY <1>4, <2>2 DEF BeginTurn, LogInv, Settle
  <2>3. CASE \E d \in turn.text :
               log' = Append(log, [id |-> d, queue |-> "prompt", gen |-> generation,
                                   sent |-> turn.gen, stamp |-> 0])
    <3>1. PICK d \in turn.text :
               log' = Append(log, [id |-> d, queue |-> "prompt", gen |-> generation,
                                   sent |-> turn.gen, stamp |-> 0])
      BY <2>3
    <3> DEFINE e == [id |-> d, queue |-> "prompt", gen |-> generation,
                     sent |-> turn.gen, stamp |-> 0]
    <3>2. e \in Entry /\ e.id = d /\ log' = Append(log, e)
      BY <2>1, <3>1 DEF Entry, TypeOK, HostType, TurnType, Turn
    <3> HIDE DEF e
    <3>3. turn.text = {d}
      BY <3>1 DEF TextInv, Single
    <3>4. Settle({d}, "persisted") /\ fate[d] = "queued" /\ d \in Deliveries
      BY <1>4, <2>1, <3>1, <3>3, WaitingQueued DEF BeginTurn
    <3> QED
      BY <3>2, <3>4, LogAppended
  <2> QED
    BY <1>4, <2>2, <2>3 DEF BeginTurn
<1>5. CASE BeginTurnFails
  <2>1. TurnText = turn.text /\ Settle(turn.text, "lost") /\ UNCHANGED log
    BY <1>5 DEF BeginTurnFails, InTurn, TurnText
  <2>2. \A d \in turn.text : d \in Deliveries => fate[d] = "queued"
    BY <2>1, WaitingQueued
  <2> QED
    BY <2>1, <2>2, LogKept
<1>6. CASE Boundary \/ DrainPops \/ DrainPersists
  <2>1. CASE UNCHANGED <<fate, log>>
    BY <1>a, <2>1
  <2>0. \/ UNCHANGED <<fate, log>>
        \/ hand # <<>> /\ (Commit(Head(hand)) \/ CommitFails(Head(hand)))
    BY <1>6, BoundarySteps
  <2>2. CASE hand # <<>> /\ (Commit(Head(hand)) \/ CommitFails(Head(hand)))
    <3>1. hand \in Seq(Delivery) /\ Head(hand) \in Delivery
      BY <2>2, PopType DEF TypeOK, QueueType
    <3>2. Head(hand).id \in Deliveries /\ Head(hand).id \in Ids(hand)
      BY <2>2, <3>1, ElementsOf DEF Delivery, Ids
    <3>3. fate[Head(hand).id] = "queued"
      BY <3>2, WaitingQueued
    <3>4. CASE CommitFails(Head(hand))
      <4>1. Settle({Head(hand).id}, "lost") /\ UNCHANGED log
        BY <3>4 DEF CommitFails
      <4> QED
        BY <3>3, <4>1, LogKept
    <3>5. CASE Commit(Head(hand))
      <4> DEFINE h == Head(hand)
                 e == [id |-> h.id, queue |-> h.queue, gen |-> generation,
                       sent |-> h.gen, stamp |-> h.stamp]
      <4>1. e \in Entry /\ e.id = h.id
        BY <3>1 DEF Delivery, Entry, TypeOK, HostType
      <4>2. log' = Append(log, e) /\ Settle({h.id}, "persisted")
        BY <3>5 DEF Commit
      <4> HIDE DEF e
      <4> QED
        BY <3>2, <3>3, <4>1, <4>2, LogAppended
    <3> QED
      BY <2>2, <3>4, <3>5
  <2> QED
    BY <2>0, <2>1, <2>2
<1>7. CASE EndCanceled
  <2>1. /\ Settle(Ids(steer) \cup Ids(followUp) \cup Ids(deferred), "dropped")
        /\ UNCHANGED log
    BY <1>7 DEF EndCanceled, AtEnd
  <2>2. \A d \in Ids(steer) \cup Ids(followUp) \cup Ids(deferred) :
          d \in Deliveries => fate[d] = "queued"
    BY WaitingQueued
  <2> QED
    BY <2>1, <2>2, LogKept
<1>8. CASE BindSession \/ ShutdownClears
  <2> DEFINE ids == Ids(steer) \cup Ids(followUp) \cup Ids(deferred) \cup Ids(nextTurn)
                    \cup Texts(scheduled)
  <2>1. Settle(ids, "dropped") /\ UNCHANGED log
    BY <1>8 DEF BindSession, ShutdownClears
  <2>2. \A d \in ids : d \in Deliveries => fate[d] = "queued"
    BY WaitingQueued
  <2> HIDE DEF ids
  <2> QED
    BY <2>1, <2>2, LogKept
<1>9. CASE UNCHANGED vars
  BY <1>9, <1>a DEF vars
<1> QED
  BY <1>1, <1>2, <1>3, <1>4, <1>5, <1>6, <1>7, <1>8, <1>9
     DEF Next, Environment, JobStep, TurnStep, TurnEnds

\* Every message has its place in every reachable state.
LEMMA PlaceCorrect == Spec => []PlaceInv
<1>1. Init => PlaceInv
  <2> SUFFICES ASSUME Init PROVE PlaceInv
    OBVIOUS
  <2> USE DEF Init, NewHost, NoTurn
  <2>1. Ids(<<>>) = {} /\ Apart(<<>>) /\ Texts({}) = {} /\ JobTexts = {} /\ TurnText = {}
    BY DEF Ids, Elements, Apart, Texts, JobTexts, TurnText, InTurn
  <2>2. Waits([d \in Deliveries |-> "nowhere"])
    BY <2>1 DEF Waits, Spots
  <2>3. SpotInv
    BY <2>1, <2>2 DEF SpotInv, QueuesApart, TurnsApart
  <2>4. HandInv /\ TextInv /\ LogInv
    BY <2>1 DEF HandInv, TextInv, Left, Single, LogInv
  <2> QED
    BY <2>3, <2>4 DEF PlaceInv
<1>2. TypeOK /\ PlaceInv /\ [Next]_vars => PlaceInv'
  BY SpotStep, HandStep, TextStep, LogStep DEF PlaceInv
<1> QED
  BY <1>1, <1>2, TypeCorrect, PTL DEF Spec

\* The positions of a message in a queue: none, or one.
At(name, q, d) == {<<name, i>> : i \in {k \in DOMAIN q : q[k].id = d}}

\* In a queue with different ids a message has at most one position.
LEMMA AtOf ==
    ASSUME NEW q, Apart(q), NEW d, NEW name
    PROVE  /\ d \notin Ids(q) => At(name, q, d) = {}
           /\ d \in Ids(q) => \E x : At(name, q, d) = {x}
<1>1. ASSUME d \notin Ids(q) PROVE At(name, q, d) = {}
  BY <1>1 DEF At, Ids, Elements
<1>2. ASSUME d \in Ids(q) PROVE \E x : At(name, q, d) = {x}
  <2>1. PICK i \in DOMAIN q : q[i].id = d
    BY <1>2 DEF Ids, Elements
  <2>2. \A k \in DOMAIN q : q[k].id = d => k = i
    BY <2>1 DEF Apart
  <2>3. {k \in DOMAIN q : q[k].id = d} = {i}
    BY <2>1, <2>2
  <2>4. At(name, q, d) = {<<name, i>>}
    BY <2>3 DEF At
  <2> QED
    BY <2>4
<1> QED
  BY <1>1, <1>2

\* A queue with at most one element has different ids.
LEMMA ShortApart == TypeOK /\ HandInv => Apart(hand)
<1> SUFFICES ASSUME TypeOK, HandInv PROVE Apart(hand)
  OBVIOUS
<1>1. hand \in Seq(Delivery) /\ Len(hand) \in Nat /\ Len(hand) <= 1 /\ DOMAIN hand = 1 .. Len(hand)
  BY DEF TypeOK, QueueType, HandInv
<1>2. \A i, j \in DOMAIN hand : i = j
  BY <1>1
<1> QED
  BY <1>2 DEF Apart

\* A message waits in one place as long as it is queued, and in none otherwise.
LEMMA OnePlace ==
    ASSUME TypeOK, PlaceInv, NEW d \in Deliveries
    PROVE  IF fate[d] = "queued" THEN \E x : Places(d) = {x} ELSE Places(d) = {}
<1> USE DEF PlaceInv
<1>1. PICK w : Waits(w)
  BY DEF SpotInv
<1> DEFINE P1 == At("steer", steer, d)
           P2 == At("followUp", followUp, d)
           P3 == At("deferred", deferred, d)
           P4 == At("nextTurn", nextTurn, d)
           P5 == At("hand", hand, d)
           P6 == {<<"scheduled", t.stamp>> : t \in {u \in scheduled : d \in u.text}}
           P7 == {<<"job", j.turn.stamp>> : j \in {k \in jobs : d \in k.turn.text}}
           P8 == {<<"turn", n>> : n \in {m \in {turn.n} : InTurn("admitted") /\ d \in turn.text}}
<1>2. Places(d) = P1 \cup P2 \cup P3 \cup P4 \cup P5 \cup P6 \cup P7 \cup P8
  BY DEF Places, At
<1>3. QueuesApart /\ TurnsApart /\ Apart(hand)
  BY ShortApart DEF SpotInv
<1>4. /\ d \in Ids(steer)       <=> w[d] = "steer"
      /\ d \in Ids(followUp)    <=> w[d] = "followUp"
      /\ d \in Ids(deferred)    <=> w[d] = "deferred"
      /\ d \in Ids(nextTurn)    <=> w[d] = "nextTurn"
      /\ d \in Ids(hand)        <=> w[d] = "hand"
      /\ d \in Texts(scheduled) <=> w[d] = "scheduled"
      /\ d \in JobTexts         <=> w[d] = "job"
      /\ d \in TurnText         <=> w[d] = "turn"
      /\ fate[d] = "queued"     <=> w[d] # "nowhere"
      /\ w[d] \in Spots \cup {"nowhere"}
  BY <1>1 DEF Waits
<1>5. /\ IF w[d] = "steer"    THEN \E x : P1 = {x} ELSE P1 = {}
      /\ IF w[d] = "followUp" THEN \E x : P2 = {x} ELSE P2 = {}
      /\ IF w[d] = "deferred" THEN \E x : P3 = {x} ELSE P3 = {}
      /\ IF w[d] = "nextTurn" THEN \E x : P4 = {x} ELSE P4 = {}
      /\ IF w[d] = "hand"     THEN \E x : P5 = {x} ELSE P5 = {}
  BY <1>3, <1>4, AtOf DEF QueuesApart
<1>6. IF w[d] = "scheduled" THEN \E x : P6 = {x} ELSE P6 = {}
  <2>1. CASE d \in Texts(scheduled)
    <3>1. PICK t \in scheduled : d \in t.text
      BY <2>1 DEF Texts
    <3>2. {u \in scheduled : d \in u.text} = {t}
      BY <1>3, <3>1 DEF TurnsApart
    <3>3. P6 = {<<"scheduled", t.stamp>>}
      BY <3>2
    <3> QED
      BY <1>4, <2>1, <3>3
  <2>2. CASE d \notin Texts(scheduled)
    BY <1>4, <2>2 DEF Texts
  <2> QED
    BY <2>1, <2>2
<1>7. IF w[d] = "job" THEN \E x : P7 = {x} ELSE P7 = {}
  <2>1. CASE d \in JobTexts
    <3>1. PICK j \in jobs : d \in j.turn.text
      BY <2>1, JobTextsOf
    <3>2. {k \in jobs : d \in k.turn.text} = {j}
      BY <1>3, <3>1 DEF TurnsApart
    <3>3. P7 = {<<"job", j.turn.stamp>>}
      BY <3>2
    <3> QED
      BY <1>4, <2>1, <3>3
  <2>2. CASE d \notin JobTexts
    BY <1>4, <2>2, JobTextsOf
  <2> QED
    BY <2>1, <2>2
<1>8. IF w[d] = "turn" THEN \E x : P8 = {x} ELSE P8 = {}
  <2>1. CASE d \in TurnText
    <3>1. {m \in {turn.n} : InTurn("admitted") /\ d \in turn.text} = {turn.n}
      BY <2>1 DEF TurnText
    <3>2. P8 = {<<"turn", turn.n>>}
      BY <3>1
    <3> QED
      BY <1>4, <2>1, <3>2
  <2>2. CASE d \notin TurnText
    BY <1>4, <2>2 DEF TurnText
  <2> QED
    BY <2>1, <2>2
<1> HIDE DEF P1, P2, P3, P4, P5, P6, P7, P8
<1>9. CASE w[d] = "nowhere"
  BY <1>2, <1>4, <1>5, <1>6, <1>7, <1>8, <1>9
<1>10. CASE w[d] \in Spots
  <2>1. fate[d] = "queued"
    BY <1>4, <1>10 DEF Spots
  <2>2. \E x : Places(d) = {x}
    <3>1. CASE w[d] = "steer"
      BY <1>2, <1>5, <1>6, <1>7, <1>8, <3>1
    <3>2. CASE w[d] = "followUp"
      BY <1>2, <1>5, <1>6, <1>7, <1>8, <3>2
    <3>3. CASE w[d] = "deferred"
      BY <1>2, <1>5, <1>6, <1>7, <1>8, <3>3
    <3>4. CASE w[d] = "nextTurn"
      BY <1>2, <1>5, <1>6, <1>7, <1>8, <3>4
    <3>5. CASE w[d] = "hand"
      BY <1>2, <1>5, <1>6, <1>7, <1>8, <3>5
    <3>6. CASE w[d] = "scheduled"
      BY <1>2, <1>5, <1>6, <1>7, <1>8, <3>6
    <3>7. CASE w[d] = "job"
      BY <1>2, <1>5, <1>6, <1>7, <1>8, <3>7
    <3>8. CASE w[d] = "turn"
      BY <1>2, <1>5, <1>6, <1>7, <1>8, <3>8
    <3> QED
      BY <1>10, <3>1, <3>2, <3>3, <3>4, <3>5, <3>6, <3>7, <3>8 DEF Spots
  <2> QED
    BY <2>1, <2>2
<1> QED
  BY <1>4, <1>9, <1>10

\* Whatever the interleaving of sends, boundaries, stale jobs, interrupts, rebinds
\* and shutdown: an accepted message is in one place of the mailbox until it
\* settles, and it is committed to the session once if it was persisted, else never.
THEOREM NothingLostOrDuplicatedCorrect == Spec => []NothingLostOrDuplicated
<1>1. TypeOK /\ PlaceInv => NothingLostOrDuplicated
  <2> SUFFICES ASSUME TypeOK, PlaceInv, NEW d \in Deliveries
               PROVE  /\ Cardinality(Places(d)) = IF fate[d] = "queued" THEN 1 ELSE 0
                      /\ Cardinality(Commits(d)) = IF fate[d] = "persisted" THEN 1 ELSE 0
    BY DEF NothingLostOrDuplicated
  <2>1. Cardinality(Places(d)) = IF fate[d] = "queued" THEN 1 ELSE 0
    BY OnePlace, FS_EmptySet, FS_Singleton
  <2>2. IF fate[d] = "persisted" THEN \E x : Commits(d) = {x} ELSE Commits(d) = {}
    <3>1. CASE d \in Ids(log)
      <4>1. PICK i \in DOMAIN log : log[i].id = d
        BY <3>1 DEF Ids, Elements
      <4>2. Commits(d) = {i}
        BY <4>1 DEF Commits, PlaceInv, LogInv, Apart
      <4> QED
        BY <3>1, <4>2 DEF PlaceInv, LogInv
    <3>2. CASE d \notin Ids(log)
      <4>1. Commits(d) = {}
        BY <3>2 DEF Commits, Ids, Elements
      <4> QED
        BY <3>2, <4>1 DEF PlaceInv, LogInv
    <3> QED
      BY <3>1, <3>2
  <2>3. Cardinality(Commits(d)) = IF fate[d] = "persisted" THEN 1 ELSE 0
    BY <2>2, FS_EmptySet, FS_Singleton
  <2> QED
    BY <2>1, <2>3
<1> QED
  BY <1>1, PlaceCorrect, TypeCorrect, PTL

-----------------------------------------------------------------------------
\* The order of the messages of one queue, from the send to the session.

\* A queue holds its own messages in the order of their stamps, all before s.
Line(q, name, s) ==
    /\ \A x \in Elements(q) : x.queue = name /\ x.stamp < s
    /\ \A i, j \in DOMAIN q : i < j => q[i].stamp < q[j].stamp

\* What has left a queue was sent before what waits in it.
Behind(q, name, gone) ==
    \A x \in Elements(q), g \in gone : g.queue = name => g.stamp < x.stamp

Gone == Elements(hand) \cup Elements(log)

InLine(q, name) == Line(q, name, stamp) /\ Behind(q, name, Gone)

LinesInv ==
    /\ InLine(steer, "steer")       /\ InLine(followUp, "followUp")
    /\ InLine(deferred, "deferred") /\ InLine(nextTurn, "nextTurn")
GoneInv  == \A g \in Gone : g.queue \in Queues => g.stamp < stamp
HandLine ==
    \A h \in Elements(hand) :
        h.queue \in Queues /\ \A e \in Elements(log) : e.queue = h.queue => e.stamp < h.stamp
OrderInv == LinesInv /\ GoneInv /\ HandLine /\ FifoPerQueue

\* A queue keeps its order when a message with the next stamp is appended.
LEMMA LineAppend ==
    ASSUME NEW q \in Seq(Delivery), NEW name, NEW s \in Nat, Line(q, name, s),
           NEW x \in Delivery, x.queue = name, x.stamp = s
    PROVE  Line(Append(q, x), name, s + 1)
<1>1. \A y \in Elements(q) : y.queue = name /\ y.stamp < s /\ y.stamp \in Nat
  <2>1. \A i \in DOMAIN q : q[i] \in Delivery
    OBVIOUS
  <2> QED
    BY <2>1 DEF Line, Elements, Delivery
<1>2. \A y \in Elements(Append(q, x)) : y.queue = name /\ y.stamp < s + 1
  BY <1>1, ElementsOf
<1>3. /\ DOMAIN Append(q, x) = 1 .. (Len(q) + 1) /\ DOMAIN q = 1 .. Len(q) /\ Len(q) \in Nat
      /\ \A i \in 1 .. Len(q) : Append(q, x)[i] = q[i] /\ q[i] \in Elements(q)
      /\ Append(q, x)[Len(q) + 1] = x
  BY DEF Elements
<1>4. ASSUME NEW i \in DOMAIN Append(q, x), NEW j \in DOMAIN Append(q, x), i < j
      PROVE  Append(q, x)[i].stamp < Append(q, x)[j].stamp
  <2>1. i \in 1 .. Len(q)
    BY <1>3, <1>4
  <2>2. CASE j \in 1 .. Len(q)
    BY <1>3, <1>4, <2>1, <2>2 DEF Line
  <2>3. CASE j = Len(q) + 1
    BY <1>1, <1>3, <2>1, <2>3
  <2> QED
    BY <1>3, <2>2, <2>3
<1> QED
  BY <1>2, <1>4 DEF Line

\* The head of a queue was sent before the rest, which keeps its order.
LEMMA LinePop ==
    ASSUME NEW q \in Seq(Delivery), NEW name, NEW s \in Nat, Line(q, name, s), q # <<>>
    PROVE  /\ Line(Tail(q), name, s)
           /\ Head(q).queue = name /\ Head(q).stamp < s
           /\ \A x \in Elements(Tail(q)) : Head(q).stamp < x.stamp
           /\ Elements(Tail(q)) \subseteq Elements(q) /\ Head(q) \in Elements(q)
<1>1. Head(q) \in Elements(q) /\ Elements(Tail(q)) \subseteq Elements(q)
  BY ElementsOf
<1>2. /\ DOMAIN Tail(q) = 1 .. (Len(q) - 1) /\ Head(q) = q[1] /\ 1 \in DOMAIN q
      /\ \A i \in DOMAIN Tail(q) :
            Tail(q)[i] = q[i + 1] /\ i + 1 \in DOMAIN q /\ i \in Nat /\ 1 < i + 1
      /\ DOMAIN q = 1 .. Len(q) /\ Len(q) \in Nat /\ Len(q) > 0
  OBVIOUS
<1>3. ASSUME NEW x \in Elements(Tail(q)) PROVE Head(q).stamp < x.stamp
  <2>1. PICK i \in DOMAIN Tail(q) : x = Tail(q)[i]
    BY DEF Elements
  <2> QED
    BY <1>2, <2>1 DEF Line
<1>4. ASSUME NEW i \in DOMAIN Tail(q), NEW j \in DOMAIN Tail(q), i < j
      PROVE  Tail(q)[i].stamp < Tail(q)[j].stamp
  <2>1. i + 1 < j + 1
    BY <1>2, <1>4
  <2> QED
    BY <1>2, <2>1 DEF Line
<1>5. Line(Tail(q), name, s)
  BY <1>1, <1>4 DEF Line
<1> QED
  BY <1>1, <1>3, <1>5 DEF Line

\* The stamps of what waits and of what has left are numbers.
LEMMA StampTypes ==
    ASSUME TypeOK
    PROVE  /\ \A q \in {steer, followUp, deferred, nextTurn, hand} :
                 q \in Seq(Delivery) /\ \A x \in Elements(q) : x \in Delivery /\ x.stamp \in Nat
           /\ \A g \in Gone : g.stamp \in Nat
           /\ stamp \in Nat
<1>1. ASSUME NEW q \in Seq(Delivery) PROVE \A x \in Elements(q) : x \in Delivery /\ x.stamp \in Nat
  <2>1. \A i \in DOMAIN q : q[i] \in Delivery
    OBVIOUS
  <2> QED
    BY <2>1 DEF Elements, Delivery
<1>2. \A e \in Elements(log) : e.stamp \in Nat
  <2>1. \A i \in DOMAIN log : log[i] \in Entry
    BY DEF TypeOK, HistoryType
  <2> QED
    BY <2>1 DEF Elements, Entry
<1> QED
  BY <1>1, <1>2 DEF TypeOK, QueueType, CounterType, Gone

\* A step that only lets the stamp grow, or empties queues, keeps the order.
LEMMA OrderKept ==
    ASSUME TypeOK, OrderInv, stamp' \in {stamp, stamp + 1}, UNCHANGED <<hand, log>>,
           steer' \in {steer, <<>>}, followUp' \in {followUp, <<>>},
           deferred' \in {deferred, <<>>}, nextTurn' \in {nextTurn, <<>>}
    PROVE  OrderInv'
<1>1. Gone' = Gone
  BY DEF Gone
<1>2. ASSUME NEW q \in {steer, followUp, deferred, nextTurn}, NEW name, InLine(q, name),
             NEW r \in {q, <<>>}
      PROVE  Line(r, name, stamp') /\ Behind(r, name, Gone')
  <2>1. CASE r = q
    BY <1>1, <1>2, <2>1, StampTypes DEF InLine, Line, Behind
  <2>2. CASE r = <<>>
    BY <2>2 DEF Line, Behind, Elements
  <2> QED
    BY <2>1, <2>2
<1>3. LinesInv'
  BY <1>2 DEF OrderInv, LinesInv, InLine
<1>4. GoneInv' /\ HandLine' /\ FifoPerQueue'
  BY <1>1, StampTypes DEF OrderInv, GoneInv, HandLine, FifoPerQueue
<1> QED
  BY <1>3, <1>4 DEF OrderInv

\* An entry that was committed from outside the queues keeps the order.
LEMMA OrderDirect ==
    ASSUME TypeOK, OrderInv, stamp' \in {stamp, stamp + 1},
           UNCHANGED <<steer, followUp, deferred, nextTurn, hand>>,
           NEW e \in Entry, e.queue \notin Queues, log' = Append(log, e)
    PROVE  OrderInv'
<1>1. log \in Seq(Entry)
  BY DEF TypeOK, HistoryType
<1>2. Elements(log') = Elements(log) \cup {e} /\ Gone' = Gone \cup {e}
  BY <1>1, ElementsOf DEF Gone
<1>3. ASSUME NEW q \in {steer, followUp, deferred, nextTurn}, NEW name \in Queues, InLine(q, name)
      PROVE  Line(q, name, stamp') /\ Behind(q, name, Gone')
  BY <1>2, <1>3, StampTypes DEF InLine, Line, Behind
<1>4. LinesInv'
  BY <1>3 DEF OrderInv, LinesInv, InLine, Queues
<1>5. GoneInv' /\ HandLine'
  BY <1>2, StampTypes DEF OrderInv, GoneInv, HandLine
<1>6. FifoPerQueue'
  <2>1. /\ DOMAIN log' = 1 .. (Len(log) + 1) /\ DOMAIN log = 1 .. Len(log) /\ Len(log) \in Nat
        /\ \A i \in 1 .. Len(log) : log'[i] = log[i]
        /\ log'[Len(log) + 1] = e
    BY <1>1
  <2> SUFFICES ASSUME NEW i \in DOMAIN log', NEW j \in DOMAIN log',
                      i < j, log'[i].queue = log'[j].queue, log'[i].queue \in Queues
               PROVE  log'[i].stamp < log'[j].stamp
    BY DEF FifoPerQueue
  <2>2. i \in DOMAIN log /\ j \in DOMAIN log
    BY <2>1
  <2> QED
    BY <2>1, <2>2 DEF OrderInv, FifoPerQueue
<1> QED
  BY <1>4, <1>5, <1>6 DEF OrderInv

\* A message that is sent is stamped after all that were sent before it.
LEMMA OrderSend ==
    ASSUME TypeOK, OrderInv, stamp' = stamp + 1, UNCHANGED <<hand, log>>,
           NEW x \in Delivery, x.stamp = stamp,
           \/ /\ x.queue = "steer" /\ steer' = Append(steer, x)
              /\ UNCHANGED <<followUp, deferred, nextTurn>>
           \/ /\ x.queue = "followUp" /\ followUp' = Append(followUp, x)
              /\ UNCHANGED <<steer, deferred, nextTurn>>
           \/ /\ x.queue = "deferred" /\ deferred' = Append(deferred, x)
              /\ UNCHANGED <<steer, followUp, nextTurn>>
           \/ /\ x.queue = "nextTurn" /\ nextTurn' = Append(nextTurn, x)
              /\ UNCHANGED <<steer, followUp, deferred>>
    PROVE  OrderInv'
<1>1. Gone' = Gone /\ stamp \in Nat
  BY StampTypes DEF Gone
<1>2. ASSUME NEW q \in {steer, followUp, deferred, nextTurn}, NEW name, InLine(q, name)
      PROVE  Line(q, name, stamp') /\ Behind(q, name, Gone')
  BY <1>1, <1>2, StampTypes DEF InLine, Line, Behind
<1>3. ASSUME NEW q \in {steer, followUp, deferred, nextTurn}, NEW name \in Queues, InLine(q, name),
             x.queue = name
      PROVE  Line(Append(q, x), name, stamp') /\ Behind(Append(q, x), name, Gone')
  <2>1. q \in Seq(Delivery)
    BY StampTypes
  <2>2. Line(Append(q, x), name, stamp')
    BY <1>1, <1>3, <2>1, LineAppend DEF InLine
  <2>3. Elements(Append(q, x)) = Elements(q) \cup {x}
    BY <2>1, ElementsOf
  <2>4. Behind(Append(q, x), name, Gone')
    BY <1>1, <1>3, <2>3 DEF InLine, Behind, OrderInv, GoneInv
  <2> QED
    BY <2>2, <2>4
<1>4. LinesInv'
  BY <1>2, <1>3 DEF OrderInv, LinesInv, InLine, Queues
<1>5. GoneInv' /\ HandLine' /\ FifoPerQueue'
  BY <1>1, StampTypes DEF OrderInv, GoneInv, HandLine, FifoPerQueue
<1> QED
  BY <1>4, <1>5 DEF OrderInv

\* A pop takes the oldest message of its queue, younger than all that left before.
LEMMA OrderPop ==
    ASSUME TypeOK, OrderInv, hand = <<>>, Pops, UNCHANGED <<stamp, log>>
    PROVE  OrderInv'
<1>1. Gone = Elements(log) /\ stamp \in Nat
  BY StampTypes DEF Gone, Elements
<1>2. ASSUME NEW x, hand' = <<x>>
      PROVE  Elements(hand') = {x} /\ Gone' = Gone \cup {x}
  BY <1>1, <1>2 DEF Elements, Gone
<1>3. ASSUME NEW q \in {steer, followUp, deferred, nextTurn}, NEW name \in Queues,
             InLine(q, name), q # <<>>, hand' = <<Head(q)>>
      PROVE  /\ Line(Tail(q), name, stamp') /\ Behind(Tail(q), name, Gone')
             /\ GoneInv' /\ HandLine' /\ Head(q).queue = name
             /\ Head(q).stamp \in Nat /\ Gone' = Gone \cup {Head(q)}
  <2>1. q \in Seq(Delivery)
    BY StampTypes
  <2>2. /\ Line(Tail(q), name, stamp)
        /\ Head(q).queue = name /\ Head(q).stamp < stamp
        /\ \A x \in Elements(Tail(q)) : Head(q).stamp < x.stamp
        /\ Elements(Tail(q)) \subseteq Elements(q) /\ Head(q) \in Elements(q)
    BY <1>1, <1>3, <2>1, LinePop DEF InLine
  <2> DEFINE h == Head(q)
  <2>3. /\ h \in Elements(q) /\ h.queue = name /\ h.stamp < stamp /\ h.stamp \in Nat
        /\ hand' = <<h>> /\ \A x \in Elements(Tail(q)) : h.stamp < x.stamp
    BY <1>3, <2>2, StampTypes
  <2> HIDE DEF h
  <2>4. Elements(hand') = {h} /\ Gone' = Gone \cup {h}
    BY <1>2, <2>3
  <2>5. Behind(Tail(q), name, Gone')
    BY <1>3, <2>2, <2>3, <2>4 DEF InLine, Behind
  <2>6. GoneInv'
    BY <2>3, <2>4 DEF OrderInv, GoneInv
  <2>7. HandLine'
    BY <1>1, <1>3, <2>3, <2>4 DEF HandLine, InLine, Behind
  <2> QED
    BY <2>2, <2>3, <2>4, <2>5, <2>6, <2>7 DEF h
<1>4. ASSUME NEW h, Gone' = Gone \cup {h},
             NEW q \in {steer, followUp, deferred, nextTurn}, NEW name, InLine(q, name),
             h.queue # name
      PROVE  Line(q, name, stamp') /\ Behind(q, name, Gone')
  BY <1>4 DEF InLine, Behind
<1>5. LinesInv' /\ GoneInv' /\ HandLine'
  <2>1. CASE /\ steer # <<>> /\ hand' = <<Head(steer)>> /\ steer' = Tail(steer)
             /\ UNCHANGED <<followUp, deferred, nextTurn>>
    BY <1>3, <1>4, <2>1 DEF OrderInv, LinesInv, InLine, Queues
  <2>2. CASE /\ followUp # <<>> /\ hand' = <<Head(followUp)>> /\ followUp' = Tail(followUp)
             /\ UNCHANGED <<steer, deferred, nextTurn>>
    BY <1>3, <1>4, <2>2 DEF OrderInv, LinesInv, InLine, Queues
  <2>3. CASE /\ deferred # <<>> /\ hand' = <<Head(deferred)>> /\ deferred' = Tail(deferred)
             /\ UNCHANGED <<steer, followUp, nextTurn>>
    BY <1>3, <1>4, <2>3 DEF OrderInv, LinesInv, InLine, Queues
  <2>4. CASE /\ nextTurn # <<>> /\ hand' = <<Head(nextTurn)>> /\ nextTurn' = Tail(nextTurn)
             /\ UNCHANGED <<steer, followUp, deferred>>
    BY <1>3, <1>4, <2>4 DEF OrderInv, LinesInv, InLine, Queues
  <2> QED
    BY <2>1, <2>2, <2>3, <2>4 DEF Pops
<1> QED
  BY <1>5 DEF OrderInv, FifoPerQueue

\* The delivery in hand is committed after all of its queue, or is gone.
LEMMA OrderCommit ==
    ASSUME TypeOK, HandInv, OrderInv, UNCHANGED <<stamp, steer, followUp, deferred, nextTurn>>,
           hand # <<>>, hand' = <<>>, Commit(Head(hand)) \/ CommitFails(Head(hand))
    PROVE  OrderInv'
<1>1. Elements(hand') = {} /\ Head(hand) \in Elements(hand) /\ Head(hand) \in Delivery
  BY StampTypes, ElementsOf, PopType DEF Elements
<1>2. CASE CommitFails(Head(hand))
  <2>1. Gone' \subseteq Gone /\ UNCHANGED log
    BY <1>1, <1>2 DEF CommitFails, Gone
  <2> QED
    BY <1>1, <2>1 DEF OrderInv, LinesInv, InLine, Behind, GoneInv, HandLine, FifoPerQueue
<1>3. CASE Commit(Head(hand))
  <2> DEFINE h == Head(hand)
             e == [id |-> h.id, queue |-> h.queue, gen |-> generation,
                   sent |-> h.gen, stamp |-> h.stamp]
  <2>1. e \in Entry /\ e.queue = h.queue /\ e.stamp = h.stamp /\ log' = Append(log, e)
    BY <1>1, <1>3 DEF Commit, Delivery, Entry, TypeOK, HostType
  <2>2. h \in Elements(hand) /\ h.stamp \in Nat /\ h \in Gone
    BY <1>1, StampTypes DEF Gone
  <2> HIDE DEF h, e
  <2>3. log \in Seq(Entry)
    BY DEF TypeOK, HistoryType
  <2>4. Elements(log') = Elements(log) \cup {e}
    BY <2>1, <2>3, ElementsOf
  <2>5. \A g \in Gone' : \E f \in Gone : f.queue = g.queue /\ f.stamp = g.stamp
    BY <1>1, <2>1, <2>2, <2>4 DEF Gone
  <2>6. LinesInv'
    BY <2>5 DEF OrderInv, LinesInv, InLine, Behind
  <2>7. GoneInv' /\ HandLine'
    BY <1>1, <2>5 DEF OrderInv, GoneInv, HandLine
  <2>8. \A f \in Elements(log) : f.queue = e.queue => f.stamp < e.stamp
    BY <2>1, <2>2 DEF OrderInv, HandLine
  <2>9. FifoPerQueue'
    <3>1. /\ DOMAIN log' = 1 .. (Len(log) + 1) /\ DOMAIN log = 1 .. Len(log) /\ Len(log) \in Nat
          /\ \A i \in 1 .. Len(log) : log'[i] = log[i] /\ log[i] \in Elements(log)
          /\ log'[Len(log) + 1] = e
      BY <2>1, <2>3 DEF Elements
    <3> SUFFICES ASSUME NEW i \in DOMAIN log', NEW j \in DOMAIN log',
                        i < j, log'[i].queue = log'[j].queue, log'[i].queue \in Queues
                 PROVE  log'[i].stamp < log'[j].stamp
      BY DEF FifoPerQueue
    <3>2. i \in DOMAIN log
      BY <3>1
    <3>3. CASE j \in DOMAIN log
      BY <3>1, <3>2, <3>3 DEF OrderInv, FifoPerQueue
    <3>4. CASE j = Len(log) + 1
      BY <2>8, <3>1, <3>2, <3>4
    <3> QED
      BY <3>1, <3>3, <3>4
  <2> QED
    BY <2>6, <2>7, <2>9 DEF OrderInv
<1> QED
  BY <1>2, <1>3

\* Every step keeps the messages of a queue in the order they were sent.
LEMMA OrderStep == TypeOK /\ HandInv /\ OrderInv /\ [Next]_vars => OrderInv'
<1> SUFFICES ASSUME TypeOK, HandInv, OrderInv, [Next]_vars PROVE OrderInv'
  OBVIOUS
<1>a. ASSUME UNCHANGED <<stamp, steer, followUp, deferred, nextTurn, hand, log>> PROVE OrderInv'
  BY <1>a, OrderKept
<1>1. CASE \E d \in Deliveries : Send(d)
  <2>1. PICK d \in Deliveries : Send(d)
    BY <1>1
  <2>2. PICK signal \in HandlerContexts \cup {0} :
          \/ SendUserIdle(d, signal)      \/ SendNextTurn(d, signal)
          \/ SendIdlePersisted(d, signal) \/ SendIdleTrigger(d, signal)
          \/ SendActiveFollowUp(d, signal) \/ SendActiveSteer(d, signal)
          \/ SendActiveDeferred(d, signal)
    BY <2>1 DEF Send
  <2>3. stamp' = stamp + 1 /\ UNCHANGED hand
    BY <2>1, SendEnqueues DEF MayEnqueue
  <2>4. signal \in Nat
    BY DEF HandlerContexts, TypeOK, TurnType
  <2>5. CASE SendUserIdle(d, signal)
    BY <2>3, <2>5, OrderKept DEF SendUserIdle
  <2>6. CASE SendIdlePersisted(d, signal)
    <3> DEFINE e == [id |-> d, queue |-> "direct", gen |-> generation,
                     sent |-> generation, stamp |-> stamp]
    <3>1. e \in Entry /\ e.queue \notin Queues /\ log' = Append(log, e)
      BY <2>6 DEF SendIdlePersisted, Entry, TypeOK, HostType, CounterType, Queues
    <3> HIDE DEF e
    <3> QED
      BY <2>3, <2>6, <3>1, OrderDirect DEF SendIdlePersisted
  <2>7. ASSUME NEW name \in Queues, NEW continue \in BOOLEAN, NEW s \in Nat
        PROVE  LET x == NewDelivery(d, name, continue, s)
               IN  x \in Delivery /\ x.queue = name /\ x.stamp = stamp
    BY DeliveryType DEF TypeOK, NewDelivery
  <2>8. CASE SendNextTurn(d, signal)
    <3> DEFINE x == NewDelivery(d, "nextTurn", FALSE, 0)
    <3>1. x \in Delivery /\ x.queue = "nextTurn" /\ x.stamp = stamp
      BY <2>7 DEF Queues
    <3>2. /\ nextTurn' = Append(nextTurn, x)
          /\ UNCHANGED <<steer, followUp, deferred, log>>
      BY <2>8 DEF SendNextTurn
    <3> HIDE DEF x
    <3> QED
      BY <2>3, <3>1, <3>2, OrderSend
  <2>9. CASE SendActiveDeferred(d, signal)
    <3> DEFINE x == NewDelivery(d, "deferred", FALSE, signal)
    <3>1. x \in Delivery /\ x.queue = "deferred" /\ x.stamp = stamp
      BY <2>4, <2>7 DEF Queues
    <3>2. /\ deferred' = Append(deferred, x)
          /\ UNCHANGED <<steer, followUp, nextTurn, log>>
      BY <2>9 DEF SendActiveDeferred
    <3> HIDE DEF x
    <3> QED
      BY <2>3, <3>1, <3>2, OrderSend
  <2>10. CASE SendActiveFollowUp(d, signal)
    <3> DEFINE x == NewDelivery(d, "followUp", TRUE, signal)
    <3>1. x \in Delivery /\ x.queue = "followUp" /\ x.stamp = stamp
      BY <2>4, <2>7 DEF Queues
    <3>2. /\ followUp' = Append(followUp, x)
          /\ UNCHANGED <<steer, deferred, nextTurn, log>>
      BY <2>10 DEF SendActiveFollowUp
    <3> HIDE DEF x
    <3> QED
      BY <2>3, <3>1, <3>2, OrderSend
  <2>11. CASE SendIdleTrigger(d, signal) \/ SendActiveSteer(d, signal)
    <3> DEFINE x == NewDelivery(d, "steer", TRUE, signal)
    <3>1. x \in Delivery /\ x.queue = "steer" /\ x.stamp = stamp
      BY <2>4, <2>7 DEF Queues
    <3>2. /\ steer' = Append(steer, x)
          /\ UNCHANGED <<followUp, deferred, nextTurn, log>>
      BY <2>11 DEF SendIdleTrigger, SendActiveSteer
    <3> HIDE DEF x
    <3> QED
      BY <2>3, <3>1, <3>2, OrderSend
  <2> QED
    BY <2>2, <2>5, <2>6, <2>8, <2>9, <2>10, <2>11
<1>2. CASE \/ \E kind \in {"external", "agent"} : PromptAdmitted(kind)
           \/ \E j \in jobs : JobStarts(j) \/ JobAdmitted(j) \/ JobSkipped(j) \/ JobRefused(j)
           \/ Request \/ AgentReturns \/ Interrupt \/ AgentCanceledByRebind \/ Release
           \/ ShutdownCloses \/ ScheduleMailbox \/ TurnFinishes \/ BeginTurnFails
  BY <1>2, <1>a DEF PromptAdmitted, Admit, JobStarts, JobAdmitted, JobSkipped, JobRefused,
     Request, RequestContinues, RequestStops, RequestReturns, AtRequest, AgentReturns,
     Interrupt, AgentCanceledByRebind, Release, ContextReleased, ShutdownCloses,
     ScheduleMailbox, TurnFinishes, BeginTurnFails, Fault
<1>3. CASE BeginTurn
  <2>1. UNCHANGED <<stamp, steer, followUp, deferred, nextTurn, hand>>
    BY <1>3 DEF BeginTurn
  <2>2. CASE UNCHANGED log
    BY <1>a, <2>1, <2>2
  <2>3. CASE \E d \in turn.text :
               log' = Append(log, [id |-> d, queue |-> "prompt", gen |-> generation,
                                   sent |-> turn.gen, stamp |-> 0])
    <3>1. PICK d \in turn.text :
               log' = Append(log, [id |-> d, queue |-> "prompt", gen |-> generation,
                                   sent |-> turn.gen, stamp |-> 0])
      BY <2>3
    <3> DEFINE e == [id |-> d, queue |-> "prompt", gen |-> generation,
                     sent |-> turn.gen, stamp |-> 0]
    <3>2. e \in Entry /\ e.queue \notin Queues /\ log' = Append(log, e)
      BY <3>1 DEF Entry, TypeOK, HostType, TurnType, Turn, Queues
    <3> HIDE DEF e
    <3> QED
      BY <2>1, <3>2, OrderDirect
  <2> QED
    BY <1>3, <2>2, <2>3 DEF BeginTurn
<1>4. CASE Boundary \/ DrainPops \/ DrainPersists
  <2>0. UNCHANGED stamp
    BY <1>4, BoundarySteps
  <2>1. CASE UNCHANGED <<steer, followUp, deferred, nextTurn, hand, fate, log>>
    BY <1>a, <2>0, <2>1
  <2>2. CASE turn.phase \notin PersistPhases /\ Pops /\ UNCHANGED <<fate, log>>
    <3>1. hand = <<>>
      BY <2>2 DEF HandInv, PersistPhases
    <3> QED
      BY <2>0, <2>2, <3>1, OrderPop
  <2>3. CASE /\ hand # <<>> /\ hand' = <<>> /\ UNCHANGED <<steer, followUp, deferred, nextTurn>>
             /\ Commit(Head(hand)) \/ CommitFails(Head(hand))
    BY <2>0, <2>3, OrderCommit
  <2> QED
    BY <1>4, <2>1, <2>2, <2>3, BoundarySteps
<1>5. CASE EndNormal \/ EndCanceled \/ BindSession \/ ShutdownClears
  <2>1. /\ UNCHANGED <<hand, log>>
        /\ steer' \in {steer, <<>>} /\ followUp' \in {followUp, <<>>}
        /\ deferred' \in {deferred, <<>>} /\ nextTurn' \in {nextTurn, <<>>}
    BY <1>5 DEF EndNormal, EndCanceled, AtEnd, BindSession, ShutdownClears
  <2>2. stamp' \in {stamp, stamp + 1}
    BY <1>5 DEF EndNormal, EndCanceled, BindSession, ShutdownClears
  <2> QED
    BY <2>1, <2>2, OrderKept
<1>6. CASE UNCHANGED vars
  BY <1>6, <1>a DEF vars
<1> QED
  BY <1>1, <1>2, <1>3, <1>4, <1>5, <1>6
     DEF Next, Environment, JobStep, TurnStep, TurnEnds

\* The session holds the messages of each queue in the order they were sent, across
\* turns, requeued continuations and interrupted boundaries.
THEOREM FifoPerQueueCorrect == Spec => []FifoPerQueue
<1>1. Init => OrderInv
  BY DEF Init, NewHost, OrderInv, LinesInv, InLine, Line, Behind, Gone, GoneInv, HandLine,
     FifoPerQueue, Elements
<1>2. TypeOK /\ PlaceInv /\ OrderInv /\ [Next]_vars => OrderInv'
  BY OrderStep DEF PlaceInv
<1>3. OrderInv => FifoPerQueue
  BY DEF OrderInv
<1> QED
  BY <1>1, <1>2, <1>3, TypeCorrect, PlaceCorrect, PTL DEF Spec
=============================================================================
