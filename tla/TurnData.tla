------------------------------ MODULE TurnData ------------------------------
(*****************************************************************************)
(* The components that keep data for the turns of a session, side by side:   *)
(* they share no state here.                                                 *)
(*****************************************************************************)
EXTENDS Naturals, Sequences, FiniteSets

CONSTANTS
  Requests, Turns, MaxAdapters,                    \* HostCompaction
  AgentNames, ToolsOf, AllTools, Offered,          \* DelegatedRuns
  DepthLimit, MaxRuns, MaxRunFaults, MaxToggles,
  Emits, Subs, QueueLimit,                         \* EventBus
  KeepRecent, MaxEntries, MaxCompactions, MaxCalls \* ContextCompaction

\* Requests and turns are told apart, from each other and from what else the worker does;
\* one adapter is attached at the start.
ASSUME CompactionAssumption ==
  /\ MaxAdapters \in Nat \ {0} /\ Requests \cap Turns = {}
  /\ (Requests \cup Turns) \cap {"nothing", "change", "bound"} = {}

\* No emit is called as the absence of one, or as the end of the wait for its drain.
ASSUME BusAssumption == Emits \cap {"none", "joined"} = {}

\* The number of messages a compaction always keeps may be zero.
ASSUME ContextAssumption == KeepRecent \in Nat /\ MaxCalls \in Nat

VARIABLES
  \* HostCompaction
  tui, closed, settledAll, stopped, generation, adapter, pendingModel, slot, stage,
  ask, captured, jobs, settled, outbox, worker, turn, prepared, explicit, errors, results,
  committed,
  \* DelegatedRuns
  activeTools, ours, stack, cancelled, children, handles, started, unremoved, runs,
  childFaults, toggles,
  \* EventBus
  subs, queue, draining, nested, busClosed, drainDone, done, drain, fate, due, calls,
  subscribed, waiter,
  \* ContextCompaction
  line, log, history, phase, refreshes, ids, forced, retried, pending, planned, request,
  requested

Compaction == INSTANCE HostCompaction
Agents ==
  INSTANCE DelegatedRuns
    WITH Agents <- AgentNames, MaxFaults <- MaxRunFaults, active <- activeTools,
         files <- children, faults <- childFaults
Bus == INSTANCE EventBus WITH closed <- busClosed
Context == INSTANCE ContextCompaction WITH sent <- request, explicit <- requested

compactionVars == <<tui, closed, settledAll, stopped, generation, adapter, pendingModel,
                    slot, stage, ask, captured, jobs, settled, outbox, worker, turn,
                    prepared, explicit, errors, results, committed>>
agentVars == <<activeTools, ours, stack, cancelled, children, handles, started, unremoved,
               runs, childFaults, toggles>>
busVars == <<subs, queue, draining, nested, busClosed, drainDone, done, drain, fate, due,
             calls, subscribed, waiter>>
contextVars == <<line, log, history, phase, refreshes, ids, forced, retried, pending, planned,
                 request, requested>>
=============================================================================
