---------------------------- MODULE HostCompaction ----------------------------
(***************************************************************************)
(* Compaction an extension asks for (internal/cli/host_compaction.go with  *)
(* the one-slot adapters of context_preparer.go): a request reads the      *)
(* attached adapter, then either waits in its slot for the turn that runs, *)
(* or becomes a job over a captured session.  Turns, session changes, a    *)
(* change of model, which attaches another adapter, and shutdown, which    *)
(* settles what it finds, all run beside it.  In the TUI one worker runs   *)
(* turns, session changes and jobs; in line mode jobs are goroutines and a *)
(* scheduled turn prepares beside a running one.                           *)
(***************************************************************************)
EXTENDS Naturals, FiniteSets

CONSTANTS Requests,    \* calls of Compact
          Turns,       \* turns of the agent loop
          MaxAdapters  \* adapters built in one run

Nothing == "nothing"

VARIABLES
  tui,               \* TRUE when the host dispatches to the worker of the TUI
  closed, settledAll, \* shutdown began; it settled what it found
  stopped,           \* the worker's queue, or the pool of jobs, is closed
  generation, adapter, \* the bound session and the attached adapter
  pendingModel,      \* a requested model waits for the next turn
  slot,              \* adapter |-> the request that waits in it, or Nothing
  stage, ask, captured, \* of a request: where it is; adapter read; session captured
  jobs, settled,     \* registered jobs; jobs whose settlement was claimed
  outbox,            \* requests whose error waits in the worker's queue
  worker,            \* what the worker of the TUI is doing
  turn, prepared,    \* of a turn: where it is; the adapter of its loop
  explicit,          \* the request the running turn compacts for, or Nothing
  errors, results, committed \* what reached OnError, OnComplete and the session

vars == <<tui, closed, settledAll, stopped, generation, adapter, pendingModel, slot,
          stage, ask, captured, jobs, settled, outbox, worker, turn, prepared,
          explicit, errors, results, committed>>

host == <<closed, settledAll, stopped, generation, adapter, pendingModel>>
reports == <<errors, results, committed>>
turns == <<turn, prepared, explicit>>

Init ==
  /\ tui \in BOOLEAN /\ closed = FALSE /\ settledAll = FALSE /\ stopped = FALSE
  /\ generation = 1 /\ adapter = 1 /\ pendingModel = FALSE
  /\ slot = [a \in 1..MaxAdapters |-> Nothing]
  /\ stage = [r \in Requests |-> "idle"] /\ ask = [r \in Requests |-> 0]
  /\ captured = [r \in Requests |-> 0]
  /\ jobs = {} /\ settled = {} /\ outbox = {} /\ worker = Nothing
  /\ turn = [t \in Turns |-> "idle"] /\ prepared = [t \in Turns |-> 0]
  /\ explicit = Nothing
  /\ errors = [r \in Requests |-> 0] /\ results = [r \in Requests |-> 0]
  /\ committed = {}

-----------------------------------------------------------------------------
Go(r, from, to) == stage[r] = from /\ stage' = [stage EXCEPT ![r] = to]

Failing(S) == errors' = [r \in Requests |-> errors[r] + (IF r \in S THEN 1 ELSE 0)]

\* MUTANT of FailJob: reports without claiming the settlement.
MutantFailJob(r) ==
  /\ settled' = settled \cup {r}
  /\ Failing({r})
  /\ UNCHANGED <<results, committed>>

\* failJob: whoever claims the settlement reports; settled jobs stay silent.
FailJob(r) ==
  /\ settled' = settled \cup {r}
  /\ Failing({r} \ settled)
  /\ UNCHANGED <<results, committed>>

TurnActive == \E t \in Turns : turn[t] = "running"
WorkerFree == tui => worker = Nothing
Occupy(x) == worker' = IF tui THEN x ELSE worker

-----------------------------------------------------------------------------
(* requestCompact, on the goroutine of the extension.                        *)

ReadAdapter(r) ==
  /\ Go(r, "idle", "asked")
  /\ ask' = [ask EXCEPT ![r] = adapter]
  /\ UNCHANGED <<tui, host, slot, captured, jobs, settled, outbox, worker, turns, reports>>

CheckOpen(r) ==
  /\ Go(r, "asked", IF closed THEN "done" ELSE "checked")
  /\ Failing(IF closed THEN {r} ELSE {})
  /\ UNCHANGED <<tui, host, slot, ask, captured, jobs, settled, outbox, worker, turns,
                 results, committed>>

\* Under turnMu: during a turn the request takes the slot of the adapter it read.
TakeSlot(r) ==
  /\ TurnActive
  /\ LET free == slot[ask[r]] = Nothing IN
     /\ Go(r, "checked", IF free THEN "slot" ELSE "done")
     /\ slot' = IF free THEN [slot EXCEPT ![ask[r]] = r] ELSE slot
     /\ Failing(IF free THEN {} ELSE {r})
  /\ UNCHANGED <<tui, host, ask, captured, jobs, settled, outbox, worker, turns,
                 results, committed>>

FindIdle(r) ==
  /\ ~TurnActive /\ Go(r, "checked", "idleHost")
  /\ UNCHANGED <<tui, host, slot, ask, captured, jobs, settled, outbox, worker, turns, reports>>

Capture(r) ==
  /\ Go(r, "idleHost", IF closed THEN "done" ELSE "captured")
  /\ Failing(IF closed THEN {r} ELSE {})
  /\ captured' = [captured EXCEPT ![r] = generation]
  /\ UNCHANGED <<tui, host, slot, ask, jobs, settled, outbox, worker, turns, results, committed>>

-----------------------------------------------------------------------------
(* dispatchCompactJob and runIdleCompact.                                    *)

Register(r) ==
  /\ Go(r, "captured", "registered")
  /\ jobs' = jobs \cup {r}
  /\ UNCHANGED <<tui, host, slot, ask, captured, settled, outbox, worker, turns, reports>>

\* The worker's queue, or the pool, takes the job unless it is closed.
Dispatch(r) ==
  /\ ~stopped /\ Go(r, "registered", "queued")
  /\ worker' = IF worker = r THEN Nothing ELSE worker
  /\ UNCHANGED <<tui, host, slot, ask, captured, jobs, settled, outbox, turns, reports>>

DispatchRefused(r) ==
  /\ stopped /\ Go(r, "registered", "done")
  /\ jobs' = jobs \ {r} /\ FailJob(r)
  /\ worker' = IF worker = r THEN Nothing ELSE worker
  /\ UNCHANGED <<tui, host, slot, ask, captured, outbox, turns>>

Finish(r) ==
  /\ jobs' = jobs \ {r}
  /\ worker' = IF worker = r THEN Nothing ELSE worker

\* A settled job returns; a cancelled context fails it.
StartJob(r) ==
  /\ WorkerFree /\ stage[r] = "queued"
  /\ IF r \in settled \/ closed
     THEN Go(r, "queued", "done") /\ FailJob(r) /\ jobs' = jobs \ {r} /\ UNCHANGED worker
     ELSE Go(r, "queued", "compacting") /\ Occupy(r) /\ UNCHANGED <<jobs, settled, reports>>
  /\ UNCHANGED <<tui, host, slot, ask, captured, outbox, turns>>

\* CompactNow: an entry, or an error, or nothing to compact.
Compacted(r) ==
  /\ Go(r, "compacting", "entry")
  /\ UNCHANGED <<tui, host, slot, ask, captured, jobs, settled, outbox, worker, turns, reports>>

CompactFails(r) ==
  /\ Go(r, "compacting", "done") /\ FailJob(r) /\ Finish(r)
  /\ UNCHANGED <<tui, host, slot, ask, captured, outbox, turns>>

\* commitCompaction holds sessionMu and compactMu.
MayCommit(r) == ~closed /\ captured[r] = generation

Commit(r) ==
  /\ MayCommit(r) /\ r \notin settled /\ Go(r, "entry", "committed")
  /\ committed' = committed \cup {r} /\ settled' = settled \cup {r}
  /\ UNCHANGED <<tui, host, slot, ask, captured, jobs, outbox, worker, turns, errors, results>>

CommitFails(r) ==
  /\ Go(r, "entry", "done") /\ FailJob(r) /\ Finish(r)
  /\ UNCHANGED <<tui, host, slot, ask, captured, outbox, turns>>

ReportResult(r) ==
  /\ Go(r, "committed", "done") /\ Finish(r)
  /\ results' = [results EXCEPT ![r] = @ + 1]
  /\ UNCHANGED <<tui, host, slot, ask, captured, settled, outbox, turns, errors, committed>>

-----------------------------------------------------------------------------
(* Turns: loopDeps, Prepare with runExplicitCompact, endTurn.                *)

\* A requested model attaches its adapter before the turn has the loop.
BuildDeps(t) ==
  /\ turn[t] = "idle" /\ ~closed /\ ~(tui /\ stopped) /\ WorkerFree /\ Occupy(t)
  /\ turn' = [turn EXCEPT ![t] = "ready"]
  /\ pendingModel' = FALSE
  /\ adapter' = IF pendingModel THEN adapter + 1 ELSE adapter
  /\ prepared' = [prepared EXCEPT ![t] = adapter']
  /\ UNCHANGED <<tui, closed, settledAll, stopped, generation, slot, stage, ask, captured,
                 jobs, settled, outbox, explicit, reports>>

BeginTurn(t) ==
  /\ turn[t] = "ready" /\ ~TurnActive
  /\ turn' = [turn EXCEPT ![t] = "running"]
  /\ UNCHANGED <<tui, host, slot, stage, ask, captured, jobs, settled, outbox, worker,
                 prepared, explicit, reports>>

Prepare(t) ==
  /\ turn[t] = "running" /\ explicit = Nothing
  /\ LET r == slot[prepared[t]] IN
     /\ r # Nothing /\ Go(r, "slot", "explicit")
     /\ explicit' = r /\ slot' = [slot EXCEPT ![prepared[t]] = Nothing]
     /\ captured' = [captured EXCEPT ![r] = generation]
  /\ UNCHANGED <<tui, host, ask, jobs, settled, outbox, worker, turn, prepared, reports>>

ExplicitSucceeds(r) ==
  /\ explicit = r /\ explicit' = Nothing /\ MayCommit(r) /\ Go(r, "explicit", "done")
  /\ committed' = committed \cup {r} /\ results' = [results EXCEPT ![r] = @ + 1]
  /\ UNCHANGED <<tui, host, slot, ask, captured, jobs, settled, outbox, worker, turn,
                 prepared, errors>>

ExplicitFails(r) ==
  /\ explicit = r /\ explicit' = Nothing /\ Go(r, "explicit", "done") /\ Failing({r})
  /\ UNCHANGED <<tui, host, slot, ask, captured, jobs, settled, outbox, worker, turn,
                 prepared, results, committed>>

\* endTurn takes the slot of the adapter attached now and dispatches a job for it.
EndTurn(t) ==
  /\ turn[t] = "running" /\ explicit = Nothing
  /\ turn' = [turn EXCEPT ![t] = "done"]
  /\ LET r == slot[adapter] IN
     IF r = Nothing
     THEN /\ worker' = IF worker = t THEN Nothing ELSE worker
          /\ UNCHANGED <<slot, stage, ask, captured, errors>>
     ELSE /\ slot' = [slot EXCEPT ![adapter] = Nothing]
          /\ Go(r, "slot", IF closed THEN "done" ELSE "captured")
          /\ Failing(IF closed THEN {r} ELSE {})
          /\ captured' = [captured EXCEPT ![r] = generation]
          /\ ask' = [ask EXCEPT ![r] = adapter]
          /\ Occupy(IF closed THEN Nothing ELSE r)
  /\ UNCHANGED <<tui, host, jobs, settled, outbox, prepared, explicit, results, committed>>

-----------------------------------------------------------------------------
(* A change of model, a change of session, shutdown.                         *)

\* MaxAdapters bounds the adapters that are attached or about to be.
Coming == Cardinality({x \in {"change", "bound"} : worker = x})
            + (IF pendingModel THEN 1 ELSE 0)

RequestModel ==
  /\ ~closed /\ ~pendingModel /\ adapter + Coming < MaxAdapters
  /\ pendingModel' = TRUE
  /\ UNCHANGED <<tui, closed, settledAll, stopped, generation, adapter, slot, stage, ask,
                 captured, jobs, settled, outbox, worker, turns, reports>>

Taken(a) == {slot[a]} \ {Nothing}
Drop(S) == stage' = [r \in Requests |-> IF r \in S THEN "done" ELSE stage[r]]

\* schedulePendingCompactCancel; the error is a job of the worker's queue.
CancelPending ==
  /\ tui /\ ~stopped /\ worker = Nothing /\ adapter + Coming < MaxAdapters
  /\ worker' = "change"
  /\ slot' = [slot EXCEPT ![adapter] = Nothing]
  /\ Drop(Taken(adapter)) /\ outbox' = outbox \cup Taken(adapter)
  /\ UNCHANGED <<tui, host, ask, captured, jobs, settled, turns, reports>>

\* bindSession settles the jobs of every other session.
BindSession ==
  /\ worker = "change" /\ worker' = "bound"
  /\ pendingModel' = FALSE
  /\ IF closed
     THEN UNCHANGED <<generation, outbox, settled, jobs>>
     ELSE /\ generation' = generation + 1
          /\ outbox' = IF stopped THEN outbox ELSE outbox \cup (jobs \ settled)
          /\ settled' = settled \cup jobs /\ jobs' = {}
  /\ Failing(IF stopped /\ ~closed THEN jobs \ settled ELSE {})
  /\ UNCHANGED <<tui, closed, settledAll, stopped, adapter, slot, stage, ask, captured,
                 turns, results, committed>>

AttachPreparer ==
  /\ worker = "bound" /\ worker' = Nothing
  /\ adapter' = adapter + 1
  /\ UNCHANGED <<tui, closed, settledAll, stopped, generation, pendingModel, slot, stage,
                 ask, captured, jobs, settled, outbox, turns, reports>>

\* A report the worker gets to.
DeliverErrors ==
  /\ outbox # {} /\ worker = Nothing
  /\ Failing(outbox) /\ outbox' = {}
  /\ UNCHANGED <<tui, host, slot, stage, ask, captured, jobs, settled, worker, turns,
                 results, committed>>

CloseHost ==
  /\ ~closed /\ closed' = TRUE
  /\ UNCHANGED <<tui, settledAll, stopped, generation, adapter, pendingModel, slot, stage,
                 ask, captured, jobs, settled, outbox, worker, turns, reports>>

\* shutdown claims the attached adapter's slot and every registered job.
SettleAll ==
  /\ closed /\ ~settledAll /\ settledAll' = TRUE /\ pendingModel' = FALSE
  /\ slot' = [slot EXCEPT ![adapter] = Nothing]
  /\ Drop(Taken(adapter)) /\ Failing(Taken(adapter) \cup (jobs \ settled))
  /\ settled' = settled \cup jobs /\ jobs' = {}
  /\ UNCHANGED <<tui, closed, stopped, generation, adapter, ask, captured, outbox, worker,
                 turns, results, committed>>

\* beginShutdown empties the worker's queue; waitCompacts only closes the pool.
Stop ==
  /\ ~stopped /\ (settledAll \/ tui) /\ stopped' = TRUE
  /\ outbox' = IF tui THEN {} ELSE outbox
  /\ Drop(IF tui THEN {r \in Requests : stage[r] = "queued"} ELSE {})
  /\ UNCHANGED <<tui, closed, settledAll, generation, adapter, pendingModel, slot, ask,
                 captured, jobs, settled, worker, turns, reports>>

Next ==
  \/ \E r \in Requests :
        \/ ReadAdapter(r) \/ CheckOpen(r) \/ TakeSlot(r) \/ FindIdle(r) \/ Capture(r)
        \/ Register(r) \/ Dispatch(r) \/ DispatchRefused(r) \/ StartJob(r)
        \/ Compacted(r) \/ CompactFails(r) \/ Commit(r) \/ CommitFails(r) \/ ReportResult(r)
        \/ ExplicitSucceeds(r) \/ ExplicitFails(r)
  \/ \E t \in Turns : BuildDeps(t) \/ BeginTurn(t) \/ Prepare(t) \/ EndTurn(t)
  \/ RequestModel \/ CancelPending \/ BindSession \/ AttachPreparer \/ DeliverErrors
  \/ CloseHost \/ SettleAll \/ Stop

Spec == Init /\ [][Next]_vars

-----------------------------------------------------------------------------
(* Properties.                                                               *)

\* A request has at most one outcome: it never reports twice, OnComplete is
\* only called for an entry the session holds, and a request whose entry was
\* written never reports an error, whichever of the turn, the job, the session
\* change and shutdown settles it (claimSettlement, commitCompaction).
OneOutcome ==
  \A r \in Requests :
    /\ errors[r] + results[r] <= 1
    /\ results[r] > 0 => r \in committed
    /\ r \in committed => errors[r] = 0 /\ r \notin outbox

\* Everything that could still settle a request is over.
Quiet ==
  /\ settledAll /\ stopped /\ worker = Nothing
  /\ \A t \in Turns : turn[t] \in {"idle", "done"}
  /\ \A r \in Requests : stage[r] \in {"idle", "slot", "done"}

\* The report of a request is never lost ("reports the outcome exactly once",
\* docs/sdk-runtime.md:271).  The code does not keep it (README, section 9).
ReportsOutcome ==
  Quiet => \A r \in Requests : stage[r] # "idle" => errors[r] + results[r] = 1
===============================================================================
