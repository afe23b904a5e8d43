--------------------------- MODULE TurnDataProofs ---------------------------
(*****************************************************************************)
(* What the components of TurnData keep true, proved for every value of      *)
(* their constants: one inductive invariant per component.                   *)
(*****************************************************************************)
EXTENDS TurnData, FiniteSetTheorems, SequenceTheorems, WellFoundedInduction, TLAPS

-----------------------------------------------------------------------------
(* HostCompaction: a request is in one place at a time, and what settled it  *)
(* keeps the others silent.                                                  *)

\* Before a request is a job, and in the turn that compacts for it.
Early == {"idle", "asked", "checked", "slot", "idleHost", "captured", "explicit"}
JobStages == {"registered", "queued", "compacting", "entry"}

CompactionTypes ==
  /\ stage \in [Requests -> Early \cup JobStages \cup {"committed", "done"}]
  /\ ask \in [Requests -> Nat] /\ captured \in [Requests -> Nat] /\ generation \in Nat
  /\ errors \in [Requests -> Nat] /\ results \in [Requests -> Nat]
  /\ turn \in [Turns -> {"idle", "ready", "running", "done"}]
  /\ prepared \in [Turns -> Nat] /\ explicit \in Requests \cup {Compaction!Nothing}
  /\ slot \in [1..MaxAdapters -> Requests \cup {Compaction!Nothing}]
  /\ jobs \subseteq Requests /\ outbox \subseteq Requests
  /\ tui \in BOOLEAN /\ pendingModel \in BOOLEAN

\* The adapters that exist are within their bound, with those that a requested model
\* and a session change will attach; the worker is a turn's until the turn ends.
Attached ==
  /\ adapter \in 1..MaxAdapters
  /\ worker \in {"change", "bound"} => tui /\ adapter + 1 <= MaxAdapters
  /\ pendingModel => adapter + 1 <= MaxAdapters
  /\ pendingModel /\ worker = "change" => adapter + 2 <= MaxAdapters
  /\ pendingModel /\ worker = "bound" => adapter + 2 <= MaxAdapters
  /\ ~tui => worker = Compaction!Nothing
  /\ \A t \in Turns :
       /\ turn[t] # "idle" => prepared[t] \in 1..MaxAdapters
       /\ tui /\ turn[t] \in {"ready", "running"} => worker = t

\* A request that waits for a turn is in the slot of the adapter it read.
Slotted ==
  /\ \A a \in 1..MaxAdapters :
       slot[a] \in Requests => stage[slot[a]] = "slot" /\ ask[slot[a]] = a
  /\ \A r \in Requests : stage[r] # "idle" => ask[r] \in 1..MaxAdapters

\* Nobody has reported on the request.
Silent(r) == errors[r] = 0 /\ results[r] = 0 /\ r \notin outbox /\ r \notin committed

\* A request nobody has settled is silent, until it is done; so is each one that
\* a session change or shutdown may still settle.
Unsettled(r) ==
  /\ stage[r] \in Early => Silent(r) /\ r \notin settled /\ r \notin jobs
  /\ stage[r] \in JobStages => results[r] = 0 /\ r \notin committed
  /\ stage[r] # "done" /\ r \notin settled => Silent(r)
  /\ r \in jobs /\ r \notin settled => Silent(r)
  /\ stage[r] = "committed" => r \in committed /\ r \in settled /\ results[r] = 0

\* What was reported excludes what would contradict it.
Reported(r) ==
  /\ errors[r] = 0 \/ results[r] = 0
  /\ errors[r] \in {0, 1} /\ results[r] \in {0, 1}
  /\ results[r] = 1 => r \in committed
  /\ r \in committed => errors[r] = 0 /\ r \notin outbox
  /\ r \in outbox => errors[r] = 0 /\ results[r] = 0

CompactionInv ==
  /\ CompactionTypes /\ Attached /\ Slotted
  /\ \A r \in Requests : Unsettled(r) /\ Reported(r)

-----------------------------------------------------------------------------
LEMMA CompactionCounts == ASSUME NEW S PROVE Compaction!Cardinality(S) = Cardinality(S)
BY DEF Compaction!Cardinality, Cardinality

\* What is about to be attached is counted.
LEMMA ComingCounts ==
  /\ worker \in {"change", "bound"} =>
       Compaction!Coming = 1 + (IF pendingModel THEN 1 ELSE 0)
  /\ worker \notin {"change", "bound"} =>
       Compaction!Coming = IF pendingModel THEN 1 ELSE 0
<1> DEFINE S == {x \in {"change", "bound"} : worker = x}
<1>1. worker \in {"change", "bound"} => S = {worker}
  OBVIOUS
<1>2. worker \notin {"change", "bound"} => S = {}
  OBVIOUS
<1>3. Cardinality({}) = 0 /\ Cardinality({worker}) = 1
  BY FS_EmptySet, FS_Singleton
<1>4. Compaction!Coming = Cardinality(S) + (IF pendingModel THEN 1 ELSE 0)
  BY CompactionCounts DEF Compaction!Coming
<1> HIDE DEF S
<1>5. CASE worker \in {"change", "bound"}
  <2>1. Cardinality(S) = 1
    BY <1>1, <1>3, <1>5
  <2> QED
    BY <1>4, <1>5, <2>1
<1>6. CASE worker \notin {"change", "bound"}
  <2>1. Cardinality(S) = 0
    BY <1>2, <1>3, <1>6
  <2> QED
    BY <1>4, <1>6, <2>1
<1> QED
  BY <1>5, <1>6

USE DEF Compaction!host, Compaction!reports, Compaction!turns, Compaction!Go,
        Compaction!Nothing, Early, JobStages, CompactionTypes, Silent

\* Who fails gets one error more; failJob only reports for whom nobody settled.
LEMMA FailingAt ==
  ASSUME NEW S, CompactionTypes, Compaction!Failing(S)
  PROVE  /\ errors' \in [Requests -> Nat]
         /\ \A r \in Requests : errors'[r] = IF r \in S THEN errors[r] + 1 ELSE errors[r]
BY DEF Compaction!Failing

LEMMA FailJobAt ==
  ASSUME NEW r \in Requests, CompactionTypes, Compaction!FailJob(r)
  PROVE  /\ errors' \in [Requests -> Nat] /\ settled' = settled \cup {r}
         /\ UNCHANGED <<results, committed>>
         /\ \A q \in Requests :
              errors'[q] = IF q = r /\ r \notin settled THEN errors[q] + 1 ELSE errors[q]
BY DEF Compaction!FailJob, Compaction!Failing

\* requestCompact: a request moves on, or gets its only report.
LEMMA RequestKeeps ==
  ASSUME CompactionInv, NEW r \in Requests,
         \/ Compaction!ReadAdapter(r)
         \/ Compaction!CheckOpen(r)
         \/ Compaction!TakeSlot(r)
         \/ Compaction!FindIdle(r)
         \/ Compaction!Capture(r)
  PROVE  CompactionInv'
<1>1. CASE Compaction!ReadAdapter(r)
  <2>1. CompactionTypes' /\ Attached'
    BY <1>1 DEF CompactionInv, Attached, Compaction!ReadAdapter
  <2>2. Slotted'
    BY <1>1 DEF CompactionInv, Attached, Slotted, Compaction!ReadAdapter
  <2>3. ASSUME NEW q \in Requests PROVE Unsettled(q)' /\ Reported(q)'
    <3>1. /\ CompactionTypes /\ Attached /\ Slotted
          /\ Unsettled(q) /\ Reported(q)
      BY DEF CompactionInv
    <3> QED
      BY <1>1, <3>1 DEF Attached, Slotted, Unsettled, Reported, Compaction!ReadAdapter
  <2> QED
    BY <2>1, <2>2, <2>3 DEF CompactionInv
<1>2. CASE Compaction!CheckOpen(r)
  <2>0. /\ errors' \in [Requests -> Nat]
        /\ \A q \in Requests :
             errors'[q] = IF closed /\ q = r
                          THEN errors[q] + 1 ELSE errors[q]
    BY <1>2 DEF CompactionInv, Compaction!CheckOpen, Compaction!Failing
  <2>1. CompactionTypes' /\ Attached'
    BY <1>2, <2>0 DEF CompactionInv, Attached, Compaction!CheckOpen
  <2>2. Slotted'
    BY <1>2, <2>0 DEF CompactionInv, Attached, Slotted, Compaction!CheckOpen
  <2>3. ASSUME NEW q \in Requests PROVE Unsettled(q)' /\ Reported(q)'
    <3>1. /\ CompactionTypes /\ Attached /\ Slotted
          /\ Unsettled(q) /\ Reported(q)
      BY DEF CompactionInv
    <3> QED
      BY <1>2, <2>0, <3>1 DEF Attached, Slotted, Unsettled, Reported, Compaction!CheckOpen
  <2> QED
    BY <2>1, <2>2, <2>3 DEF CompactionInv
<1>3. CASE Compaction!TakeSlot(r)
  <2>0. /\ errors' \in [Requests -> Nat]
        /\ \A q \in Requests :
             errors'[q] = IF slot[ask[r]] # Compaction!Nothing /\ q = r
                          THEN errors[q] + 1 ELSE errors[q]
    <3>1. errors' = [q \in Requests |-> errors[q] +
                       (IF slot[ask[r]] # Compaction!Nothing /\ q = r THEN 1 ELSE 0)]
      BY <1>3 DEF Compaction!TakeSlot, Compaction!Failing
    <3> QED
      BY <3>1 DEF CompactionInv
  <2>4. /\ ask[r] \in 1..MaxAdapters /\ stage[r] = "checked"
        /\ UNCHANGED <<tui, pendingModel, adapter, generation, ask, captured, jobs, outbox,
            worker, turn, prepared, explicit,
                       results>>
    BY <1>3 DEF CompactionInv, Slotted, Compaction!TakeSlot
  <2>5. \/ slot' = slot /\ stage' = [stage EXCEPT ![r] = "done"]
        \/ /\ slot[ask[r]] = Compaction!Nothing /\ slot' = [slot EXCEPT ![ask[r]] = r]
           /\ stage' = [stage EXCEPT ![r] = "slot"]
    BY <1>3 DEF Compaction!TakeSlot
  <2>1. CompactionTypes' /\ Attached'
    <3>1. slot' \in [1..MaxAdapters -> Requests \cup {Compaction!Nothing}]
      BY <2>4, <2>5 DEF CompactionInv
    <3>2. stage' \in [Requests -> Early \cup JobStages \cup {"committed", "done"}]
      BY <2>5 DEF CompactionInv
    <3> QED
      BY <2>0, <2>4, <3>1, <3>2 DEF CompactionInv, Attached
  <2>2. Slotted'
    <3>1. \A q \in Requests : q # r => stage'[q] = stage[q]
      BY <2>5 DEF CompactionInv
    <3>2. \A a \in 1..MaxAdapters : slot[a] # r
      BY <2>4 DEF CompactionInv, Slotted
    <3>3. ASSUME NEW a \in 1..MaxAdapters, slot'[a] \in Requests
          PROVE  stage'[slot'[a]] = "slot" /\ ask'[slot'[a]] = a
      <4>1. CASE slot'[a] = slot[a]
        BY <2>4, <3>1, <3>2, <3>3, <4>1 DEF CompactionInv, Slotted
      <4>2. CASE slot'[a] # slot[a]
        <5>1. slot' = [slot EXCEPT ![ask[r]] = r] /\ stage' = [stage EXCEPT ![r] = "slot"]
          BY <2>5, <4>2
        <5>2. a = ask[r] /\ slot'[a] = r /\ stage'[r] = "slot"
          BY <2>4, <4>2, <5>1 DEF CompactionInv
        <5> QED
          BY <2>4, <5>2
      <4> QED
        BY <4>1, <4>2
    <3>4. \A q \in Requests : stage'[q] # "idle" => ask'[q] \in 1..MaxAdapters
      BY <2>4, <3>1 DEF CompactionInv, Slotted
    <3> QED
      BY <3>3, <3>4 DEF Slotted
  <2>3. ASSUME NEW q \in Requests PROVE Unsettled(q)' /\ Reported(q)'
    <3>1. /\ CompactionTypes /\ Attached /\ Slotted
          /\ Unsettled(q) /\ Reported(q)
      BY DEF CompactionInv
    <3> QED
      BY <1>3, <2>0, <3>1 DEF Attached, Slotted, Unsettled, Reported, Compaction!TakeSlot
  <2> QED
    BY <2>1, <2>2, <2>3 DEF CompactionInv
<1>4. CASE Compaction!FindIdle(r)
  <2>1. CompactionTypes' /\ Attached'
    BY <1>4 DEF CompactionInv, Attached, Compaction!FindIdle
  <2>2. Slotted'
    BY <1>4 DEF CompactionInv, Attached, Slotted, Compaction!FindIdle
  <2>3. ASSUME NEW q \in Requests PROVE Unsettled(q)' /\ Reported(q)'
    <3>1. /\ CompactionTypes /\ Attached /\ Slotted
          /\ Unsettled(q) /\ Reported(q)
      BY DEF CompactionInv
    <3> QED
      BY <1>4, <3>1 DEF Attached, Slotted, Unsettled, Reported, Compaction!FindIdle
  <2> QED
    BY <2>1, <2>2, <2>3 DEF CompactionInv
<1>5. CASE Compaction!Capture(r)
  <2>0. /\ errors' \in [Requests -> Nat]
        /\ \A q \in Requests :
             errors'[q] = IF closed /\ q = r
                          THEN errors[q] + 1 ELSE errors[q]
    BY <1>5 DEF CompactionInv, Compaction!Capture, Compaction!Failing
  <2>1. CompactionTypes' /\ Attached'
    BY <1>5, <2>0 DEF CompactionInv, Attached, Compaction!Capture
  <2>2. Slotted'
    BY <1>5, <2>0 DEF CompactionInv, Attached, Slotted, Compaction!Capture
  <2>3. ASSUME NEW q \in Requests PROVE Unsettled(q)' /\ Reported(q)'
    <3>1. /\ CompactionTypes /\ Attached /\ Slotted
          /\ Unsettled(q) /\ Reported(q)
      BY DEF CompactionInv
    <3> QED
      BY <1>5, <2>0, <3>1 DEF Attached, Slotted, Unsettled, Reported, Compaction!Capture
  <2> QED
    BY <2>1, <2>2, <2>3 DEF CompactionInv
<1> QED
  BY <1>1, <1>2, <1>3, <1>4, <1>5

\* The worker, or the pool, registers, starts and ends a job.
LEMMA JobKeeps ==
  ASSUME CompactionInv, NEW r \in Requests,
         \/ Compaction!Register(r)
         \/ Compaction!Dispatch(r)
         \/ Compaction!DispatchRefused(r)
         \/ Compaction!StartJob(r)
         \/ Compaction!Compacted(r)
         \/ Compaction!CompactFails(r)
         \/ Compaction!Commit(r)
         \/ Compaction!CommitFails(r)
         \/ Compaction!ReportResult(r)
  PROVE  CompactionInv'
<1> USE CompactionAssumption
<1>1. CASE Compaction!Register(r)
  <2>1. CompactionTypes' /\ Attached'
    BY <1>1 DEF CompactionInv, Attached, Compaction!Register
  <2>2. Slotted'
    BY <1>1 DEF CompactionInv, Attached, Slotted, Compaction!Register
  <2>3. ASSUME NEW q \in Requests PROVE Unsettled(q)' /\ Reported(q)'
    <3>1. /\ CompactionTypes /\ Attached /\ Slotted
          /\ Unsettled(q) /\ Reported(q)
      BY DEF CompactionInv
    <3> QED
      BY <1>1, <3>1 DEF Attached, Slotted, Unsettled, Reported, Compaction!Register
  <2> QED
    BY <2>1, <2>2, <2>3 DEF CompactionInv
<1>2. CASE Compaction!Dispatch(r)
  <2>1. CompactionTypes' /\ Attached'
    BY <1>2 DEF CompactionInv, Attached, Compaction!Dispatch
  <2>2. Slotted'
    BY <1>2 DEF CompactionInv, Attached, Slotted, Compaction!Dispatch
  <2>3. ASSUME NEW q \in Requests PROVE Unsettled(q)' /\ Reported(q)'
    <3>1. /\ CompactionTypes /\ Attached /\ Slotted
          /\ Unsettled(q) /\ Reported(q)
      BY DEF CompactionInv
    <3> QED
      BY <1>2, <3>1 DEF Attached, Slotted, Unsettled, Reported, Compaction!Dispatch
  <2> QED
    BY <2>1, <2>2, <2>3 DEF CompactionInv
<1>3. CASE Compaction!DispatchRefused(r)
  <2>0. /\ errors' \in [Requests -> Nat] /\ settled' = settled \cup {r}
        /\ UNCHANGED <<results, committed>>
        /\ \A q \in Requests :
             errors'[q] = IF q = r /\ r \notin settled THEN errors[q] + 1 ELSE errors[q]
    BY <1>3, FailJobAt DEF CompactionInv, Compaction!DispatchRefused
  <2>1. CompactionTypes' /\ Attached'
    BY <1>3, <2>0 DEF CompactionInv, Attached, Compaction!DispatchRefused
  <2>2. Slotted'
    BY <1>3, <2>0 DEF CompactionInv, Attached, Slotted, Compaction!DispatchRefused
  <2>3. ASSUME NEW q \in Requests PROVE Unsettled(q)' /\ Reported(q)'
    <3>1. /\ CompactionTypes /\ Attached /\ Slotted
          /\ Unsettled(q) /\ Reported(q)
      BY DEF CompactionInv
    <3>2. Unsettled(q)'
      BY <1>3, <2>0, <3>1 DEF Attached, Slotted, Unsettled, Compaction!DispatchRefused
    <3>3. Reported(q)'
      <4>1. /\ stage[r] = "registered" /\ UNCHANGED <<outbox, results, committed>>
            /\ errors'[q] = IF q = r /\ r \notin settled THEN errors[q] + 1 ELSE errors[q]
        BY <1>3, <2>0 DEF Compaction!DispatchRefused
      <4>2. CASE q = r /\ r \notin settled
        <5>1. Silent(r)
          BY <3>1, <4>1, <4>2 DEF Unsettled
        <5> QED BY <4>1, <4>2, <5>1 DEF Reported
      <4>3. CASE ~(q = r /\ r \notin settled)
        BY <3>1, <4>1, <4>3 DEF Reported
      <4> QED BY <4>2, <4>3
    <3> QED BY <3>2, <3>3
  <2> QED
    BY <2>1, <2>2, <2>3 DEF CompactionInv
<1>4. CASE Compaction!StartJob(r)
  <2>0. errors' \in [Requests -> Nat]
    BY <1>4, FailJobAt DEF CompactionInv, Compaction!StartJob
  <2>1. CompactionTypes'
    BY <1>4, <2>0
       DEF CompactionInv, Attached, Compaction!StartJob, Compaction!FailJob
  <2>4. Attached'
    BY <1>4 DEF CompactionInv, Attached, Compaction!StartJob, Compaction!WorkerFree,
       Compaction!Occupy, Compaction!FailJob, Compaction!Failing
  <2>2. Slotted'
    BY <1>4 DEF CompactionInv, Attached, Slotted, Compaction!StartJob, Compaction!WorkerFree,
       Compaction!Occupy, Compaction!FailJob, Compaction!Failing
  <2>3. ASSUME NEW q \in Requests PROVE Unsettled(q)' /\ Reported(q)'
    <3>1. /\ CompactionTypes /\ Attached /\ Slotted
          /\ Unsettled(q) /\ Reported(q)
      BY DEF CompactionInv
    <3> QED
      BY <1>4, <3>1 DEF Attached, Slotted, Unsettled, Reported, Compaction!StartJob,
         Compaction!WorkerFree, Compaction!Occupy, Compaction!FailJob, Compaction!Failing
  <2> QED
    BY <2>1, <2>2, <2>3, <2>4 DEF CompactionInv
<1>5. CASE Compaction!Compacted(r)
  <2>1. CompactionTypes' /\ Attached'
    BY <1>5 DEF CompactionInv, Attached, Compaction!Compacted
  <2>2. Slotted'
    BY <1>5 DEF CompactionInv, Attached, Slotted, Compaction!Compacted
  <2>3. ASSUME NEW q \in Requests PROVE Unsettled(q)' /\ Reported(q)'
    <3>1. /\ CompactionTypes /\ Attached /\ Slotted
          /\ Unsettled(q) /\ Reported(q)
      BY DEF CompactionInv
    <3> QED
      BY <1>5, <3>1 DEF Attached, Slotted, Unsettled, Reported, Compaction!Compacted
  <2> QED
    BY <2>1, <2>2, <2>3 DEF CompactionInv
<1>6. CASE Compaction!CompactFails(r)
  <2>0. /\ errors' \in [Requests -> Nat] /\ settled' = settled \cup {r}
        /\ UNCHANGED <<results, committed>>
        /\ \A q \in Requests :
             errors'[q] = IF q = r /\ r \notin settled THEN errors[q] + 1 ELSE errors[q]
    BY <1>6, FailJobAt DEF CompactionInv, Compaction!CompactFails
  <2>1. CompactionTypes' /\ Attached'
    BY <1>6, <2>0 DEF CompactionInv, Attached, Compaction!CompactFails, Compaction!Finish
  <2>2. Slotted'
    BY <1>6, <2>0 DEF CompactionInv, Attached, Slotted, Compaction!CompactFails, Compaction!Finish
  <2>3. ASSUME NEW q \in Requests PROVE Unsettled(q)' /\ Reported(q)'
    <3>1. /\ CompactionTypes /\ Attached /\ Slotted
          /\ Unsettled(q) /\ Reported(q)
      BY DEF CompactionInv
    <3> QED
      BY <1>6, <2>0, <3>1 DEF Attached, Slotted, Unsettled, Reported, Compaction!CompactFails,
         Compaction!Finish
  <2> QED
    BY <2>1, <2>2, <2>3 DEF CompactionInv
<1>7. CASE Compaction!Commit(r)
  <2>1. CompactionTypes' /\ Attached'
    BY <1>7 DEF CompactionInv, Attached, Compaction!Commit, Compaction!MayCommit
  <2>2. Slotted'
    BY <1>7 DEF CompactionInv, Attached, Slotted, Compaction!Commit, Compaction!MayCommit
  <2>3. ASSUME NEW q \in Requests PROVE Unsettled(q)' /\ Reported(q)'
    <3>1. /\ CompactionTypes /\ Attached /\ Slotted
          /\ Unsettled(q) /\ Reported(q)
      BY DEF CompactionInv
    <3> QED
      BY <1>7, <3>1 DEF Attached, Slotted, Unsettled, Reported, Compaction!Commit,
         Compaction!MayCommit
  <2> QED
    BY <2>1, <2>2, <2>3 DEF CompactionInv
<1>8. CASE Compaction!CommitFails(r)
  <2>0. /\ errors' \in [Requests -> Nat] /\ settled' = settled \cup {r}
        /\ UNCHANGED <<results, committed>>
        /\ \A q \in Requests :
             errors'[q] = IF q = r /\ r \notin settled THEN errors[q] + 1 ELSE errors[q]
    BY <1>8, FailJobAt DEF CompactionInv, Compaction!CommitFails
  <2>1. CompactionTypes' /\ Attached'
    BY <1>8, <2>0 DEF CompactionInv, Attached, Compaction!CommitFails, Compaction!Finish
  <2>2. Slotted'
    BY <1>8, <2>0 DEF CompactionInv, Attached, Slotted, Compaction!CommitFails, Compaction!Finish
  <2>3. ASSUME NEW q \in Requests PROVE Unsettled(q)' /\ Reported(q)'
    <3>1. /\ CompactionTypes /\ Attached /\ Slotted
          /\ Unsettled(q) /\ Reported(q)
      BY DEF CompactionInv
    <3> QED
      BY <1>8, <2>0, <3>1 DEF Attached, Slotted, Unsettled, Reported, Compaction!CommitFails,
         Compaction!Finish
  <2> QED
    BY <2>1, <2>2, <2>3 DEF CompactionInv
<1>9. CASE Compaction!ReportResult(r)
  <2>1. CompactionTypes' /\ Attached'
    BY <1>9 DEF CompactionInv, Attached, Compaction!ReportResult, Compaction!Finish
  <2>2. Slotted'
    BY <1>9 DEF CompactionInv, Attached, Slotted, Compaction!ReportResult, Compaction!Finish
  <2>3. ASSUME NEW q \in Requests PROVE Unsettled(q)' /\ Reported(q)'
    <3>1. /\ CompactionTypes /\ Attached /\ Slotted
          /\ Unsettled(q) /\ Reported(q)
      BY DEF CompactionInv
    <3> QED
      <4>1. results'[q] = IF q = r THEN 1 ELSE results[q]
        BY <1>9, <3>1 DEF CompactionInv, Unsettled, Compaction!ReportResult
      <4>2. /\ stage[r] = "committed" /\ stage' = [stage EXCEPT ![r] = "done"]
            /\ jobs' = jobs \ {r} /\ UNCHANGED <<errors, outbox, committed, settled>>
        BY <1>9 DEF Compaction!ReportResult, Compaction!Finish
      <4>3. CASE q = r
        BY <3>1, <4>1, <4>2, <4>3 DEF Unsettled, Reported
      <4>4. CASE q # r
        BY <3>1, <4>1, <4>2, <4>4 DEF Unsettled, Reported
      <4> QED
        BY <4>3, <4>4
  <2> QED
    BY <2>1, <2>2, <2>3 DEF CompactionInv
<1> QED
  BY <1>1, <1>2, <1>3, <1>4, <1>5, <1>6, <1>7, <1>8, <1>9

\* A turn takes the request of its adapter's slot and leaves a job for one it finds at its end.
LEMMA TurnKeeps ==
  ASSUME CompactionInv, NEW t \in Turns,
         \/ Compaction!BuildDeps(t)
         \/ Compaction!BeginTurn(t)
         \/ Compaction!Prepare(t)
         \/ Compaction!EndTurn(t)
  PROVE  CompactionInv'
<1> USE CompactionAssumption
<1>1. CASE Compaction!BuildDeps(t)
  <2>0. adapter' \in Nat
    BY <1>1 DEF CompactionInv, Attached, Compaction!BuildDeps
  <2>1. CompactionTypes'
    BY <1>1, <2>0 DEF CompactionInv, Compaction!BuildDeps
  <2>4. Attached'
    BY <1>1 DEF CompactionInv, Attached, Compaction!BuildDeps, Compaction!WorkerFree,
       Compaction!Occupy
  <2>2. Slotted'
    BY <1>1 DEF CompactionInv, Attached, Slotted, Compaction!BuildDeps, Compaction!WorkerFree,
       Compaction!Occupy
  <2>3. ASSUME NEW q \in Requests PROVE Unsettled(q)' /\ Reported(q)'
    <3>1. /\ CompactionTypes /\ Attached /\ Slotted
          /\ Unsettled(q) /\ Reported(q)
      BY DEF CompactionInv
    <3> QED
      BY <1>1, <3>1 DEF Attached, Slotted, Unsettled, Reported, Compaction!BuildDeps,
         Compaction!WorkerFree, Compaction!Occupy
  <2> QED
    BY <2>1, <2>2, <2>3, <2>4 DEF CompactionInv
<1>2. CASE Compaction!BeginTurn(t)
  <2>1. CompactionTypes' /\ Attached'
    BY <1>2 DEF CompactionInv, Attached, Compaction!BeginTurn
  <2>2. Slotted'
    BY <1>2 DEF CompactionInv, Attached, Slotted, Compaction!BeginTurn
  <2>3. ASSUME NEW q \in Requests PROVE Unsettled(q)' /\ Reported(q)'
    <3>1. /\ CompactionTypes /\ Attached /\ Slotted
          /\ Unsettled(q) /\ Reported(q)
      BY DEF CompactionInv
    <3> QED
      BY <1>2, <3>1 DEF Attached, Slotted, Unsettled, Reported, Compaction!BeginTurn
  <2> QED
    BY <2>1, <2>2, <2>3 DEF CompactionInv
<1>3. CASE Compaction!Prepare(t)
  <2>1. CompactionTypes' /\ Attached'
    BY <1>3 DEF CompactionInv, Attached, Compaction!Prepare
  <2>2. Slotted'
    BY <1>3 DEF CompactionInv, Attached, Slotted, Compaction!Prepare
  <2>3. ASSUME NEW q \in Requests PROVE Unsettled(q)' /\ Reported(q)'
    <3>1. /\ CompactionTypes /\ Attached /\ Slotted
          /\ Unsettled(q) /\ Reported(q)
      BY DEF CompactionInv
    <3> QED
      BY <1>3, <3>1 DEF Attached, Slotted, Unsettled, Reported, Compaction!Prepare
  <2> QED
    BY <2>1, <2>2, <2>3 DEF CompactionInv
<1>4. CASE Compaction!EndTurn(t)
  <2>0. adapter \in Nat /\ slot[adapter] \in Requests \cup {Compaction!Nothing}
    BY DEF CompactionInv, Attached
  <2>4. Attached'
    BY <1>4 DEF CompactionInv, Attached, Compaction!EndTurn, Compaction!Occupy, Compaction!Failing
  <2>5. ASSUME slot[adapter] = Compaction!Nothing PROVE CompactionTypes' /\ Slotted'
    <3>1. CompactionTypes'
      BY <1>4, <2>5 DEF CompactionInv, Compaction!EndTurn
    <3>2. Slotted'
      BY <1>4, <2>5 DEF CompactionInv, Attached, Slotted, Compaction!EndTurn
    <3> QED
      BY <3>1, <3>2
  <2>6. ASSUME slot[adapter] # Compaction!Nothing PROVE CompactionTypes' /\ Slotted'
    <3> DEFINE r == slot[adapter]
    <3>1. /\ r \in Requests /\ stage[r] = "slot" /\ ask[r] = adapter
          /\ slot' = [slot EXCEPT ![adapter] = Compaction!Nothing]
          /\ stage' = [stage EXCEPT ![r] = IF closed THEN "done" ELSE "captured"]
          /\ captured' = [captured EXCEPT ![r] = generation]
          /\ ask' = [ask EXCEPT ![r] = adapter]
          /\ turn' = [turn EXCEPT ![t] = "done"]
      BY <1>4, <2>0, <2>6 DEF CompactionInv, Attached, Slotted, Compaction!EndTurn
    <3>2. errors' \in [Requests -> Nat]
      BY <1>4, <2>6, FailingAt DEF CompactionInv, Compaction!EndTurn
    <3>3. UNCHANGED <<tui, pendingModel, generation, jobs, settled, outbox, prepared, explicit,
        results>>
      BY <1>4 DEF Compaction!EndTurn
    <3> HIDE DEF r
    <3>4. CompactionTypes'
      BY <2>0, <3>1, <3>2, <3>3 DEF CompactionInv
    <3>5. Slotted'
      <4>1. \A a \in 1..MaxAdapters : slot'[a] \in Requests =>
              a # adapter /\ slot'[a] = slot[a] /\ slot[a] # r
        BY <2>0, <3>1 DEF CompactionInv, Slotted
      <4>2. \A q \in Requests : q # r => stage'[q] = stage[q] /\ ask'[q] = ask[q]
        BY <3>1 DEF CompactionInv
      <4>3. ask' \in [Requests -> Nat] /\ ask'[r] = adapter /\ adapter \in 1..MaxAdapters
        BY <2>0, <3>1 DEF CompactionInv, Attached
      <4>4. stage[r] # "idle"
        BY <3>1
      <4>5. \A a \in 1..MaxAdapters :
              slot'[a] \in Requests => stage'[slot'[a]] = "slot" /\ ask'[slot'[a]] = a
        BY <4>1, <4>2 DEF CompactionInv, Slotted
      <4>6. ASSUME NEW q \in Requests, stage'[q] # "idle" PROVE ask'[q] \in 1..MaxAdapters
        BY <4>2, <4>3, <4>6 DEF CompactionInv, Slotted
      <4> QED
        BY <4>5, <4>6 DEF Slotted
    <3> QED
      BY <3>4, <3>5
  <2>1. CompactionTypes'
    BY <2>5, <2>6
  <2>2. Slotted'
    BY <2>5, <2>6
  <2>3. ASSUME NEW q \in Requests PROVE Unsettled(q)' /\ Reported(q)'
    <3>1. /\ CompactionTypes /\ Attached /\ Slotted
          /\ Unsettled(q) /\ Reported(q)
      BY DEF CompactionInv
    <3> QED
      BY <1>4, <3>1 DEF Attached, Slotted, Unsettled, Reported, Compaction!EndTurn,
         Compaction!Occupy, Compaction!Failing
  <2> QED
    BY <2>1, <2>2, <2>3, <2>4 DEF CompactionInv
<1> QED
  BY <1>1, <1>2, <1>3, <1>4

\* The turn that compacts for a request settles it.
LEMMA ExplicitKeeps ==
  ASSUME CompactionInv, NEW r \in Requests,
         \/ Compaction!ExplicitSucceeds(r)
         \/ Compaction!ExplicitFails(r)
  PROVE  CompactionInv'
<1>1. CASE Compaction!ExplicitSucceeds(r)
  <2>1. CompactionTypes' /\ Attached'
    BY <1>1 DEF CompactionInv, Attached, Compaction!ExplicitSucceeds, Compaction!MayCommit
  <2>2. Slotted'
    BY <1>1 DEF CompactionInv, Attached, Slotted, Compaction!ExplicitSucceeds,
       Compaction!MayCommit
  <2>3. ASSUME NEW q \in Requests PROVE Unsettled(q)' /\ Reported(q)'
    <3>1. /\ CompactionTypes /\ Attached /\ Slotted
          /\ Unsettled(q) /\ Reported(q)
      BY DEF CompactionInv
    <3> QED
      <4>1. results'[q] = IF q = r THEN 1 ELSE results[q]
        BY <1>1, <3>1 DEF CompactionInv, Unsettled, Compaction!ExplicitSucceeds
      <4>2. /\ stage[r] = "explicit" /\ stage' = [stage EXCEPT ![r] = "done"]
            /\ committed' = committed \cup {r} /\ UNCHANGED <<errors, outbox, jobs, settled>>
        BY <1>1 DEF Compaction!ExplicitSucceeds
      <4>3. CASE q = r
        BY <3>1, <4>1, <4>2, <4>3 DEF Unsettled, Reported
      <4>4. CASE q # r
        BY <3>1, <4>1, <4>2, <4>4 DEF Unsettled, Reported
      <4> QED
        BY <4>3, <4>4
  <2> QED
    BY <2>1, <2>2, <2>3 DEF CompactionInv
<1>2. CASE Compaction!ExplicitFails(r)
  <2>0. /\ errors' \in [Requests -> Nat]
        /\ \A q \in Requests :
             errors'[q] = IF q = r
                          THEN errors[q] + 1 ELSE errors[q]
    BY <1>2 DEF CompactionInv, Compaction!ExplicitFails, Compaction!Failing
  <2>1. CompactionTypes' /\ Attached'
    BY <1>2, <2>0 DEF CompactionInv, Attached, Compaction!ExplicitFails
  <2>2. Slotted'
    BY <1>2, <2>0 DEF CompactionInv, Attached, Slotted, Compaction!ExplicitFails
  <2>3. ASSUME NEW q \in Requests PROVE Unsettled(q)' /\ Reported(q)'
    <3>1. /\ CompactionTypes /\ Attached /\ Slotted
          /\ Unsettled(q) /\ Reported(q)
      BY DEF CompactionInv
    <3> QED
      BY <1>2, <2>0, <3>1 DEF Attached, Slotted, Unsettled, Reported, Compaction!ExplicitFails
  <2> QED
    BY <2>1, <2>2, <2>3 DEF CompactionInv
<1> QED
  BY <1>1, <1>2

\* A change of model or of session, and the reports that wait for the worker.
LEMMA ChangeKeeps ==
  ASSUME CompactionInv,
         \/ Compaction!RequestModel
         \/ Compaction!CancelPending
         \/ Compaction!BindSession
         \/ Compaction!AttachPreparer
         \/ Compaction!DeliverErrors
  PROVE  CompactionInv'
<1> USE CompactionAssumption
<1>1. CASE Compaction!RequestModel
  <2>1. CompactionTypes' /\ Attached'
    BY <1>1, ComingCounts DEF CompactionInv, Attached, Compaction!RequestModel
  <2>2. Slotted'
    BY <1>1, ComingCounts DEF CompactionInv, Attached, Slotted, Compaction!RequestModel
  <2>3. ASSUME NEW q \in Requests PROVE Unsettled(q)' /\ Reported(q)'
    <3>1. /\ CompactionTypes /\ Attached /\ Slotted
          /\ Unsettled(q) /\ Reported(q)
      BY DEF CompactionInv
    <3> QED
      BY <1>1, ComingCounts, <3>1 DEF Attached, Slotted, Unsettled, Reported,
         Compaction!RequestModel
  <2> QED
    BY <2>1, <2>2, <2>3 DEF CompactionInv
<1>2. CASE Compaction!CancelPending
  <2>1. CompactionTypes' /\ Attached'
    BY <1>2, ComingCounts DEF CompactionInv, Attached, Compaction!CancelPending,
       Compaction!Taken, Compaction!Drop
  <2>2. Slotted'
    BY <1>2, ComingCounts DEF CompactionInv, Attached, Slotted, Compaction!CancelPending,
       Compaction!Taken, Compaction!Drop
  <2>3. ASSUME NEW q \in Requests PROVE Unsettled(q)' /\ Reported(q)'
    <3>1. /\ CompactionTypes /\ Attached /\ Slotted
          /\ Unsettled(q) /\ Reported(q)
      BY DEF CompactionInv
    <3> QED
      BY <1>2, ComingCounts, <3>1 DEF Attached, Slotted, Unsettled, Reported,
         Compaction!CancelPending, Compaction!Taken, Compaction!Drop
  <2> QED
    BY <2>1, <2>2, <2>3 DEF CompactionInv
<1>3. CASE Compaction!BindSession
  <2>0. /\ errors' \in [Requests -> Nat]
        /\ \A q \in Requests :
             errors'[q] = IF stopped /\ ~closed /\ q \in jobs \ settled
                          THEN errors[q] + 1 ELSE errors[q]
    BY <1>3, FailingAt DEF CompactionInv, Compaction!BindSession
  <2>5. /\ generation' \in Nat /\ outbox' \subseteq Requests /\ jobs' \subseteq Requests
    BY <1>3 DEF CompactionInv, Compaction!BindSession
  <2>1. CompactionTypes'
    BY <1>3, <2>0, <2>5 DEF CompactionInv, Compaction!BindSession
  <2>4. Attached'
    BY <1>3, <2>0 DEF CompactionInv, Attached, Compaction!BindSession
  <2>2. Slotted'
    BY <1>3, <2>0 DEF CompactionInv, Attached, Slotted, Compaction!BindSession
  <2>3. ASSUME NEW q \in Requests PROVE Unsettled(q)' /\ Reported(q)'
    <3>1. /\ CompactionTypes /\ Attached /\ Slotted
          /\ Unsettled(q) /\ Reported(q)
      BY DEF CompactionInv
    <3> QED
      BY <1>3, <2>0, <3>1 DEF Attached, Slotted, Unsettled, Reported, Compaction!BindSession
  <2> QED
    BY <2>1, <2>2, <2>3, <2>4 DEF CompactionInv
<1>4. CASE Compaction!AttachPreparer
  <2>1. CompactionTypes' /\ Attached'
    BY <1>4 DEF CompactionInv, Attached, Compaction!AttachPreparer
  <2>2. Slotted'
    BY <1>4 DEF CompactionInv, Attached, Slotted, Compaction!AttachPreparer
  <2>3. ASSUME NEW q \in Requests PROVE Unsettled(q)' /\ Reported(q)'
    <3>1. /\ CompactionTypes /\ Attached /\ Slotted
          /\ Unsettled(q) /\ Reported(q)
      BY DEF CompactionInv
    <3> QED
      BY <1>4, <3>1 DEF Attached, Slotted, Unsettled, Reported, Compaction!AttachPreparer
  <2> QED
    BY <2>1, <2>2, <2>3 DEF CompactionInv
<1>5. CASE Compaction!DeliverErrors
  <2>0. /\ errors' \in [Requests -> Nat]
        /\ \A q \in Requests :
             errors'[q] = IF q \in outbox
                          THEN errors[q] + 1 ELSE errors[q]
    BY <1>5, FailingAt DEF CompactionInv, Compaction!DeliverErrors
  <2>1. CompactionTypes' /\ Attached'
    BY <1>5, <2>0 DEF CompactionInv, Attached, Compaction!DeliverErrors
  <2>2. Slotted'
    BY <1>5, <2>0 DEF CompactionInv, Attached, Slotted, Compaction!DeliverErrors
  <2>3. ASSUME NEW q \in Requests PROVE Unsettled(q)' /\ Reported(q)'
    <3>1. /\ CompactionTypes /\ Attached /\ Slotted
          /\ Unsettled(q) /\ Reported(q)
      BY DEF CompactionInv
    <3> QED
      BY <1>5, <2>0, <3>1 DEF Attached, Slotted, Unsettled, Reported, Compaction!DeliverErrors
  <2> QED
    BY <2>1, <2>2, <2>3 DEF CompactionInv
<1> QED
  BY <1>1, <1>2, <1>3, <1>4, <1>5

\* Shutdown settles what it finds, and what it drops from the queue is still a job.
LEMMA ShutdownKeeps ==
  ASSUME CompactionInv,
         \/ Compaction!CloseHost
         \/ Compaction!SettleAll
         \/ Compaction!Stop
  PROVE  CompactionInv'
<1> USE CompactionAssumption
<1>1. CASE Compaction!CloseHost
  <2>1. CompactionTypes' /\ Attached'
    BY <1>1 DEF CompactionInv, Attached, Compaction!CloseHost
  <2>2. Slotted'
    BY <1>1 DEF CompactionInv, Attached, Slotted, Compaction!CloseHost
  <2>3. ASSUME NEW q \in Requests PROVE Unsettled(q)' /\ Reported(q)'
    <3>1. /\ CompactionTypes /\ Attached /\ Slotted
          /\ Unsettled(q) /\ Reported(q)
      BY DEF CompactionInv
    <3> QED
      BY <1>1, <3>1 DEF Attached, Slotted, Unsettled, Reported, Compaction!CloseHost
  <2> QED
    BY <2>1, <2>2, <2>3 DEF CompactionInv
<1>2. CASE Compaction!SettleAll
  <2>0. /\ errors' \in [Requests -> Nat]
        /\ \A q \in Requests :
             errors'[q] = IF q = slot[adapter] \/ q \in jobs \ settled
                          THEN errors[q] + 1 ELSE errors[q]
    <3>1. Compaction!Failing(Compaction!Taken(adapter) \cup (jobs \ settled))
      BY <1>2 DEF Compaction!SettleAll
    <3>2. \A q \in Requests : q # Compaction!Nothing
      OBVIOUS
    <3> QED
      BY <3>1, <3>2 DEF CompactionInv, Compaction!Taken, Compaction!Failing
  <2>1. CompactionTypes' /\ Attached'
    BY <1>2, <2>0 DEF CompactionInv, Attached, Compaction!SettleAll, Compaction!Taken,
       Compaction!Drop
  <2>2. Slotted'
    BY <1>2, <2>0 DEF CompactionInv, Attached, Slotted, Compaction!SettleAll, Compaction!Taken,
       Compaction!Drop
  <2>3. ASSUME NEW q \in Requests PROVE Unsettled(q)' /\ Reported(q)'
    <3>1. /\ CompactionTypes /\ Attached /\ Slotted
          /\ Unsettled(q) /\ Reported(q)
      BY DEF CompactionInv
    <3> QED
      BY <1>2, <2>0, <3>1 DEF Attached, Slotted, Unsettled, Reported, Compaction!SettleAll,
         Compaction!Taken, Compaction!Drop
  <2> QED
    BY <2>1, <2>2, <2>3 DEF CompactionInv
<1>3. CASE Compaction!Stop
  <2>1. CompactionTypes' /\ Attached'
    BY <1>3 DEF CompactionInv, Attached, Compaction!Stop, Compaction!Drop
  <2>2. Slotted'
    BY <1>3 DEF CompactionInv, Attached, Slotted, Compaction!Stop, Compaction!Drop
  <2>3. ASSUME NEW q \in Requests PROVE Unsettled(q)' /\ Reported(q)'
    <3>1. /\ CompactionTypes /\ Attached /\ Slotted
          /\ Unsettled(q) /\ Reported(q)
      BY DEF CompactionInv
    <3> QED
      BY <1>3, <3>1 DEF Attached, Slotted, Unsettled, Reported, Compaction!Stop, Compaction!Drop
  <2> QED
    BY <2>1, <2>2, <2>3 DEF CompactionInv
<1> QED
  BY <1>1, <1>2, <1>3

\* Nobody asked yet.
LEMMA CompactionInit == ASSUME Compaction!Init PROVE CompactionInv
<1>0. 1 \in 1..MaxAdapters
  BY CompactionAssumption
<1>1. CompactionTypes
  BY DEF Compaction!Init
<1>2. Attached /\ Slotted
  BY <1>0, CompactionAssumption DEF Compaction!Init, Attached, Slotted
<1>3. \A r \in Requests : Unsettled(r) /\ Reported(r)
  BY DEF Compaction!Init, Unsettled, Reported
<1> QED
  BY <1>1, <1>2, <1>3 DEF CompactionInv

\* Every step of the compactions keeps the invariant.
LEMMA CompactionStep ==
  ASSUME CompactionInv, Compaction!Next \/ UNCHANGED compactionVars PROVE CompactionInv'
<1>1. ASSUME UNCHANGED compactionVars PROVE CompactionInv'
  BY <1>1 DEF compactionVars, CompactionInv, Attached, Slotted, Unsettled, Reported
<1>2. ASSUME Compaction!Next PROVE CompactionInv'
  BY <1>2, RequestKeeps, JobKeeps, TurnKeeps, ExplicitKeeps, ChangeKeeps, ShutdownKeeps
     DEF Compaction!Next
<1> QED BY <1>1, <1>2

LEMMA CompactionImplies == ASSUME CompactionInv PROVE Compaction!OneOutcome
BY DEF CompactionInv, Reported, Compaction!OneOutcome

HIDE DEF Compaction!host, Compaction!reports, Compaction!turns, Compaction!Go,
         Compaction!Nothing, Early, JobStages, CompactionTypes, Silent

-----------------------------------------------------------------------------
(* EventBus: one drain at a time; the calls of the event it delivers are the *)
(* last ones made, and what is left of its subscribers is the rest of those  *)
(* the event is for.                                                         *)

MadeIn(q, e, k) == Cardinality({j \in 1..k : q[j][1] = e})

LEMMA BusCounts == ASSUME NEW S PROVE Bus!Cardinality(S) = Cardinality(S)
BY DEF Bus!Cardinality, Cardinality

LEMMA MadeIs == ASSUME NEW e, NEW k PROVE Bus!Made(e, k) = MadeIn(calls, e, k)
BY BusCounts DEF Bus!Made, MadeIn

LEMMA MadeType ==
  ASSUME NEW q, NEW e, NEW k \in Nat
  PROVE  MadeIn(q, e, k) \in Nat
<1>1. IsFiniteSet(1..k)
  BY FS_Interval
<1>2. IsFiniteSet({j \in 1..k : q[j][1] = e})
  BY <1>1, FS_Subset
<1> QED BY <1>2, FS_CardinalityType DEF MadeIn

\* One more call: the counts of the earlier ones stay, that of its event grows.
LEMMA MadeAppend ==
  ASSUME NEW T, NEW q \in Seq(T), NEW x \in T, NEW e
  PROVE  /\ \A k \in 0..Len(q) : MadeIn(Append(q, x), e, k) = MadeIn(q, e, k)
         /\ MadeIn(Append(q, x), e, Len(q) + 1) =
              MadeIn(q, e, Len(q)) + (IF x[1] = e THEN 1 ELSE 0)
<1> DEFINE n == Len(q) r == Append(q, x)
           Old == {j \in 1..n : q[j][1] = e}
           New == {j \in 1..(n + 1) : r[j][1] = e}
<1>1. n \in Nat /\ r[n + 1] = x /\ \A j \in 1..n : r[j] = q[j]
  OBVIOUS
<1>2. ASSUME NEW k \in 0..n PROVE MadeIn(r, e, k) = MadeIn(q, e, k)
  <2>1. {j \in 1..k : r[j][1] = e} = {j \in 1..k : q[j][1] = e}
    BY <1>1
  <2> QED BY <2>1 DEF MadeIn
<1>3. IsFiniteSet(Old)
  <2>1. IsFiniteSet(1..n)
    BY <1>1, FS_Interval
  <2> QED BY <2>1, FS_Subset
<1>4. CASE x[1] = e
  <2>1. New = Old \cup {n + 1} /\ n + 1 \notin Old
    BY <1>1, <1>4
  <2> HIDE DEF Old, New
  <2>2. Cardinality(New) = Cardinality(Old) + 1
    BY <1>3, <2>1, FS_AddElement
  <2> QED BY <1>2, <1>4, <2>2 DEF MadeIn, Old, New
<1>5. CASE x[1] # e
  <2>1. New = Old
    BY <1>1, <1>5
  <2>2. Cardinality(Old) \in Nat
    BY <1>3, FS_CardinalityType
  <2> HIDE DEF Old, New
  <2>3. Cardinality(New) = Cardinality(Old) + 0
    BY <2>1, <2>2
  <2> QED BY <1>2, <1>5, <2>3 DEF MadeIn, Old, New
<1> QED BY <1>2, <1>4, <1>5

LEMMA MadeNone ==
  ASSUME NEW q, NEW e, NEW k \in Nat, \A j \in 1..k : q[j][1] # e
  PROVE  MadeIn(q, e, k) = 0
<1>1. {j \in 1..k : q[j][1] = e} = {}
  OBVIOUS
<1> QED BY <1>1, FS_EmptySet DEF MadeIn

BusFates == {"none", "queued", "refused", "taken", "dropped"}

DrainPlaces == {"none", "next", "check", "handler"}
Drains == [at : DrainPlaces, event : Emits \cup {"none"}, left : Seq(Subs)]

BusTypes ==
  /\ subs \in Seq(Subs) /\ queue \in Seq(Emits) /\ draining \in BOOLEAN /\ busClosed \in BOOLEAN
  /\ drain \in [Emits -> Drains]
  /\ fate \in [Emits -> BusFates] /\ due \in [Emits -> Seq(Subs)]
  /\ calls \in Seq(Emits \X Subs)

\* At most one emit drains, one whose drain has not ended before.
OneDrain ==
  /\ draining => drainDone \in Emits \ done /\ drain[drainDone].at # "none"
                                            /\ fate[drainDone] # "none"
  /\ \A e \in Emits : drain[e].at # "none" => draining /\ drainDone = e
  /\ done \subseteq Emits /\ \A e \in done : fate[e] # "none"

\* The queue holds the queued events, each once, and is being drained.
QueueHolds ==
  /\ \A i \in 1..Len(queue) : fate[queue[i]] = "queued"
  /\ \A i, j \in 1..Len(queue) : queue[i] = queue[j] => i = j
  /\ \A e \in Emits : fate[e] = "queued" => \E i \in 1..Len(queue) : queue[i] = e
  /\ queue # <<>> => draining /\ ~busClosed

\* The calls q of handlers, as far as they were made, follow what was due.
CallsFollow(q, whom, f) ==
  /\ \A k \in 1..Len(q) :
       /\ f[q[k][1]] = "taken"
       /\ MadeIn(q, q[k][1], k) \in 1..Len(whom[q[k][1]])
       /\ q[k][2] = whom[q[k][1]][MadeIn(q, q[k][1], k)]
  /\ \A i, j \in 1..Len(q) : q[i][1] = q[j][1] => \A k \in i..j : q[k][1] = q[i][1]

\* What a drain d still has to do for its event.
Delivering(d, q, whom, f) ==
  LET e == d.event m == MadeIn(q, e, Len(q))
  IN /\ e \in Emits /\ f[e] = "taken" /\ m + Len(d.left) = Len(whom[e])
     /\ \A i \in 1..Len(d.left) : d.left[i] = whom[e][m + i]
     /\ \A i \in 1..Len(q) : q[i][1] = e => \A k \in i..Len(q) : q[k][1] = e

Busy(d) == d.at \in {"check", "handler"}

Deliveries ==
  /\ CallsFollow(calls, due, fate)
  /\ \A d \in Emits : Busy(drain[d]) => Delivering(drain[d], calls, due, fate)
  /\ \A e \in Emits : fate[e] = "taken" /\ MadeIn(calls, e, Len(calls)) < Len(due[e]) =>
       busClosed \/ \E d \in Emits : Busy(drain[d]) /\ drain[d].event = e

\* The waiter waits for the last drain there can be.
Waited ==
  /\ waiter # "none" => busClosed
  /\ waiter = "joined" => ~draining
  /\ waiter \notin {"none", "joined"} => waiter = drainDone

BusInv == BusTypes /\ OneDrain /\ QueueHolds /\ Deliveries /\ Waited

USE BusAssumption

LEMMA BusInit == ASSUME Bus!Init PROVE BusInv
<1> USE DEF Bus!Init, Bus!Stopped
<1>1. BusTypes
  <2>1. <<>> \in Seq(Subs) /\ <<>> \in Seq(Emits) /\ <<>> \in Seq(Emits \X Subs)
    OBVIOUS
  <2>2. [at |-> "none", event |-> "none", left |-> <<>>] \in Drains
    BY <2>1 DEF Drains, DrainPlaces
  <2> QED BY <2>1, <2>2 DEF BusTypes, BusFates
<1>2. OneDrain /\ Waited
  BY DEF OneDrain, Waited
<1>3. QueueHolds
  BY DEF QueueHolds
<1>4. Deliveries
  BY DEF Deliveries, CallsFollow, Busy
<1> QED BY <1>1, <1>2, <1>3, <1>4 DEF BusInv

\* A drain moves on: nothing else of it changes.
LEMMA DrainMoves ==
  ASSUME drain \in [Emits -> Drains], NEW e \in Emits, NEW x \in DrainPlaces,
         drain' = [drain EXCEPT ![e].at = x]
  PROVE  /\ drain' \in [Emits -> Drains]
         /\ drain'[e].at = x /\ drain'[e].event = drain[e].event
         /\ drain'[e].left = drain[e].left
         /\ \A d \in Emits \ {e} : drain'[d] = drain[d]
<1>1. drain[e] \in Drains
  OBVIOUS
<1>2. [drain[e] EXCEPT !.at = x] \in Drains
  BY <1>1 DEF Drains
<1>3. drain' = [drain EXCEPT ![e] = [drain[e] EXCEPT !.at = x]]
  OBVIOUS
<1>4. drain' \in [Emits -> Drains]
  BY <1>2, <1>3
<1>5. drain'[e] = [drain[e] EXCEPT !.at = x] /\ \A d \in Emits \ {e} : drain'[d] = drain[d]
  BY <1>3
<1>6. /\ drain'[e].at = x /\ drain'[e].event = drain[e].event
      /\ drain'[e].left = drain[e].left
  BY <1>1, <1>5 DEF Drains
<1> QED BY <1>4, <1>5, <1>6

\* Steps that leave events, drains and calls alone.
LEMMA SubscribeKeeps ==
  ASSUME BusInv, NEW s \in Subs, Bus!Subscribe(s) \/ Bus!Remove(s)
  PROVE  BusInv'
<1>1. subs' \in Seq(Subs)
  <2>1. subs \in Seq(Subs)
    BY DEF BusInv, BusTypes
  <2>2. CASE Bus!Subscribe(s)
    BY <2>1, <2>2 DEF Bus!Subscribe
  <2>3. CASE Bus!Remove(s)
    <3>1. PICK i \in DOMAIN subs :
            subs' = SubSeq(subs, 1, i - 1) \o SubSeq(subs, i + 1, Len(subs))
      BY <2>3 DEF Bus!Remove
    <3>2. SubSeq(subs, 1, i - 1) \in Seq(Subs) /\ SubSeq(subs, i + 1, Len(subs)) \in Seq(Subs)
      BY <2>1
    <3> QED BY <3>1, <3>2
  <2> QED BY <2>2, <2>3
<1>2. UNCHANGED <<queue, draining, nested, busClosed, drainDone, done, drain, fate, due, calls,
                  waiter>>
  BY DEF Bus!Subscribe, Bus!Remove
<1> QED BY <1>1, <1>2 DEF BusInv, BusTypes, OneDrain, QueueHolds, Deliveries, Waited

LEMMA WaitKeeps == ASSUME BusInv, Bus!Wait PROVE BusInv'
<1>1. UNCHANGED <<subs, queue, draining, nested, busClosed, drainDone, done, drain, fate, due,
                  calls>>
  BY DEF Bus!Wait
<1>2. Waited'
  <2>1. /\ draining => drainDone \in Emits \ done
        /\ done \subseteq Emits /\ busClosed
        /\ waiter \notin {"none", "joined"} => waiter = drainDone
    BY DEF Bus!Wait, BusInv, OneDrain, Waited
  <2>2. CASE waiter' = IF drainDone = "none" THEN "joined" ELSE drainDone
    BY <1>1, <2>1, <2>2 DEF Waited
  <2>3. CASE waiter \in done /\ waiter' = "joined"
    BY <1>1, <2>1, <2>3 DEF Waited
  <2> QED BY <2>2, <2>3 DEF Bus!Wait
<1> QED BY <1>1, <1>2 DEF BusInv, BusTypes, OneDrain, QueueHolds, Deliveries

\* The fates that change are not those of events that were taken.
LEMMA FateChanges ==
  ASSUME Deliveries, UNCHANGED <<due, calls>>, busClosed => busClosed', BusTypes,
         \A e \in Emits : (fate[e] = "taken") <=> (fate'[e] = "taken"),
         \A d \in Emits : Busy(drain[d]) \/ Busy(drain'[d]) => drain'[d] = drain[d]
  PROVE  Deliveries'
<1>1. CallsFollow(calls, due, fate')
  <2>1. \A k \in 1..Len(calls) : calls[k][1] \in Emits
    BY DEF BusTypes
  <2> QED BY <2>1 DEF Deliveries, CallsFollow
<1>2. ASSUME NEW d \in Emits, Busy(drain'[d]) PROVE Delivering(drain'[d], calls, due, fate')
  BY <1>2 DEF Deliveries, Delivering
<1>3. ASSUME NEW e \in Emits, fate'[e] = "taken", MadeIn(calls, e, Len(calls)) < Len(due[e])
      PROVE  busClosed' \/ \E d \in Emits : Busy(drain'[d]) /\ drain'[d].event = e
  BY <1>3 DEF Deliveries
<1> QED BY <1>1, <1>2, <1>3 DEF Deliveries

LEMMA CloseKeeps == ASSUME BusInv, Bus!Close PROVE BusInv'
<1>1. BusTypes' /\ OneDrain' /\ QueueHolds' /\ Waited'
  BY DEF Bus!Close, BusInv, BusTypes, BusFates, OneDrain, QueueHolds, Waited
<1>2. Deliveries'
  BY FateChanges DEF Bus!Close, BusInv, BusTypes
<1> QED BY <1>1, <1>2 DEF BusInv

LEMMA EmitKeeps ==
  ASSUME BusInv, NEW e \in Emits, Bus!Emit(e)
  PROVE  BusInv'
<1> USE DEF BusInv
<1>1. CASE busClosed \/ (draining /\ nested >= QueueLimit)
  <2>1. /\ fate[e] = "none" /\ fate' = [fate EXCEPT ![e] = "refused"]
        /\ UNCHANGED <<subs, queue, draining, nested, busClosed, drainDone, done, drain, due,
                       calls, subscribed, waiter>>
    BY <1>1 DEF Bus!Emit
  <2>2. BusTypes' /\ OneDrain' /\ QueueHolds' /\ Waited'
    BY <2>1 DEF BusTypes, BusFates, OneDrain, QueueHolds, Waited
  <2>3. Deliveries'
    BY <2>1, FateChanges DEF BusTypes
  <2> QED BY <2>2, <2>3
<1>2. CASE ~(busClosed \/ (draining /\ nested >= QueueLimit))
  <2>1. /\ fate[e] = "none" /\ fate' = [fate EXCEPT ![e] = "queued"] /\ ~busClosed
        /\ queue' = Append(queue, e)
        /\ UNCHANGED <<subs, busClosed, done, due, calls, subscribed, waiter>>
        /\ draining' = TRUE
        /\ IF draining THEN UNCHANGED <<drainDone, drain>>
           ELSE drainDone' = e /\ drain' = [drain EXCEPT ![e].at = "next"]
    BY <1>2 DEF Bus!Emit, BusTypes
  <2>2. BusTypes'
    <3>1. drain' \in [Emits -> Drains]
      BY <2>1, DrainMoves DEF BusTypes, DrainPlaces
    <3>2. queue' \in Seq(Emits) /\ fate' \in [Emits -> BusFates]
      BY <2>1 DEF BusTypes, BusFates
    <3> QED BY <2>1, <3>1, <3>2 DEF BusTypes
  <2>3. OneDrain'
    <3>1. \A d \in Emits : fate[d] # "none" => fate'[d] # "none"
      BY <2>1 DEF BusTypes
    <3>2. CASE draining
      BY <2>1, <3>1, <3>2 DEF OneDrain
    <3>3. CASE ~draining
      <4>1. /\ drain'[e].at = "next" /\ \A d \in Emits \ {e} : drain'[d] = drain[d]
        BY <2>1, <3>3, DrainMoves DEF BusTypes, DrainPlaces
      <4>2. fate'[e] = "queued" /\ e \notin done
        BY <2>1 DEF BusTypes, OneDrain
      <4> QED BY <2>1, <3>1, <3>3, <4>1, <4>2 DEF OneDrain
    <3> QED BY <3>2, <3>3
  <2>4. QueueHolds'
    <3>1. /\ Len(queue') = Len(queue) + 1 /\ queue'[Len(queue) + 1] = e
          /\ \A i \in 1..Len(queue) : queue'[i] = queue[i] /\ queue[i] \in Emits
          /\ Len(queue) \in Nat
      BY <2>1 DEF BusTypes
    <3>2. \A i \in 1..Len(queue) : queue[i] # e
      BY <2>1 DEF QueueHolds
    <3>3. fate'[e] = "queued" /\ \A d \in Emits \ {e} : fate'[d] = fate[d]
      BY <2>1 DEF BusTypes
    <3>4. \A i \in 1..Len(queue') : fate'[queue'[i]] = "queued"
      BY <3>1, <3>2, <3>3 DEF QueueHolds
    <3>5. \A i, j \in 1..Len(queue') : queue'[i] = queue'[j] => i = j
      BY <3>1, <3>2 DEF QueueHolds
    <3>6. ASSUME NEW d \in Emits, fate'[d] = "queued"
          PROVE  \E i \in 1..Len(queue') : queue'[i] = d
      <4>1. CASE d = e
        BY <3>1, <4>1
      <4>2. CASE d # e
        <5>1. PICK i \in 1..Len(queue) : queue[i] = d
          BY <3>3, <3>6, <4>2 DEF QueueHolds
        <5> QED BY <3>1, <5>1
      <4> QED BY <4>1, <4>2
    <3> QED BY <2>1, <3>4, <3>5, <3>6 DEF QueueHolds
  <2>5. Waited'
    BY <2>1 DEF Waited
  <2>6. Deliveries'
    <3>1. \A d \in Emits : Busy(drain[d]) \/ Busy(drain'[d]) => drain'[d] = drain[d]
      <4>1. CASE draining
        BY <2>1, <4>1
      <4>2. CASE ~draining
        <5>1. /\ drain'[e].at = "next" /\ \A d \in Emits \ {e} : drain'[d] = drain[d]
          BY <2>1, <4>2, DrainMoves DEF BusTypes, DrainPlaces
        <5>2. \A d \in Emits : drain[d].at = "none"
          BY <4>2 DEF OneDrain, BusTypes
        <5> QED BY <5>1, <5>2 DEF Busy
      <4> QED BY <4>1, <4>2
    <3> QED BY <2>1, <3>1, FateChanges DEF BusTypes
  <2> QED BY <2>2, <2>3, <2>4, <2>5, <2>6
<1> QED BY <1>1, <1>2

\* The drain of e ends, or takes an event no call was made for yet.
LEMMA TakeKeeps ==
  ASSUME BusInv, NEW e \in Emits, Bus!Take(e)
  PROVE  BusInv'
<1> USE DEF BusInv
<1>1. drain[e].at = "next" /\ draining /\ drainDone = e
  BY DEF Bus!Take, OneDrain
<1>2. CASE busClosed \/ queue = <<>>
  <2>1. /\ queue' = <<>> /\ draining' = FALSE /\ done' = done \cup {e}
        /\ drain' = [drain EXCEPT ![e] = [at |-> "none", event |-> "none", left |-> <<>>]]
        /\ UNCHANGED <<fate, due, subs, busClosed, drainDone, calls, subscribed, waiter>>
    BY <1>1, <1>2 DEF Bus!Take, Bus!Stopped
  <2>2. BusTypes'
    <3>1. [at |-> "none", event |-> "none", left |-> <<>>] \in Drains
      BY DEF Drains, DrainPlaces
    <3>2. drain' \in [Emits -> Drains] /\ queue' \in Seq(Emits)
      BY <2>1, <3>1 DEF BusTypes
    <3> QED BY <2>1, <3>2 DEF BusTypes
  <2>3. OneDrain' /\ Waited'
    <3>1. drain'[e].at = "none" /\ \A d \in Emits \ {e} : drain'[d] = drain[d]
      BY <2>1 DEF BusTypes
    <3> QED BY <1>1, <2>1, <3>1 DEF OneDrain, Waited
  <2>4. QueueHolds'
    <3>1. \A d \in Emits : fate[d] # "queued"
      BY <1>2 DEF QueueHolds
    <3> QED BY <2>1, <3>1 DEF QueueHolds
  <2>5. Deliveries'
    <3>1. \A d \in Emits : Busy(drain[d]) \/ Busy(drain'[d]) => drain'[d] = drain[d]
      BY <1>1, <2>1 DEF BusTypes, Busy
    <3> QED BY <2>1, <3>1, FateChanges DEF BusTypes
  <2> QED BY <2>2, <2>4, <2>5, <2>3
<1>3. CASE ~(busClosed \/ queue = <<>>)
  <2> DEFINE h == Head(queue)
  <2>1. /\ queue' = Tail(queue)
        /\ drain' = [drain EXCEPT ![e] = [at |-> "check", event |-> h, left |-> subs]]
        /\ fate' = [fate EXCEPT ![h] = "taken"] /\ due' = [due EXCEPT ![h] = subs]
        /\ UNCHANGED <<draining, done, subs, busClosed, drainDone, calls, subscribed, waiter>>
    BY <1>3 DEF Bus!Take
  <2>2. /\ h \in Emits /\ fate[h] = "queued" /\ h = queue[1] /\ Len(queue) \in Nat \ {0}
        /\ Len(queue') = Len(queue) - 1
        /\ \A i \in 1..(Len(queue) - 1) : queue'[i] = queue[i + 1]
        /\ queue' \in Seq(Emits)
    BY <1>3, <2>1 DEF BusTypes, QueueHolds
  <2> HIDE DEF h
  <2>3. BusTypes'
    <3>1. [at |-> "check", event |-> h, left |-> subs] \in Drains
      BY <2>2 DEF Drains, DrainPlaces, BusTypes
    <3>2. drain' \in [Emits -> Drains]
      BY <2>1, <3>1 DEF BusTypes
    <3>3. due' \in [Emits -> Seq(Subs)] /\ fate' \in [Emits -> BusFates]
      BY <2>1 DEF BusTypes, BusFates
    <3> QED BY <2>1, <2>2, <3>2, <3>3 DEF BusTypes
  <2>4. OneDrain' /\ Waited'
    <3>1. drain'[e].at = "check" /\ \A d \in Emits \ {e} : drain'[d] = drain[d]
      BY <2>1 DEF BusTypes
    <3>2. \A d \in Emits : fate[d] # "none" => fate'[d] # "none"
      BY <2>1 DEF BusTypes
    <3> QED BY <1>1, <2>1, <3>1, <3>2 DEF OneDrain, Waited
  <2>5. QueueHolds'
    <3>1. \A i \in 2..Len(queue) : fate'[queue[i]] = "queued"
      <4>1. \A i \in 2..Len(queue) : queue[i] # h /\ queue[i] \in Emits
        <5>1. \A i \in 2..Len(queue) : i \in 1..Len(queue) /\ 1 \in 1..Len(queue) /\ i # 1
          BY <2>2
        <5>2. \A i \in 2..Len(queue) : queue[i] # h
          BY <2>2, <5>1 DEF QueueHolds
        <5>3. \A i \in 1..Len(queue) : queue[i] \in Emits
          BY DEF BusTypes
        <5> QED BY <5>1, <5>2, <5>3
      <4> QED BY <2>1, <2>2, <4>1 DEF QueueHolds, BusTypes
    <3>2. \A i \in 1..Len(queue') : fate'[queue'[i]] = "queued"
      BY <2>2, <3>1
    <3>3. \A i, j \in 1..Len(queue') : queue'[i] = queue'[j] => i = j
      BY <2>2 DEF QueueHolds
    <3>4. ASSUME NEW d \in Emits, fate'[d] = "queued"
          PROVE  \E i \in 1..Len(queue') : queue'[i] = d
      <4>1. d # h /\ fate[d] = "queued"
        BY <2>1, <2>2, <3>4 DEF BusTypes
      <4>2. PICK i \in 1..Len(queue) : queue[i] = d
        BY <4>1 DEF QueueHolds
      <4>3. i - 1 \in 1..Len(queue') /\ queue'[i - 1] = d
        BY <2>2, <4>1, <4>2
      <4> QED BY <4>3
    <3> QED BY <1>1, <2>1, <3>2, <3>3, <3>4 DEF QueueHolds
  <2>6. Deliveries'
    <3>1. \A k \in 1..Len(calls) : calls[k][1] \in Emits \ {h}
      <4>1. \A k \in 1..Len(calls) : calls[k] \in Emits \X Subs
        BY DEF BusTypes
      <4>2. \A k \in 1..Len(calls) : calls[k][1] \in Emits
        BY <4>1
      <4>3. \A k \in 1..Len(calls) : fate[calls[k][1]] = "taken"
        BY DEF Deliveries, CallsFollow
      <4>4. fate[h] # "taken"
        BY <2>2
      <4> QED BY <4>2, <4>3, <4>4
    <3>2. CallsFollow(calls, due', fate')
      <4>1. \A k \in 1..Len(calls) : /\ due'[calls[k][1]] = due[calls[k][1]]
                                     /\ fate'[calls[k][1]] = fate[calls[k][1]]
        BY <2>1, <3>1 DEF BusTypes
      <4> QED BY <4>1 DEF Deliveries, CallsFollow
    <3>3. \A d \in Emits \ {e} : ~Busy(drain'[d]) /\ ~Busy(drain[d])
      BY <1>1, <2>1 DEF OneDrain, BusTypes, Busy
    <3>4. /\ drain'[e] = [at |-> "check", event |-> h, left |-> subs]
          /\ due'[h] = subs /\ fate'[h] = "taken"
      BY <2>1, <2>2 DEF BusTypes
    <3>5. Delivering(drain'[e], calls, due', fate')
      <4>1. Len(subs) \in Nat /\ Len(calls) \in Nat
        BY DEF BusTypes
      <4>2. MadeIn(calls, h, Len(calls)) = 0
        <5>1. \A k \in 1..Len(calls) : calls[k][1] # h
          BY <3>1
        <5> QED BY <4>1, <5>1, MadeNone
      <4> QED BY <2>2, <3>1, <3>4, <4>2, <4>1 DEF Delivering
    <3>6. ASSUME NEW d \in Emits, fate'[d] = "taken",
                 MadeIn(calls, d, Len(calls)) < Len(due'[d])
          PROVE  busClosed' \/ \E c \in Emits : Busy(drain'[c]) /\ drain'[c].event = d
      <4>1. CASE d = h
        BY <3>4, <4>1 DEF Busy
      <4>2. CASE d # h
        <5>1. fate[d] = "taken" /\ due'[d] = due[d]
          BY <2>1, <3>6, <4>2 DEF BusTypes
        <5>2. \A c \in Emits : ~Busy(drain[c])
          BY <1>1, <3>3 DEF Busy
        <5> QED BY <2>1, <3>6, <5>1, <5>2 DEF Deliveries
      <4> QED BY <4>1, <4>2
    <3> QED BY <2>1, <3>2, <3>3, <3>5, <3>6 DEF Deliveries
  <2> QED BY <2>3, <2>4, <2>5, <2>6
<1> QED BY <1>2, <1>3

\* A handler ends, or the drain of e is done with its event.
LEMMA HandlerEndsKeeps ==
  ASSUME BusInv, NEW e \in Emits, Bus!HandlerEnds(e)
  PROVE  BusInv'
<1> USE DEF BusInv
<1>1. /\ drain[e].at = "handler" /\ drain' = [drain EXCEPT ![e].at = "check"]
      /\ UNCHANGED <<subs, queue, draining, nested, busClosed, drainDone, done, fate, due,
                     calls, subscribed, waiter>>
  BY DEF Bus!HandlerEnds
<1>2. /\ drain' \in [Emits -> Drains]
      /\ drain'[e].at = "check" /\ drain'[e].event = drain[e].event
      /\ drain'[e].left = drain[e].left
      /\ \A d \in Emits \ {e} : drain'[d] = drain[d]
  BY <1>1, DrainMoves DEF BusTypes, DrainPlaces
<1>3. BusTypes' /\ OneDrain' /\ QueueHolds' /\ Waited'
  <2>1. BusTypes' /\ QueueHolds' /\ Waited'
    BY <1>1, <1>2 DEF BusTypes, QueueHolds, Waited
  <2>2. OneDrain'
    BY <1>1, <1>2 DEF OneDrain
  <2> QED BY <2>1, <2>2
<1>4. \A d \in Emits : /\ Busy(drain'[d]) <=> Busy(drain[d])
                       /\ drain'[d].event = drain[d].event /\ drain'[d].left = drain[d].left
  BY <1>1, <1>2 DEF Busy
<1>5. Deliveries'
  BY <1>1, <1>4 DEF Deliveries, Delivering
<1> QED BY <1>3, <1>5

\* The next subscriber left is the next one due: its call comes after those made.
LEMMA CallFollows ==
  ASSUME NEW q \in Seq(Emits \X Subs), NEW whom \in [Emits -> Seq(Subs)], NEW f, NEW d,
         d.left \in Seq(Subs), d.left # <<>>, CallsFollow(q, whom, f),
         Delivering(d, q, whom, f)
  PROVE  LET x == <<d.event, Head(d.left)>> r == Append(q, x)
         IN /\ r \in Seq(Emits \X Subs) /\ CallsFollow(r, whom, f)
            /\ \A rest : rest.event = d.event /\ rest.left = Tail(d.left) =>
                 Delivering(rest, r, whom, f)
            /\ \A e \in Emits : MadeIn(q, e, Len(q)) <= MadeIn(r, e, Len(r))
<1> DEFINE e == d.event h == Head(d.left) x == <<e, h>> r == Append(q, x) n == Len(q)
           m == MadeIn(q, e, n)
<1>1. e \in Emits /\ h \in Subs /\ h = d.left[1] /\ Len(d.left) \in Nat \ {0}
  BY DEF Delivering
<1>2. x \in Emits \X Subs /\ x[1] = e /\ x[2] = h
  BY <1>1
<1>3. n \in Nat /\ Len(r) = n + 1 /\ r[n + 1] = x /\ \A k \in 1..n : r[k] = q[k]
  BY <1>2
<1>4. m \in Nat /\ m + Len(d.left) = Len(whom[e]) /\ f[e] = "taken" /\ h = whom[e][m + 1]
  BY <1>1, <1>3, MadeType DEF Delivering
<1>5. \A c : /\ \A k \in 0..n : MadeIn(r, c, k) = MadeIn(q, c, k)
             /\ MadeIn(r, c, n + 1) = MadeIn(q, c, n) + (IF e = c THEN 1 ELSE 0)
  BY <1>2, MadeAppend
<1>6. r \in Seq(Emits \X Subs)
  BY <1>2
<1>7. \A i \in 1..n : q[i][1] = e => \A k \in i..n : q[k][1] = e
  BY DEF Delivering
<1> HIDE DEF x, r, m, h
<1>8. CallsFollow(r, whom, f)
  <2>1. ASSUME NEW k \in 1..(n + 1)
        PROVE  /\ f[r[k][1]] = "taken"
               /\ MadeIn(r, r[k][1], k) \in 1..Len(whom[r[k][1]])
               /\ r[k][2] = whom[r[k][1]][MadeIn(r, r[k][1], k)]
    <3>1. CASE k = n + 1
      <4>1. MadeIn(r, e, k) = m + 1
        BY <1>5, <3>1 DEF m
      <4> QED BY <1>1, <1>2, <1>3, <1>4, <3>1, <4>1
    <3>2. CASE k # n + 1
      <4>1. k \in 1..n /\ r[k] = q[k] /\ MadeIn(r, q[k][1], k) = MadeIn(q, q[k][1], k)
        BY <1>3, <1>5, <3>2
      <4> QED BY <4>1 DEF CallsFollow
    <3> QED BY <3>1, <3>2
  <2>2. ASSUME NEW i \in 1..(n + 1), NEW j \in 1..(n + 1), r[i][1] = r[j][1], NEW k \in i..j
        PROVE  r[k][1] = r[i][1]
    <3>1. CASE j \in 1..n
      <4>1. k \in Int /\ i <= k /\ k <= j /\ j <= n /\ 1 <= i
        BY <1>3, <2>2, <3>1
      <4>2. i \in 1..n /\ k \in 1..n
        BY <1>3, <2>2, <4>1
      <4>3. r[i] = q[i] /\ r[j] = q[j] /\ r[k] = q[k]
        BY <1>3, <3>1, <4>2
      <4>4. q[k][1] = q[i][1]
        BY <2>2, <3>1, <4>2, <4>3 DEF CallsFollow
      <4> QED BY <4>3, <4>4
    <3>2. CASE i \in 1..n /\ j = n + 1
      <4>1. q[i][1] = e
        BY <1>2, <1>3, <2>2, <3>2
      <4>2. CASE k = n + 1
        BY <1>2, <1>3, <2>2, <3>2, <4>2
      <4>3. CASE k # n + 1
        <5>1. k \in i..n /\ k \in 1..n
          BY <1>3, <2>2, <3>2, <4>3
        <5> QED BY <1>3, <1>7, <3>2, <4>1, <5>1
      <4> QED BY <4>2, <4>3
    <3>3. CASE i = n + 1 /\ j = n + 1
      BY <1>3, <2>2, <3>3
    <3> QED BY <1>3, <3>1, <3>2, <3>3
  <2> QED BY <1>3, <2>1, <2>2 DEF CallsFollow
<1>9. ASSUME NEW rest, rest.event = e, rest.left = Tail(d.left)
      PROVE  Delivering(rest, r, whom, f)
  <2>1. MadeIn(r, e, Len(r)) = m + 1
    BY <1>3, <1>5 DEF m
  <2>2. /\ Len(rest.left) = Len(d.left) - 1
        /\ \A i \in 1..(Len(d.left) - 1) : rest.left[i] = d.left[i + 1]
    BY <1>1, <1>9
  <2>3. \A i \in 1..(Len(d.left) - 1) : rest.left[i] = whom[e][m + 1 + i]
    <3>1. \A i \in 1..Len(d.left) : d.left[i] = whom[e][m + i]
      BY DEF Delivering, m
    <3>2. ASSUME NEW i \in 1..(Len(d.left) - 1) PROVE rest.left[i] = whom[e][m + 1 + i]
      <4>1. i + 1 \in 1..Len(d.left) /\ m + (i + 1) = m + 1 + i
        BY <1>1, <1>4
      <4> QED BY <2>2, <3>1, <4>1
    <3> QED BY <3>2
  <2>4. \A i \in 1..(n + 1) : r[i][1] = e => \A k \in i..(n + 1) : r[k][1] = e
    <3>1. ASSUME NEW i \in 1..(n + 1), r[i][1] = e, NEW k \in i..(n + 1)
          PROVE  r[k][1] = e
      <4>1. CASE k = n + 1
        BY <1>2, <1>3, <4>1
      <4>2. CASE k # n + 1
        <5>1. i \in 1..n /\ k \in i..n /\ k \in 1..n
          BY <1>3, <3>1, <4>2
        <5> QED BY <1>3, <1>7, <3>1, <5>1
      <4> QED BY <4>1, <4>2
    <3> QED BY <3>1
  <2>5. (m + 1) + Len(rest.left) = Len(whom[e])
    <3>1. m \in Nat /\ m + Len(d.left) = Len(whom[e])
      BY <1>4
    <3>2. Len(d.left) \in Nat /\ Len(rest.left) = Len(d.left) - 1
      BY <1>1, <2>2
    <3> DEFINE a == Len(d.left) b == Len(rest.left) c == Len(whom[e])
    <3>3. m \in Nat /\ a \in Nat /\ b = a - 1 /\ m + a = c
      BY <3>1, <3>2
    <3> HIDE DEF a, b, c
    <3>4. (m + 1) + b = c
      BY <3>3
    <3> QED BY <3>4 DEF b, c
  <2>6. \A i \in 1..Len(rest.left) : rest.left[i] = whom[e][(m + 1) + i]
    BY <2>2, <2>3
  <2> HIDE DEF e
  <2> QED BY <1>1, <1>3, <1>4, <1>9, <2>1, <2>4, <2>5, <2>6 DEF Delivering
<1>10. ASSUME NEW c \in Emits PROVE MadeIn(q, c, n) <= MadeIn(r, c, Len(r))
  <2>1. MadeIn(q, c, n) \in Nat
    BY <1>3, MadeType
  <2> QED BY <1>3, <1>5, <2>1
<1> QED BY <1>6, <1>8, <1>9, <1>10 DEF r, x, h

LEMMA CheckKeeps ==
  ASSUME BusInv, NEW e \in Emits, Bus!Check(e)
  PROVE  BusInv'
<1> USE DEF BusInv
<1>1. /\ drain[e].at = "check"
      /\ UNCHANGED <<subs, queue, draining, nested, busClosed, drainDone, done, fate, due,
                     subscribed, waiter>>
  BY DEF Bus!Check
<1>2. Delivering(drain[e], calls, due, fate) /\ CallsFollow(calls, due, fate)
  BY <1>1 DEF Deliveries, Busy
<1>3. \A d \in Emits \ {e} : ~Busy(drain[d])
  BY <1>1 DEF OneDrain, Busy
<1>4. CASE busClosed \/ drain[e].left = <<>>
  <2>1. drain' = [drain EXCEPT ![e].at = "next"] /\ calls' = calls
    BY <1>4 DEF Bus!Check
  <2>2. /\ drain' \in [Emits -> Drains] /\ drain'[e].at = "next"
        /\ \A d \in Emits \ {e} : drain'[d] = drain[d]
    BY <2>1, DrainMoves DEF BusTypes, DrainPlaces
  <2>3. BusTypes' /\ OneDrain' /\ QueueHolds' /\ Waited'
    <3>1. BusTypes' /\ QueueHolds' /\ Waited'
      BY <1>1, <2>1, <2>2 DEF BusTypes, QueueHolds, Waited
    <3>2. OneDrain'
      BY <1>1, <2>2 DEF OneDrain
    <3> QED BY <3>1, <3>2
  <2>4. \A d \in Emits : ~Busy(drain'[d])
    BY <1>3, <2>2 DEF Busy
  <2>5. ASSUME NEW d \in Emits, fate[d] = "taken",
               MadeIn(calls, d, Len(calls)) < Len(due[d]), ~busClosed
        PROVE  FALSE
    <3>1. drain[e].event = d
      BY <1>3, <2>5 DEF Deliveries
    <3>2. MadeIn(calls, d, Len(calls)) + 0 = Len(due[d]) /\ Len(calls) \in Nat
      BY <1>2, <1>4, <2>5, <3>1 DEF Delivering, BusTypes
    <3>3. MadeIn(calls, d, Len(calls)) \in Nat
      BY <3>2, MadeType
    <3> QED BY <2>5, <3>2, <3>3
  <2>6. Deliveries'
    BY <1>1, <1>2, <2>1, <2>4, <2>5 DEF Deliveries
  <2> QED BY <2>3, <2>6
<1>5. CASE ~(busClosed \/ drain[e].left = <<>>)
  <2>1. /\ drain' = [drain EXCEPT ![e].at = "handler", ![e].left = Tail(@)]
        /\ calls' = Append(calls, <<drain[e].event, Head(drain[e].left)>>)
    BY <1>5 DEF Bus!Check
  <2>2. /\ drain[e].left \in Seq(Subs) /\ calls \in Seq(Emits \X Subs)
        /\ due \in [Emits -> Seq(Subs)] /\ drain[e].left # <<>>
    BY <1>5 DEF BusTypes, Drains
  <2>3. /\ calls' \in Seq(Emits \X Subs) /\ CallsFollow(calls', due, fate)
        /\ \A rest : rest.event = drain[e].event /\ rest.left = Tail(drain[e].left) =>
             Delivering(rest, calls', due, fate)
        /\ \A d \in Emits :
             MadeIn(calls, d, Len(calls)) <= MadeIn(calls', d, Len(calls'))
    BY <1>2, <2>1, <2>2, CallFollows
  <2>4. /\ drain'[e].at = "handler" /\ drain'[e].event = drain[e].event
        /\ drain'[e].left = Tail(drain[e].left)
        /\ \A d \in Emits \ {e} : drain'[d] = drain[d]
    BY <2>1 DEF BusTypes, Drains
  <2>5. BusTypes'
    <3>1. Tail(drain[e].left) \in Seq(Subs)
      BY <2>2
    <3>2. drain'[e] = [drain[e] EXCEPT !.at = "handler", !.left = Tail(drain[e].left)]
      BY <2>1 DEF BusTypes
    <3>3. drain'[e] \in Drains
      BY <3>1, <3>2 DEF BusTypes, Drains, DrainPlaces
    <3>4. drain' = [drain EXCEPT ![e] = drain'[e]]
      BY <2>1, <2>4 DEF BusTypes
    <3>5. drain' \in [Emits -> Drains]
      BY <3>3, <3>4 DEF BusTypes
    <3> QED BY <1>1, <2>3, <3>5 DEF BusTypes
  <2>6. OneDrain' /\ QueueHolds' /\ Waited'
    BY <1>1, <2>4 DEF OneDrain, QueueHolds, Waited
  <2>7. ASSUME NEW d \in Emits, fate[d] = "taken",
               MadeIn(calls', d, Len(calls')) < Len(due[d])
        PROVE  busClosed \/ \E c \in Emits : Busy(drain'[c]) /\ drain'[c].event = d
    <3>1. /\ MadeIn(calls, d, Len(calls)) \in Nat /\ MadeIn(calls', d, Len(calls')) \in Nat
          /\ Len(due[d]) \in Nat
      BY <2>2, <2>3, MadeType
    <3>2. MadeIn(calls, d, Len(calls)) < Len(due[d])
      BY <2>3, <2>7, <3>1
    <3> QED BY <1>3, <2>4, <2>7, <3>2 DEF Deliveries, Busy
  <2>8. \A d \in Emits : Busy(drain'[d]) => d = e
    BY <1>3, <2>4
  <2>9. Deliveries'
    BY <1>1, <2>3, <2>4, <2>7, <2>8 DEF Deliveries
  <2> QED BY <2>5, <2>6, <2>9
<1> QED BY <1>4, <1>5

LEMMA BusImplies == ASSUME BusInv PROVE Bus!EventsDelivered
<1> USE DEF BusInv
<1>1. Bus!Cardinality(Bus!Running) <= 1
  <2>1. Bus!Running = {} \/ Bus!Running = {drainDone}
    BY DEF OneDrain, Bus!Running
  <2>2. Bus!Cardinality({}) = 0 /\ Bus!Cardinality({drainDone}) = 1
    BY FS_EmptySet, FS_Singleton, BusCounts
  <2> QED BY <2>1, <2>2
<1>2. Bus!CallsInOrder
  <2>1. calls \in Seq(Emits \X Subs) /\ DOMAIN calls = 1..Len(calls) /\ Len(calls) \in Nat
    BY DEF BusTypes
  <2>2. ASSUME NEW k \in DOMAIN calls
        PROVE  /\ Bus!Made(calls[k][1], k) <= Len(due[calls[k][1]])
               /\ calls[k][2] = due[calls[k][1]][Bus!Made(calls[k][1], k)]
    BY <2>1, MadeIs DEF Deliveries, CallsFollow
  <2>3. ASSUME NEW e \in Emits, fate[e] = "taken", Bus!Made(e, Len(calls)) < Len(due[e])
        PROVE  busClosed \/ \E d \in Emits : drain[d].event = e /\ drain[d].at # "next"
    BY <2>3, MadeIs DEF Deliveries, Busy
  <2>4. \A i, j \in DOMAIN calls :
          calls[i][1] = calls[j][1] => \A k \in i..j : calls[k][1] = calls[i][1]
    BY <2>1 DEF Deliveries, CallsFollow
  <2> QED BY <1>1, <2>2, <2>3, <2>4 DEF Bus!CallsInOrder
<1>3. Bus!NothingStranded
  <2>1. ASSUME NEW e \in Emits, fate[e] = "queued"
        PROVE  /\ \E i \in DOMAIN queue : queue[i] = e
               /\ draining /\ \E d \in Emits : drain[d].at \in {"next", "check", "handler"}
    <3>1. PICK i \in 1..Len(queue) : queue[i] = e
      BY <2>1 DEF QueueHolds
    <3>2. queue \in Seq(Emits) /\ i \in DOMAIN queue /\ queue # <<>>
      BY <3>1 DEF BusTypes
    <3>3. draining /\ drainDone \in Emits /\ drain[drainDone].at # "none"
      BY <3>2 DEF QueueHolds, OneDrain
    <3>4. drain[drainDone].at \in {"next", "check", "handler"}
      BY <3>3 DEF BusTypes, Drains, DrainPlaces
    <3> QED BY <3>1, <3>2, <3>3, <3>4
  <2> QED BY <2>1 DEF Bus!NothingStranded
<1>4. Bus!JoinedIsQuiet
  BY DEF Bus!JoinedIsQuiet, Bus!Running, Waited, OneDrain
<1> QED BY <1>2, <1>3, <1>4 DEF Bus!EventsDelivered

\* Every step of the bus keeps the invariant.
LEMMA BusStep == ASSUME BusInv, Bus!Next \/ UNCHANGED busVars PROVE BusInv'
<1>1. ASSUME UNCHANGED busVars PROVE BusInv'
  BY <1>1 DEF busVars, BusInv, BusTypes, OneDrain, QueueHolds, Deliveries, Waited
<1>2. ASSUME Bus!Next PROVE BusInv'
  BY <1>2, SubscribeKeeps, EmitKeeps, TakeKeeps, CheckKeeps, HandlerEndsKeeps, CloseKeeps,
     WaitKeeps DEF Bus!Next
<1> QED BY <1>1, <1>2

HIDE BusAssumption

-----------------------------------------------------------------------------
(* Agents: who runs under whom, what each may call, and whose file is whose. *)

AgentSteps == {"check", "tools", "create", "mark", "close", "open", "turn", "drain"}
Frames == [name : AgentNames, depth : Nat, ancestry : Seq(AgentNames), view : Nat,
           at : AgentSteps, run : Nat, overflowed : BOOLEAN, compactions : Nat]

AgentTypes ==
  /\ stack \in Seq(Frames) /\ runs \in Nat /\ ours \in BOOLEAN
  /\ children \in [DOMAIN children -> BOOLEAN] /\ DOMAIN children \subseteq 1..runs
  /\ started \subseteq DOMAIN children

\* A run stands under those before it, and sees its tools through the one before.
Chain ==
  \A i \in 1..Len(stack) :
    /\ stack[i].depth = i /\ stack[i].view = i - 1
    /\ stack[i].ancestry = [k \in 1..(i - 1) |-> stack[k].name]
    /\ stack[i].at # "check" =>
         i <= DepthLimit /\ \A k \in 1..(i - 1) : stack[k].name # stack[i].name

\* Who waits for a tool is in its turn.
Waiting == \A i \in 1..Len(stack) : i < Len(stack) => stack[i].at = "turn"

\* What a run's file has become at each of its steps.
FileAt(r, at) ==
  /\ at \in {"check", "tools", "create"} <=> r = 0
  /\ r # 0 => r \in DOMAIN children
  /\ at \in {"mark", "close", "open"} => r \notin started
  /\ at \in {"close", "open", "turn", "drain"} => children[r]
  /\ at \in {"turn", "drain"} => r \in started

\* Every run has a file of its own.
OwnFiles ==
  /\ \A i \in 1..Len(stack) : FileAt(stack[i].run, stack[i].at)
  /\ \A i, j \in 1..Len(stack) : stack[i].run = stack[j].run /\ stack[i].run # 0 => i = j

\* The open handles, and what else is on disk.
Files ==
  /\ \A h : h \in handles <=>
       \E i \in 1..Len(stack) :
         stack[i].at \in {"mark", "close", "turn", "drain"} /\ stack[i].run = h
  /\ \A f \in DOMAIN children :
       \/ f \in started /\ children[f]
       \/ f \in unremoved
       \/ \E i \in 1..Len(stack) : stack[i].run = f

AgentInv == AgentTypes /\ Chain /\ Waiting /\ OwnFiles /\ Files

\* A set of numbers that is not empty has a least one.
LEMMA LeastRun ==
  ASSUME NEW T, T \subseteq Nat, T # {}
  PROVE  \E x \in T : \A y \in T : x <= y
<1> DEFINE R == OpToRel(<, Nat)
<1>1. \E x \in T : \A y \in T : ~ (<<y, x>> \in R)
  <2>1. IsWellFoundedOn(R, Nat)
    BY NatLessThanWellFounded
  <2> HIDE DEF R
  <2> QED BY <2>1, WFMin
<1>2. ASSUME NEW x \in Nat, NEW y \in Nat, y < x PROVE <<y, x>> \in R
  <2>1. <<y, x>> \in Nat \X Nat /\ <<y, x>>[1] < <<y, x>>[2]
    BY <1>2
  <2> QED BY <2>1 DEF OpToRel
<1> HIDE DEF R
<1>3. PICK x \in T : \A y \in T : ~ (<<y, x>> \in R)
  BY <1>1
<1>4. \A y \in T : ~(y < x)
  BY <1>2, <1>3
<1>5. \A y \in T : x <= y
  BY <1>3, <1>4
<1> QED BY <1>3, <1>5

LEMMA AgentInit == Agents!Init => AgentInv
BY DEF Agents!Init, AgentInv, AgentTypes, Chain, Waiting, OwnFiles, Files

\* The run on top.
LEMMA TopRun ==
  ASSUME AgentInv, stack # <<>>
  PROVE  /\ Len(stack) \in Nat \ {0} /\ stack[Len(stack)] \in Frames
         /\ Agents!Top = stack[Len(stack)] /\ Len(stack) \in 1..Len(stack)
BY DEF AgentInv, AgentTypes, Agents!Top

\* The run on top takes a step.
LEMMA AdvanceIs ==
  ASSUME AgentInv, stack # <<>>, NEW x \in Frames,
         stack' = [stack EXCEPT ![Len(stack)] = x]
  PROVE  /\ stack' \in Seq(Frames) /\ Len(stack') = Len(stack) /\ stack'[Len(stack)] = x
         /\ \A i \in 1..Len(stack) : i # Len(stack) => stack'[i] = stack[i]
BY TopRun DEF AgentInv, AgentTypes

\* Below i is below n.
LEMMA Below ==
  ASSUME NEW n \in Nat, NEW i \in 1..n
  PROVE  i \in Nat /\ \A k \in 1..(i - 1) : k \in 1..n /\ k # i /\ k < n /\ k \in 1..(n - 1)
OBVIOUS

LEMMA AdvanceChain ==
  ASSUME AgentInv, stack # <<>>, NEW x \in Frames,
         stack' = [stack EXCEPT ![Len(stack)] = x],
         x.name = Agents!Top.name, x.depth = Agents!Top.depth, x.view = Agents!Top.view,
         x.ancestry = Agents!Top.ancestry,
         Agents!Top.at # "check" \/ Agents!Admitted(Agents!Top.name) \/ x.at = "check"
  PROVE  Chain' /\ Waiting'
<1> DEFINE n == Len(stack)
<1>1. /\ n \in Nat \ {0} /\ n \in 1..n /\ Agents!Top = stack[n] /\ Len(stack') = n
      /\ stack'[n] = x /\ \A i \in 1..n : i # n => stack'[i] = stack[i]
  BY TopRun, AdvanceIs
<1>2. \A i \in 1..n :
        /\ stack[i].depth = i /\ stack[i].view = i - 1
        /\ stack[i].ancestry = [k \in 1..(i - 1) |-> stack[k].name]
        /\ stack[i].at # "check" =>
             i <= DepthLimit /\ \A k \in 1..(i - 1) : stack[k].name # stack[i].name
  BY DEF AgentInv, Chain
<1>3. \A i \in 1..n : i < n => stack[i].at = "turn"
  BY DEF AgentInv, Waiting
<1> HIDE DEF n
<1>4. \A i \in 1..n : /\ stack'[i].name = stack[i].name /\ stack'[i].depth = stack[i].depth
                      /\ stack'[i].view = stack[i].view
                      /\ stack'[i].ancestry = stack[i].ancestry
  BY <1>1
<1>5. x.at # "check" =>
        n <= DepthLimit /\ \A k \in 1..(n - 1) : stack[k].name # stack[n].name
  <2>1. CASE stack[n].at # "check"
    BY <2>1, <1>1, <1>2
  <2>2. CASE Agents!Admitted(stack[n].name)
    <3>1. stack[n].depth = n /\ stack[n].ancestry = [k \in 1..(n - 1) |-> stack[k].name]
      BY <1>1, <1>2
    <3> QED BY <2>2, <3>1, <1>1 DEF Agents!Admitted
  <2> QED BY <2>1, <2>2, <1>1
<1>6. Chain'
  <2> SUFFICES ASSUME NEW i \in 1..n
               PROVE  /\ stack'[i].depth = i /\ stack'[i].view = i - 1
                      /\ stack'[i].ancestry = [k \in 1..(i - 1) |-> stack'[k].name]
                      /\ stack'[i].at # "check" =>
                           /\ i <= DepthLimit
                           /\ \A k \in 1..(i - 1) : stack'[k].name # stack'[i].name
    BY <1>1 DEF Chain
  <2>1. /\ stack[i].depth = i /\ stack[i].view = i - 1
        /\ stack[i].ancestry = [k \in 1..(i - 1) |-> stack[k].name]
        /\ stack[i].at # "check" =>
             i <= DepthLimit /\ \A k \in 1..(i - 1) : stack[k].name # stack[i].name
    BY <1>2
  <2>2. \A k \in 1..(i - 1) : k \in 1..n /\ stack'[k].name = stack[k].name
    BY <1>1, <1>4, Below
  <2>3. [k \in 1..(i - 1) |-> stack'[k].name] = [k \in 1..(i - 1) |-> stack[k].name]
    BY <2>2
  <2>4. /\ stack'[i].depth = i /\ stack'[i].view = i - 1
        /\ stack'[i].ancestry = [k \in 1..(i - 1) |-> stack'[k].name]
    BY <2>1, <2>3, <1>4
  <2>5. stack'[i].at # "check" =>
          i <= DepthLimit /\ \A k \in 1..(i - 1) : stack[k].name # stack[i].name
    <3>1. CASE i = n
      BY <3>1, <1>1, <1>5
    <3>2. CASE i # n
      BY <3>2, <1>1, <2>1
    <3> QED BY <3>1, <3>2
  <2> QED BY <2>2, <2>4, <2>5, <1>4
<1>7. Waiting'
  <2> SUFFICES ASSUME NEW i \in 1..n, i < n PROVE stack'[i].at = "turn"
    BY <1>1 DEF Waiting
  <2>1. i # n
    BY <1>1
  <2> QED BY <2>1, <1>1, <1>3
<1> QED BY <1>6, <1>7

LEMMA FileStays ==
  ASSUME NEW r, NEW at, FileAt(r, at),
         r # 0 => /\ r \in DOMAIN children' /\ children'[r] = children[r]
                  /\ r \in started' <=> r \in started
  PROVE  FileAt(r, at)'
BY DEF FileAt

\* The files after such a step: the same ones, or those of the run on top alone changed.
LEMMA AdvanceFiles ==
  ASSUME AgentInv, stack # <<>>, NEW x \in Frames,
         stack' = [stack EXCEPT ![Len(stack)] = x], AgentTypes', unremoved' = unremoved,
         FileAt(x.run, x.at)',
         \A f \in DOMAIN children :
           f # x.run =>
             f \in DOMAIN children' /\ children'[f] = children[f]
             /\ (f \in started' <=> f \in started),
         DOMAIN children' \subseteq DOMAIN children \cup {x.run},
         \/ x.run = Agents!Top.run
         \/ x.run \notin DOMAIN children /\ Agents!Top.run = 0,
         \A h : h \in handles' <=>
           \/ h \in handles /\ h # x.run
           \/ h = x.run /\ x.at \in {"mark", "close", "turn", "drain"}
  PROVE  OwnFiles' /\ Files'
<1> DEFINE n == Len(stack)
<1>1. /\ n \in Nat \ {0} /\ n \in 1..n /\ Agents!Top = stack[n] /\ Len(stack') = n
      /\ stack'[n] = x /\ \A i \in 1..n : i # n => stack'[i] = stack[i]
  BY TopRun, AdvanceIs
<1>2. /\ \A i \in 1..n : FileAt(stack[i].run, stack[i].at)
      /\ \A i, j \in 1..n : stack[i].run = stack[j].run /\ stack[i].run # 0 => i = j
  BY DEF AgentInv, OwnFiles
<1>3. \A h : h \in handles <=>
        \E i \in 1..n : stack[i].at \in {"mark", "close", "turn", "drain"} /\ stack[i].run = h
  BY DEF AgentInv, Files
<1>4. \A f \in DOMAIN children :
        (f \in started /\ children[f]) \/ f \in unremoved \/ \E i \in 1..n : stack[i].run = f
  BY DEF AgentInv, Files
<1> HIDE DEF n
<1>5. \A i \in 1..n : i # n /\ stack[i].run # 0 =>
        stack[i].run \in DOMAIN children /\ stack[i].run # x.run
  <2> SUFFICES ASSUME NEW i \in 1..n, i # n, stack[i].run # 0
               PROVE  stack[i].run \in DOMAIN children /\ stack[i].run # x.run
    OBVIOUS
  <2>1. stack[i].run \in DOMAIN children
    BY <1>2 DEF FileAt
  <2>2. stack[i].run # stack[n].run
    BY <1>1, <1>2
  <2> QED BY <2>1, <2>2, <1>1
<1>6. \A i \in 1..n : FileAt(stack[i].run, stack[i].at)'
  <2> SUFFICES ASSUME NEW i \in 1..n PROVE FileAt(stack[i].run, stack[i].at)'
    OBVIOUS
  <2>1. CASE i = n
    BY <2>1, <1>1
  <2>2. CASE i # n
    <3>1. stack'[i] = stack[i] /\ FileAt(stack[i].run, stack[i].at)
      BY <2>2, <1>1, <1>2
    <3>2. stack[i].run # 0 => stack[i].run \in DOMAIN children /\ stack[i].run # x.run
      BY <2>2, <1>5
    <3> QED BY <3>1, <3>2, FileStays DEF FileAt
  <2> QED BY <2>1, <2>2
<1>7. \A i, j \in 1..n : stack'[i].run = stack'[j].run /\ stack'[i].run # 0 => i = j
  <2> SUFFICES ASSUME NEW i \in 1..n, NEW j \in 1..n,
                      stack'[i].run = stack'[j].run, stack'[i].run # 0, i # j
               PROVE  FALSE
    OBVIOUS
  <2>1. CASE i = n
    BY <2>1, <1>1, <1>5
  <2>2. CASE j = n
    BY <2>2, <1>1, <1>5
  <2>3. CASE i # n /\ j # n
    BY <2>3, <1>1, <1>2
  <2> QED BY <2>1, <2>2, <2>3
<1>8. OwnFiles'
  BY <1>1, <1>6, <1>7 DEF OwnFiles
<1>9. \A h : h \in handles' <=>
        \E i \in 1..n :
          stack'[i].at \in {"mark", "close", "turn", "drain"} /\ stack'[i].run = h
  <2>1. \A i \in 1..n : stack[i].at \in {"mark", "close", "turn", "drain"} => stack[i].run # 0
    BY <1>2 DEF FileAt
  <2>2. ASSUME NEW h, h \in handles, h # x.run
        PROVE  \E i \in 1..n :
                 stack'[i].at \in {"mark", "close", "turn", "drain"} /\ stack'[i].run = h
    <3>1. PICK i \in 1..n : stack[i].at \in {"mark", "close", "turn", "drain"} /\ stack[i].run = h
      BY <2>2, <1>3
    <3>2. i # n
      BY <3>1, <2>1, <2>2, <1>1, <1>2, <1>3 DEF FileAt
    <3> QED BY <3>1, <3>2, <1>1
  <2>3. ASSUME NEW i \in 1..n, stack'[i].at \in {"mark", "close", "turn", "drain"}, i # n
        PROVE  stack'[i].run \in handles /\ stack'[i].run # x.run
    BY <2>1, <2>3, <1>1, <1>3, <1>5
  <2> QED BY <2>2, <2>3, <1>1
<1>10. \A f \in DOMAIN children' :
        \/ f \in started' /\ children'[f]
        \/ f \in unremoved'
        \/ \E i \in 1..n : stack'[i].run = f
  <2>1. \A f \in DOMAIN children : f # 0
    BY DEF AgentInv, AgentTypes
  <2> SUFFICES ASSUME NEW f \in DOMAIN children', f # x.run
               PROVE  \/ f \in started' /\ children'[f]
                      \/ f \in unremoved'
                      \/ \E i \in 1..n : stack'[i].run = f
    BY <1>1
  <2>2. f \in DOMAIN children /\ children'[f] = children[f] /\ (f \in started' <=> f \in started)
    OBVIOUS
  <2>3. ASSUME NEW i \in 1..n, stack[i].run = f PROVE \E j \in 1..n : stack'[j].run = f
    BY <2>1, <2>2, <2>3, <1>1
  <2> QED BY <1>4, <2>2, <2>3
<1> QED BY <1>1, <1>8, <1>9, <1>10 DEF Files

\* Run returns: its file is done, or it never had one.
LEMMA ReturnKeeps ==
  ASSUME AgentInv, stack # <<>>, Agents!Return, AgentTypes',
         runs' = runs, unremoved \subseteq unremoved',
         \A f \in DOMAIN children :
           f # Agents!Top.run =>
             f \in DOMAIN children' /\ children'[f] = children[f]
             /\ (f \in started' <=> f \in started),
         DOMAIN children' \subseteq DOMAIN children,
         Agents!Top.run \in DOMAIN children' =>
           \/ Agents!Top.run \in started' /\ children'[Agents!Top.run]
           \/ Agents!Top.run \in unremoved'
  PROVE  AgentInv'
<1> DEFINE n == Len(stack)
<1>1. n \in Nat \ {0} /\ n \in 1..n /\ Agents!Top = stack[n]
  BY TopRun
<1>2. Len(stack') = n - 1 /\ \A i \in 1..(n - 1) : stack'[i] = stack[i]
  <2>1. stack \in Seq(Frames) /\ stack' = SubSeq(stack, 1, n - 1)
    BY DEF Agents!Return, Agents!Pop, AgentInv, AgentTypes
  <2>3. n = Len(stack) /\ n - 1 \in 0..n /\ \A i \in 1..(n - 1) : i - 1 + 1 = i
    BY <1>1
  <2> HIDE DEF n
  <2>4. /\ Len(SubSeq(stack, 1, n - 1)) = n - 1
        /\ \A i \in 1..(n - 1) : SubSeq(stack, 1, n - 1)[i] = stack[i]
    BY <2>1, <2>3, <1>1
  <2> QED BY <2>1, <2>4
<1>3. \A i \in 1..n :
        /\ stack[i].depth = i /\ stack[i].view = i - 1
        /\ stack[i].ancestry = [k \in 1..(i - 1) |-> stack[k].name]
        /\ stack[i].at # "check" =>
             i <= DepthLimit /\ \A k \in 1..(i - 1) : stack[k].name # stack[i].name
  BY DEF AgentInv, Chain
<1>4. /\ \A i \in 1..n : i < n => stack[i].at = "turn"
      /\ \A i \in 1..n : FileAt(stack[i].run, stack[i].at)
      /\ \A i, j \in 1..n : stack[i].run = stack[j].run /\ stack[i].run # 0 => i = j
  BY DEF AgentInv, OwnFiles, Waiting
<1>5. \A h : h \in handles <=>
        \E i \in 1..n : stack[i].at \in {"mark", "close", "turn", "drain"} /\ stack[i].run = h
  BY DEF AgentInv, Files
<1>6. \A f \in DOMAIN children :
        (f \in started /\ children[f]) \/ f \in unremoved \/ \E i \in 1..n : stack[i].run = f
  BY DEF AgentInv, Files
<1> HIDE DEF n
<1>7. \A i \in 1..(n - 1) : i \in 1..n /\ i # n /\ i < n
  BY <1>1
<1>8. Chain'
  <2> SUFFICES ASSUME NEW i \in 1..(n - 1)
               PROVE  /\ stack'[i].depth = i /\ stack'[i].view = i - 1
                      /\ stack'[i].ancestry = [k \in 1..(i - 1) |-> stack'[k].name]
                      /\ stack'[i].at # "check" =>
                           /\ i <= DepthLimit
                           /\ \A k \in 1..(i - 1) : stack'[k].name # stack'[i].name
    BY <1>2 DEF Chain
  <2>1. \A k \in 1..(i - 1) : stack'[k] = stack[k]
    BY <1>1, <1>2, <1>7, Below
  <2>2. [k \in 1..(i - 1) |-> stack'[k].name] = [k \in 1..(i - 1) |-> stack[k].name]
    BY <2>1
  <2>3. i \in 1..n /\ stack'[i] = stack[i]
    BY <1>2, <1>7
  <2>4. /\ stack[i].depth = i /\ stack[i].view = i - 1
        /\ stack[i].ancestry = [k \in 1..(i - 1) |-> stack[k].name]
        /\ stack[i].at # "check" =>
             i <= DepthLimit /\ \A k \in 1..(i - 1) : stack[k].name # stack[i].name
    BY <2>3, <1>3
  <2> QED BY <2>1, <2>2, <2>3, <2>4
<1>9. Waiting'
  BY <1>2, <1>4, <1>7 DEF Waiting
<1>10. OwnFiles'
  <2>1. \A i \in 1..(n - 1) : FileAt(stack[i].run, stack[i].at)'
    <3> SUFFICES ASSUME NEW i \in 1..(n - 1) PROVE FileAt(stack[i].run, stack[i].at)'
      OBVIOUS
    <3>1. i \in 1..n /\ FileAt(stack[i].run, stack[i].at) /\ stack'[i] = stack[i]
          /\ (stack[i].run # 0 => stack[i].run # Agents!Top.run)
      BY <1>1, <1>2, <1>4, <1>7
    <3>2. stack[i].run # 0 => stack[i].run \in DOMAIN children
      BY <3>1 DEF FileAt
    <3> QED BY <3>1, <3>2, FileStays DEF FileAt
  <2>2. \A i, j \in 1..(n - 1) : stack'[i].run = stack'[j].run /\ stack'[i].run # 0 => i = j
    BY <1>2, <1>4, <1>7
  <2> QED BY <2>1, <2>2, <1>2 DEF OwnFiles
<1>11. \A h : h \in handles' <=>
        \E i \in 1..(n - 1) :
          stack'[i].at \in {"mark", "close", "turn", "drain"} /\ stack'[i].run = h
  <2>1. \A i \in 1..n : stack[i].at \in {"mark", "close", "turn", "drain"} => stack[i].run # 0
    BY <1>4 DEF FileAt
  <2>2. \A h : h \in handles' <=> h \in handles /\ h # stack[n].run
    BY <1>1 DEF Agents!Return
  <2>3. ASSUME NEW h, h \in handles, h # stack[n].run
        PROVE  \E i \in 1..(n - 1) :
                 stack'[i].at \in {"mark", "close", "turn", "drain"} /\ stack'[i].run = h
    <3>1. PICK i \in 1..n : stack[i].at \in {"mark", "close", "turn", "drain"} /\ stack[i].run = h
      BY <2>3, <1>5
    <3>2. i \in 1..(n - 1)
      BY <3>1, <2>3, <1>1
    <3> QED BY <3>1, <3>2, <1>2
  <2>4. ASSUME NEW i \in 1..(n - 1), stack'[i].at \in {"mark", "close", "turn", "drain"}
        PROVE  stack'[i].run \in handles /\ stack'[i].run # stack[n].run
    <3>1. i \in 1..n /\ i # n /\ stack'[i] = stack[i]
      BY <1>2, <1>7
    <3> QED BY <3>1, <2>1, <2>4, <1>1, <1>4, <1>5
  <2> QED BY <2>2, <2>3, <2>4
<1>12. \A f \in DOMAIN children' :
        \/ f \in started' /\ children'[f]
        \/ f \in unremoved'
        \/ \E i \in 1..(n - 1) : stack'[i].run = f
  <2> SUFFICES ASSUME NEW f \in DOMAIN children', f # Agents!Top.run
               PROVE  \/ f \in started' /\ children'[f]
                      \/ f \in unremoved'
                      \/ \E i \in 1..(n - 1) : stack'[i].run = f
    OBVIOUS
  <2>1. (f \in started /\ children[f]) \/ f \in unremoved \/ \E i \in 1..n : stack[i].run = f
    BY <1>6
  <2>2. \A i \in 1..n : stack[i].run = f => i \in 1..(n - 1)
    BY <1>1
  <2> QED BY <2>1, <2>2, <1>2
<1>13. Files'
  BY <1>2, <1>11, <1>12 DEF Files
<1> QED BY <1>8, <1>9, <1>10, <1>13 DEF AgentInv

\* A run starts under the one on top, which waits for it.
LEMMA PushKeeps ==
  ASSUME AgentInv, NEW name \in AgentNames,
         stack = <<>> \/ Agents!Top.at = "turn",
         Agents!Enter(name, Agents!ParentOf(Len(stack))),
         UNCHANGED <<children, handles, started, unremoved, runs>>, ours' = ours
  PROVE  AgentInv'
<1> DEFINE n == Len(stack)
           parent == Agents!ParentOf(n)
           x == [name |-> name, depth |-> parent.depth + 1, ancestry |-> parent.ancestry,
                 view |-> parent.view, at |-> "check", run |-> 0, overflowed |-> FALSE,
                 compactions |-> 0]
<1>1. n \in Nat /\ stack \in Seq(Frames) /\ (n = 0 <=> stack = <<>>)
      /\ \A i \in 1..n : stack[i] \in Frames
  BY DEF AgentInv, AgentTypes
<1>2. \A i \in 1..n :
        /\ stack[i].depth = i /\ stack[i].view = i - 1
        /\ stack[i].ancestry = [k \in 1..(i - 1) |-> stack[k].name]
        /\ stack[i].at # "check" =>
             i <= DepthLimit /\ \A k \in 1..(i - 1) : stack[k].name # stack[i].name
  BY DEF AgentInv, Chain
<1>3. /\ \A i \in 1..n : i < n => stack[i].at = "turn"
      /\ \A i \in 1..n : FileAt(stack[i].run, stack[i].at)
      /\ \A i, j \in 1..n : stack[i].run = stack[j].run /\ stack[i].run # 0 => i = j
  BY DEF AgentInv, OwnFiles, Waiting
<1>4. \A h : h \in handles <=>
        \E i \in 1..n : stack[i].at \in {"mark", "close", "turn", "drain"} /\ stack[i].run = h
  BY DEF AgentInv, Files
<1>5. \A f \in DOMAIN children :
        (f \in started /\ children[f]) \/ f \in unremoved \/ \E i \in 1..n : stack[i].run = f
  BY DEF AgentInv, Files
<1>6. stack' = Append(stack, x) /\ (n # 0 => stack[n].at = "turn")
  BY <1>1 DEF Agents!Enter, Agents!Top
<1>7. /\ parent.depth = n /\ parent.view = n
      /\ parent.ancestry \in Seq(AgentNames)
      /\ parent.ancestry = [k \in 1..n |-> stack[k].name]
  <2>1. CASE n = 0
    <3>1. parent = [depth |-> 0, ancestry |-> <<>>, view |-> 0]
      BY <2>1 DEF Agents!ParentOf
    <3>2. <<>> = [k \in 1..0 |-> stack[k].name] /\ <<>> \in Seq(AgentNames)
      OBVIOUS
    <3> QED BY <3>1, <3>2, <2>1
  <2>2. CASE n # 0
    <3>1. parent = [depth |-> stack[n].depth, view |-> n,
                    ancestry |-> Append(stack[n].ancestry, stack[n].name)]
      BY <2>2 DEF Agents!ParentOf
    <3> HIDE DEF n, parent
    <3>2. n \in 1..n /\ n - 1 \in Nat /\ stack[n] \in Frames
      BY <2>2, <1>1
    <3>3. /\ stack[n].ancestry \in Seq(AgentNames) /\ stack[n].name \in AgentNames
          /\ stack[n].ancestry = [k \in 1..(n - 1) |-> stack[k].name] /\ stack[n].depth = n
      BY <3>2, <1>2 DEF Frames
    <3> DEFINE a == stack[n].ancestry
               b == Append(a, stack[n].name)
    <3>4. DOMAIN a = 1..(n - 1) /\ DOMAIN a = 1..Len(a) /\ Len(a) \in Nat
      <4>1. a \in Seq(AgentNames) /\ DOMAIN a = 1..(n - 1)
        BY <3>3
      <4>2. \A c \in Seq(AgentNames) : DOMAIN c = 1..Len(c) /\ Len(c) \in Nat
        OBVIOUS
      <4> HIDE DEF a
      <4> QED BY <4>1, <4>2
    <3>5. Len(a) = n - 1
      BY <3>2, <3>4
    <3>6. b \in Seq(AgentNames) /\ Len(b) = n
      BY <3>2, <3>3, <3>5
    <3>7. \A k \in 1..n : b[k] = stack[k].name
      <4> SUFFICES ASSUME NEW k \in 1..n PROVE b[k] = stack[k].name
        OBVIOUS
      <4>1. CASE k = n
        BY <4>1, <3>2, <3>3, <3>5
      <4>2. CASE k # n
        <5>1. k \in 1..(n - 1)
          BY <4>2, <3>2
        <5>2. b[k] = a[k]
          <6>1. a \in Seq(AgentNames) /\ k \in 1..Len(a)
            BY <5>1, <3>3, <3>5
          <6> HIDE DEF a
          <6> QED BY <6>1
        <5> QED BY <5>1, <5>2, <3>3
      <4> QED BY <4>1, <4>2
    <3>8. b = [k \in 1..n |-> b[k]]
      BY <3>6
    <3>9. b = [k \in 1..n |-> stack[k].name]
      BY <3>7, <3>8
    <3> QED BY <3>1, <3>3, <3>6, <3>9
  <2> QED BY <2>1, <2>2
<1> HIDE DEF n, parent
<1>8. /\ x \in Frames /\ x.depth = n + 1 /\ x.view = n /\ x.name = name /\ x.at = "check"
      /\ x.run = 0 /\ x.ancestry = [k \in 1..n |-> stack[k].name]
  BY <1>1, <1>7 DEF Frames, AgentSteps
<1> HIDE DEF x
<1>9. /\ stack' \in Seq(Frames) /\ Len(stack') = n + 1 /\ stack'[n + 1] = x
      /\ \A i \in 1..n : stack'[i] = stack[i]
  BY <1>1, <1>6, <1>8 DEF n
<1>10. \A i \in 1..(n + 1) : i # n + 1 => i \in 1..n
  BY <1>1
<1>11. AgentTypes'
  BY <1>9 DEF AgentInv, AgentTypes
<1>12. Chain'
  <2> SUFFICES ASSUME NEW i \in 1..(n + 1)
               PROVE  /\ stack'[i].depth = i /\ stack'[i].view = i - 1
                      /\ stack'[i].ancestry = [k \in 1..(i - 1) |-> stack'[k].name]
                      /\ stack'[i].at # "check" =>
                           /\ i <= DepthLimit
                           /\ \A k \in 1..(i - 1) : stack'[k].name # stack'[i].name
    BY <1>9 DEF Chain
  <2>1. \A k \in 1..(i - 1) : stack'[k] = stack[k]
    BY <1>1, <1>9
  <2>2. [k \in 1..(i - 1) |-> stack'[k].name] = [k \in 1..(i - 1) |-> stack[k].name]
    BY <2>1
  <2>3. CASE i = n + 1
    <3>1. i - 1 = n
      BY <2>3, <1>1
    <3> QED BY <2>2, <2>3, <3>1, <1>8, <1>9
  <2>4. CASE i # n + 1
    <3>1. i \in 1..n /\ stack'[i] = stack[i]
      BY <2>4, <1>9, <1>10
    <3>2. /\ stack[i].depth = i /\ stack[i].view = i - 1
          /\ stack[i].ancestry = [k \in 1..(i - 1) |-> stack[k].name]
          /\ stack[i].at # "check" =>
               i <= DepthLimit /\ \A k \in 1..(i - 1) : stack[k].name # stack[i].name
      BY <3>1, <1>2
    <3> QED BY <2>1, <2>2, <3>1, <3>2
  <2> QED BY <2>3, <2>4
<1>13. Waiting'
  <2> SUFFICES ASSUME NEW i \in 1..(n + 1), i < n + 1 PROVE stack'[i].at = "turn"
    BY <1>9 DEF Waiting
  <2>1. i \in 1..n /\ (i = n \/ i < n)
    BY <1>1
  <2> QED BY <2>1, <1>3, <1>6, <1>9
<1>14. OwnFiles'
  <2>1. \A i \in 1..(n + 1) : FileAt(stack[i].run, stack[i].at)'
    BY <1>3, <1>8, <1>9, <1>10 DEF FileAt
  <2>2. \A i, j \in 1..(n + 1) : stack'[i].run = stack'[j].run /\ stack'[i].run # 0 => i = j
    BY <1>3, <1>8, <1>9, <1>10
  <2> QED BY <2>1, <2>2, <1>9 DEF OwnFiles
<1>15. Files'
  <2>1. \A i \in 1..n : i \in 1..(n + 1)
    BY <1>1
  <2>2. \A h : h \in handles' <=>
          \E i \in 1..(n + 1) :
            stack'[i].at \in {"mark", "close", "turn", "drain"} /\ stack'[i].run = h
    BY <2>1, <1>4, <1>8, <1>9, <1>10
  <2>3. \A f \in DOMAIN children' :
          \/ f \in started' /\ children'[f]
          \/ f \in unremoved'
          \/ \E i \in 1..(n + 1) : stack'[i].run = f
    BY <2>1, <1>5, <1>9
  <2> QED BY <2>2, <2>3, <1>9 DEF Files
<1> QED BY <1>11, <1>12, <1>13, <1>14, <1>15 DEF AgentInv

\* What the run j sees of a tool, given what those before it see.
ToolThrough(view, j, tool) ==
  IF j = 0
    THEN [ok |-> tool \in activeTools, by |-> IF tool = "subagent" /\ ~ours THEN -1 ELSE 0]
  ELSE IF ~Agents!Allows(stack[j].name, tool) THEN [ok |-> FALSE, by |-> j]
  ELSE LET above == view[stack[j].view]
       IN [ok |-> above.ok,
           by |-> IF tool = "subagent" THEN Agents!SubagentView(j, above.by) ELSE above.by]
View(tool) == CHOOSE view : view = [j \in 0..Len(stack) |-> ToolThrough(view, j, tool)]

LEMMA ViewIs ==
  ASSUME NEW tool, NEW j
  PROVE  Agents!GetActive(j, tool) = View(tool)[j]
BY DEF Agents!GetActive, View, ToolThrough

\* A set of numbers that holds 0 and the next of each holds all.
LEMMA AgentInduction ==
  ASSUME NEW T, 0 \in T, \A n \in Nat : n \in T => n + 1 \in T
  PROVE  Nat \subseteq T
<1> SUFFICES ASSUME Nat \ T # {} PROVE FALSE
  OBVIOUS
<1>1. PICK m \in Nat \ T : \A y \in Nat \ T : m <= y
  BY LeastRun
<1>2. m # 0 /\ m - 1 \in Nat
  BY <1>1
<1>3. m - 1 \in T
  BY <1>1, <1>2
<1> QED BY <1>1, <1>2, <1>3

\* Every run sees its tools through the one before it.
LEMMA ViewEquation ==
  ASSUME AgentInv, NEW tool
  PROVE  View(tool) = [j \in 0..Len(stack) |-> ToolThrough(View(tool), j, tool)]
<1> DEFINE n == Len(stack)
           T == {m \in Nat : m <= n =>
                   \E g : g = [j \in 0..m |-> ToolThrough(g, j, tool)]}
<1>1. n \in Nat /\ \A j \in 1..n : stack[j].view = j - 1
  <2>1. n \in Nat
    BY DEF AgentInv, AgentTypes
  <2> QED BY <2>1 DEF AgentInv, Chain
<1> HIDE DEF n
<1>2. 0 \in T
  <2> DEFINE g == [j \in 0..0 |-> ToolThrough(<<>>, 0, tool)]
  <2>1. \A j \in 0..0 : ToolThrough(<<>>, 0, tool) = ToolThrough(g, j, tool)
    BY DEF ToolThrough
  <2>2. g = [j \in 0..0 |-> ToolThrough(g, j, tool)]
    BY <2>1
  <2> QED BY <2>2
<1>3. ASSUME NEW m \in Nat, m \in T PROVE m + 1 \in T
  <2> SUFFICES ASSUME m + 1 <= n
               PROVE  \E h : h = [j \in 0..(m + 1) |-> ToolThrough(h, j, tool)]
    OBVIOUS
  <2>1. PICK g : g = [j \in 0..m |-> ToolThrough(g, j, tool)]
    BY <1>1, <1>3
  <2> DEFINE h == [j \in 0..(m + 1) |-> IF j \in 0..m THEN g[j] ELSE ToolThrough(g, j, tool)]
  <2>2. \A j \in 0..m : h[j] = g[j]
    OBVIOUS
  <2>3. \A j \in 0..(m + 1) : h[j] = ToolThrough(g, j, tool)
    BY <2>1
  <2> HIDE DEF h
  <2>4. \A j \in 0..(m + 1) : ToolThrough(g, j, tool) = ToolThrough(h, j, tool)
    <3> SUFFICES ASSUME NEW j \in 0..(m + 1), j # 0
                 PROVE  ToolThrough(g, j, tool) = ToolThrough(h, j, tool)
      BY DEF ToolThrough
    <3>1. stack[j].view = j - 1 /\ j - 1 \in 0..m
      BY <1>1
    <3>2. g[stack[j].view] = h[stack[j].view]
      BY <2>2, <3>1
    <3> QED BY <3>2 DEF ToolThrough
  <2>5. h = [j \in 0..(m + 1) |-> ToolThrough(h, j, tool)]
    <3>1. h = [j \in 0..(m + 1) |-> h[j]]
      BY DEF h
    <3> QED BY <3>1, <2>3, <2>4
  <2> QED BY <2>5
<1>4. n \in T
  <2> HIDE DEF T
  <2>1. Nat \subseteq T
    BY <1>2, <1>3, AgentInduction
  <2> QED BY <2>1, <1>1
<1>5. \E g : g = [j \in 0..n |-> ToolThrough(g, j, tool)]
  BY <1>1, <1>4
<1> QED BY <1>5 DEF View, n

\* A run that may call a tool: the root has it active, and its definition and those of all
\* above it name it; a "subagent" built by the host is its own.
LEMMA ToolsSeen ==
  ASSUME AgentInv, NEW tool, NEW j \in 0..Len(stack)
  PROVE  LET seen == Agents!GetActive(j, tool)
         IN /\ seen.by \in Int
            /\ seen.ok => tool \in activeTools /\ \A k \in 1..j : Agents!Allows(stack[k].name, tool)
            /\ tool = "subagent" /\ seen.by >= 0 => seen.by = j
<1> DEFINE n == Len(stack)
           Good(i) == /\ View(tool)[i].by \in Int
                      /\ View(tool)[i].ok =>
                           /\ tool \in activeTools
                           /\ \A k \in 1..i : Agents!Allows(stack[k].name, tool)
                      /\ tool = "subagent" /\ View(tool)[i].by >= 0 => View(tool)[i].by = i
           T == {m \in Nat : m <= n => Good(m)}
<1>1. n \in Nat /\ \A i \in 1..n : stack[i].view = i - 1
  <2>1. n \in Nat
    BY DEF AgentInv, AgentTypes
  <2> QED BY <2>1 DEF AgentInv, Chain
<1>2. \A i \in 0..n : View(tool)[i] = ToolThrough(View(tool), i, tool)
  BY ViewEquation
<1> HIDE DEF n
<1>3. 0 \in T
  <2>1. 0 \in 0..n
    BY <1>1
  <2>2. View(tool)[0] =
          [ok |-> tool \in activeTools, by |-> IF tool = "subagent" /\ ~ours THEN -1 ELSE 0]
    BY <2>1, <1>2 DEF ToolThrough
  <2>3. /\ View(tool)[0].ok <=> tool \in activeTools
        /\ View(tool)[0].by = -1 \/ View(tool)[0].by = 0
    <3> DEFINE b == IF tool = "subagent" /\ ~ours THEN -1 ELSE 0
    <3>1. View(tool)[0] = [ok |-> tool \in activeTools, by |-> b] /\ (b = -1 \/ b = 0)
      BY <2>2
    <3> HIDE DEF b
    <3> DEFINE p == tool \in activeTools
    <3>2. View(tool)[0] = [ok |-> p, by |-> b]
      BY <3>1
    <3> HIDE DEF p
    <3>3. View(tool)[0].ok = p /\ View(tool)[0].by = b
      BY <3>2
    <3> QED BY <3>1, <3>3 DEF p
  <2>4. \A k : k \notin 1..0
    OBVIOUS
  <2> QED BY <2>3, <2>4
<1>4. ASSUME NEW m \in Nat, m \in T PROVE m + 1 \in T
  <2> SUFFICES ASSUME m + 1 <= n PROVE Good(m + 1)
    OBVIOUS
  <2> DEFINE i == m + 1 above == View(tool)[m]
  <2>1. i \in 1..n /\ i \in 0..n /\ i # 0 /\ i - 1 = m /\ Good(m)
    BY <1>1, <1>4
  <2>2. View(tool)[i] = IF ~Agents!Allows(stack[i].name, tool) THEN [ok |-> FALSE, by |-> i]
          ELSE [ok |-> above.ok,
                by |-> IF tool = "subagent" THEN Agents!SubagentView(i, above.by) ELSE above.by]
    BY <2>1, <1>1, <1>2 DEF ToolThrough
  <2>3. CASE ~Agents!Allows(stack[i].name, tool)
    BY <2>2, <2>3, <2>1
  <2>4. CASE Agents!Allows(stack[i].name, tool)
    <3>1. /\ View(tool)[i].ok = above.ok
          /\ View(tool)[i].by =
               IF tool = "subagent" THEN Agents!SubagentView(i, above.by) ELSE above.by
      BY <2>2, <2>4
    <3>2. \A k \in 1..i : k = i \/ k \in 1..m
      OBVIOUS
    <3>3. View(tool)[i].ok =>
            tool \in activeTools /\ \A k \in 1..i : Agents!Allows(stack[k].name, tool)
      BY <3>1, <3>2, <2>1, <2>4
    <3>4. View(tool)[i].by \in Int
          /\ (tool = "subagent" /\ View(tool)[i].by >= 0 => View(tool)[i].by = i)
      BY <3>1, <2>1 DEF Agents!SubagentView
    <3> QED BY <3>3, <3>4
  <2> QED BY <2>3, <2>4
<1>5. j \in Nat /\ j <= n /\ j \in T
  <2> HIDE DEF T
  <2>1. Nat \subseteq T
    BY <1>3, <1>4, AgentInduction
  <2> QED BY <2>1, <1>1 DEF n
<1>6. Good(j)
  BY <1>5
<1> QED BY <1>6, ViewIs

Open == {"mark", "close", "turn", "drain"}

\* The file of the run on top.
LEMMA TopFile ==
  ASSUME AgentInv, stack # <<>>
  PROVE  /\ FileAt(Agents!Top.run, Agents!Top.at)
         /\ Agents!Top.run \in handles <=> Agents!Top.at \in Open
         /\ Agents!Top.run # 0 => Agents!Top.run \in DOMAIN children
         /\ \A f \in DOMAIN children : f \in Nat /\ f # 0
         /\ 0 \notin handles
<1> DEFINE n == Len(stack)
<1>1. n \in 1..n /\ Agents!Top = stack[n]
  BY TopRun
<1>2. /\ \A i \in 1..n : FileAt(stack[i].run, stack[i].at)
      /\ \A i, j \in 1..n : stack[i].run = stack[j].run /\ stack[i].run # 0 => i = j
  BY DEF AgentInv, OwnFiles
<1>3. \A h : h \in handles <=> \E i \in 1..n : stack[i].at \in Open /\ stack[i].run = h
  BY DEF AgentInv, Files, Open
<1>4. \A f \in DOMAIN children : f \in Nat /\ f # 0
  BY DEF AgentInv, AgentTypes
<1> HIDE DEF n
<1>5. \A i \in 1..n : stack[i].at \in Open => stack[i].run # 0
  BY <1>2 DEF FileAt, Open
<1>6. stack[n].run \in handles <=> stack[n].at \in Open
  BY <1>1, <1>2, <1>3, <1>5
<1>7. stack[n].run # 0 => stack[n].run \in DOMAIN children
  BY <1>1, <1>2 DEF FileAt
<1>8. 0 \notin handles
  BY <1>3, <1>5
<1> QED BY <1>1, <1>2, <1>4, <1>6, <1>7, <1>8

\* A step of the run on top that keeps its file as it is.
LEMMA QuietKeeps ==
  ASSUME AgentInv, stack # <<>>, NEW x \in Frames,
         stack' = [stack EXCEPT ![Len(stack)] = x],
         x.name = Agents!Top.name, x.depth = Agents!Top.depth, x.view = Agents!Top.view,
         x.ancestry = Agents!Top.ancestry, x.run = Agents!Top.run,
         Agents!Top.at # "check" \/ Agents!Admitted(Agents!Top.name),
         FileAt(x.run, x.at), x.at \in Open <=> Agents!Top.at \in Open,
         UNCHANGED <<children, handles, started, unremoved, runs>>, ours' = ours
  PROVE  AgentInv'
<1>1. AgentTypes'
  BY AdvanceIs DEF AgentInv, AgentTypes
<1>2. Chain' /\ Waiting'
  BY AdvanceChain
<1>3. FileAt(x.run, x.at)'
  BY DEF FileAt
<1>4. \A h : h \in handles' <=>
        \/ h \in handles /\ h # x.run
        \/ h = x.run /\ x.at \in {"mark", "close", "turn", "drain"}
  BY TopFile DEF Open
<1>5. /\ unremoved' = unremoved /\ DOMAIN children' \subseteq DOMAIN children \cup {x.run}
      /\ \A f \in DOMAIN children :
           f # x.run =>
             f \in DOMAIN children' /\ children'[f] = children[f]
             /\ (f \in started' <=> f \in started)
  OBVIOUS
<1>6. OwnFiles' /\ Files'
  BY <1>1, <1>3, <1>4, <1>5, AdvanceFiles
<1> QED BY <1>1, <1>2, <1>6 DEF AgentInv

\* A run that has no file yet, or is done with it, returns.
LEMMA QuietReturn ==
  ASSUME AgentInv, stack # <<>>, Agents!Return,
         Agents!Top.at \in {"check", "tools", "create", "drain"},
         UNCHANGED <<children, started, unremoved, runs>>, ours' = ours
  PROVE  AgentInv'
<1>1. stack' \in Seq(Frames)
  BY TopRun DEF Agents!Return, Agents!Pop, AgentInv, AgentTypes
<1>2. AgentTypes'
  BY <1>1 DEF AgentInv, AgentTypes
<1>3. Agents!Top.run \in DOMAIN children => Agents!Top.run \in started /\ children[Agents!Top.run]
  BY TopFile DEF FileAt
<1> QED BY <1>2, <1>3, ReturnKeeps

LEMMA CheckStep == AgentInv /\ Agents!Check => AgentInv'
<1> SUFFICES ASSUME AgentInv, Agents!Check PROVE AgentInv'
  OBVIOUS
<1>1. /\ stack # <<>> /\ Agents!Top.at = "check" /\ ours' = ours
      /\ UNCHANGED <<children, started, unremoved, runs>>
  BY DEF Agents!Check
<1>2. CASE Agents!Return
  BY <1>1, <1>2, QuietReturn
<1>3. CASE /\ Agents!Admitted(Agents!Top.name)
           /\ stack' = Agents!Set("at", "tools") /\ handles' = handles
  <2> DEFINE x == [Agents!Top EXCEPT !.at = "tools"]
  <2>1. /\ x \in Frames /\ x.at = "tools"
        /\ x.name = Agents!Top.name /\ x.depth = Agents!Top.depth /\ x.view = Agents!Top.view
        /\ x.ancestry = Agents!Top.ancestry /\ x.run = Agents!Top.run
    BY TopRun, <1>1 DEF Frames, AgentSteps
  <2>2. stack' = [stack EXCEPT ![Len(stack)] = x]
    BY <1>1, <1>3, TopRun DEF Agents!Set, AgentInv, AgentTypes, Frames
  <2> HIDE DEF x
  <2>3. FileAt(x.run, x.at) /\ (x.at \in Open <=> Agents!Top.at \in Open)
    BY <2>1, <1>1, TopFile DEF FileAt, Open
  <2> QED BY <2>1, <2>2, <2>3, <1>1, <1>3, QuietKeeps
<1> QED BY <1>2, <1>3 DEF Agents!Check

LEMMA BuildToolsStep == AgentInv /\ Agents!BuildTools => AgentInv'
<1> SUFFICES ASSUME AgentInv, Agents!BuildTools PROVE AgentInv'
  OBVIOUS
<1>1. /\ stack # <<>> /\ Agents!Top.at = "tools" /\ ours' = ours
      /\ UNCHANGED <<children, started, unremoved, runs>>
  BY DEF Agents!BuildTools
<1>2. CASE Agents!Return
  BY <1>1, <1>2, QuietReturn
<1>3. CASE stack' = Agents!Set("at", "create") /\ handles' = handles
  <2> DEFINE x == [Agents!Top EXCEPT !.at = "create"]
  <2>1. /\ x \in Frames /\ x.at = "create"
        /\ x.name = Agents!Top.name /\ x.depth = Agents!Top.depth /\ x.view = Agents!Top.view
        /\ x.ancestry = Agents!Top.ancestry /\ x.run = Agents!Top.run
    BY TopRun, <1>1 DEF Frames, AgentSteps
  <2>2. stack' = [stack EXCEPT ![Len(stack)] = x]
    BY <1>1, <1>3, TopRun DEF Agents!Set, AgentInv, AgentTypes, Frames
  <2> HIDE DEF x
  <2>3. FileAt(x.run, x.at) /\ (x.at \in Open <=> Agents!Top.at \in Open)
    BY <2>1, <1>1, TopFile DEF FileAt, Open
  <2> QED BY <2>1, <2>2, <2>3, <1>1, <1>3, QuietKeeps
<1> QED BY <1>2, <1>3 DEF Agents!BuildTools

\* The new file is nobody's, and its number is the next one.
LEMMA CreateStep == AgentInv /\ Agents!Create => AgentInv'
<1> SUFFICES ASSUME AgentInv, Agents!Create PROVE AgentInv'
  OBVIOUS
<1>1. /\ stack # <<>> /\ Agents!Top.at = "create" /\ ours' = ours
      /\ started' = started /\ unremoved' = unremoved
  BY DEF Agents!Create
<1>2. CASE Agents!Return /\ UNCHANGED <<children, runs>>
  BY <1>1, <1>2, QuietReturn
<1>3. CASE /\ runs' = runs + 1
           /\ children' = [f \in DOMAIN children \union {runs'} |->
                             f \in DOMAIN children /\ children[f]]
           /\ handles' = handles \union {runs'}
           /\ stack' = [stack EXCEPT ![Len(stack)].at = "mark", ![Len(stack)].run = runs']
  <2>1. /\ runs \in Nat /\ runs' \in Nat \ {0} /\ runs' = runs + 1
        /\ DOMAIN children \subseteq 1..runs /\ started \subseteq DOMAIN children
    BY <1>3 DEF AgentInv, AgentTypes
  <2>2. \E z \in Frames :
          /\ z.at = "mark" /\ z.name = Agents!Top.name
          /\ z.depth = Agents!Top.depth /\ z.view = Agents!Top.view
          /\ z.ancestry = Agents!Top.ancestry /\ z.run = runs'
          /\ stack' = [stack EXCEPT ![Len(stack)] = z]
    <3> DEFINE y == [Agents!Top EXCEPT !.at = "mark"]
               z == [y EXCEPT !.run = runs']
    <3>1. /\ y \in Frames /\ y.at = "mark" /\ y.name = Agents!Top.name
          /\ y.depth = Agents!Top.depth /\ y.view = Agents!Top.view
          /\ y.ancestry = Agents!Top.ancestry
      BY TopRun, <1>1 DEF Frames, AgentSteps
    <3>2. stack' = [stack EXCEPT ![Len(stack)] = z]
      BY <1>1, <1>3, TopRun DEF AgentInv, AgentTypes, Frames
    <3> HIDE DEF y
    <3>3. /\ z \in Frames /\ z.at = "mark" /\ z.name = Agents!Top.name
          /\ z.depth = Agents!Top.depth /\ z.view = Agents!Top.view
          /\ z.ancestry = Agents!Top.ancestry /\ z.run = runs'
      BY <2>1, <3>1 DEF Frames
    <3> QED BY <3>2, <3>3
  <2>3. PICK x \in Frames :
          /\ x.at = "mark" /\ x.name = Agents!Top.name
          /\ x.depth = Agents!Top.depth /\ x.view = Agents!Top.view
          /\ x.ancestry = Agents!Top.ancestry /\ x.run = runs'
          /\ stack' = [stack EXCEPT ![Len(stack)] = x]
    BY <2>2
  <2>5. Agents!Top.run = 0 /\ runs' \notin DOMAIN children /\ runs' \notin handles
    <3>1. runs' \notin DOMAIN children
      BY <2>1
    <3>2. \A h \in handles : h \in DOMAIN children
      BY DEF AgentInv, Files, OwnFiles, FileAt
    <3> QED BY <1>1, <3>1, <3>2, TopFile DEF FileAt
  <2>6. DOMAIN children' = DOMAIN children \cup {x.run}
        /\ \A f \in DOMAIN children' : children'[f] = (f \in DOMAIN children /\ children[f])
    BY <1>3, <2>3
  <2>7. AgentTypes'
    <3>1. stack' \in Seq(Frames)
      BY <2>3, <1>1, AdvanceIs
    <3>2. DOMAIN children' \subseteq 1..runs' /\ started' \subseteq DOMAIN children'
      BY <2>1, <2>3, <2>6, <1>1
    <3>3. children' \in [DOMAIN children' -> BOOLEAN]
      BY <1>3
    <3> QED BY <3>1, <3>2, <3>3, <2>1, <1>1 DEF AgentInv, AgentTypes
  <2>8. Chain' /\ Waiting'
    BY <2>3, <1>1, AdvanceChain
  <2>9. \A f \in DOMAIN children :
          f # x.run =>
            f \in DOMAIN children' /\ children'[f] = children[f]
            /\ (f \in started' <=> f \in started)
    BY <2>6, <1>1 DEF AgentInv, AgentTypes
  <2>10. FileAt(x.run, x.at)'
    BY <2>1, <2>3, <2>5, <2>6, <1>1 DEF FileAt
  <2>11. \A h : h \in handles' <=>
           \/ h \in handles /\ h # x.run
           \/ h = x.run /\ x.at \in {"mark", "close", "turn", "drain"}
    BY <1>3, <2>3, <2>5
  <2>12. OwnFiles' /\ Files'
    BY <2>3, <2>5, <2>6, <2>7, <2>9, <2>10, <2>11, <1>1, AdvanceFiles
  <2> QED BY <2>7, <2>8, <2>12 DEF AgentInv
<1> QED BY <1>2, <1>3 DEF Agents!Create

\* A start that failed: the file goes, unless its removal fails as well.
LEMMA DiscardKeeps ==
  ASSUME AgentInv, stack # <<>>, Agents!Discard, Agents!Top.at \in {"mark", "close", "open"},
         UNCHANGED <<started, runs>>, ours' = ours
  PROVE  AgentInv'
<1> DEFINE r == Agents!Top.run
<1>1. Agents!Return /\ r \in DOMAIN children /\ r \notin started
  BY TopFile DEF Agents!Discard, FileAt
<1>2. stack' \in Seq(Frames)
  BY <1>1, TopRun DEF Agents!Return, Agents!Pop, AgentInv, AgentTypes
<1>3. /\ children \in [DOMAIN children -> BOOLEAN] /\ DOMAIN children \subseteq 1..runs
      /\ started \subseteq DOMAIN children
  BY DEF AgentInv, AgentTypes
<1>4. CASE children' = [f \in DOMAIN children \ {r} |-> children[f]] /\ unremoved' = unremoved
  <2> HIDE DEF r
  <2>1. DOMAIN children' = DOMAIN children \ {r}
        /\ \A f \in DOMAIN children' : children'[f] = children[f]
    BY <1>3, <1>4
  <2>2. AgentTypes'
    <3>1. DOMAIN children' \subseteq 1..runs' /\ started' \subseteq DOMAIN children'
      BY <2>1, <1>1, <1>3
    <3>2. runs' \in Nat /\ ours' \in BOOLEAN
      BY DEF AgentInv, AgentTypes
    <3>3. children' \in [DOMAIN children' -> BOOLEAN]
      BY <1>3, <1>4
    <3> QED BY <3>1, <3>2, <3>3, <1>2, Zenon DEF AgentTypes
  <2>3. \A f \in DOMAIN children :
          f # r => f \in DOMAIN children' /\ children'[f] = children[f]
                   /\ (f \in started' <=> f \in started)
    BY <2>1
  <2>4. DOMAIN children' \subseteq DOMAIN children /\ r \notin DOMAIN children'
        /\ unremoved \subseteq unremoved'
    BY <2>1, <1>4
  <2> QED BY <2>2, <2>3, <2>4, <1>1, ReturnKeeps DEF r
<1>5. CASE unremoved' = unremoved \union {r} /\ children' = children
  <2>1. AgentTypes'
    BY <1>2, <1>5 DEF AgentInv, AgentTypes
  <2>2. r \in unremoved' /\ unremoved \subseteq unremoved'
    BY <1>5
  <2> QED BY <2>1, <2>2, <1>1, <1>5, ReturnKeeps
<1> QED BY <1>4, <1>5 DEF Agents!Discard

\* The file is marked, closed and opened again, in this order.
LEMMA PrepareStep ==
  ASSUME AgentInv, NEW from, NEW to, Agents!Prepare(from, to),
         <<from, to>> \in {<<"mark", "close">>, <<"close", "open">>, <<"open", "turn">>}
  PROVE  AgentInv'
<1>1. /\ stack # <<>> /\ Agents!Top.at = from /\ ours' = ours /\ runs' = runs
      /\ from \in {"mark", "close", "open"} /\ to \in {"close", "open", "turn"}
      /\ to = "close" <=> from = "mark"
      /\ to = "turn" <=> from = "open"
  BY DEF Agents!Prepare
<1>2. CASE Agents!Discard /\ started' = started
  BY <1>1, <1>2, DiscardKeeps
<1>3. CASE /\ stack' = Agents!Set("at", to)
           /\ children' = IF from = "mark" THEN [children EXCEPT ![Agents!Top.run] = TRUE]
                          ELSE children
           /\ handles' = IF from = "close" THEN handles \ {Agents!Top.run}
                         ELSE IF from = "open" THEN handles \union {Agents!Top.run} ELSE handles
           /\ started' = IF to = "turn" THEN started \union {Agents!Top.run} ELSE started
           /\ unremoved' = unremoved
  <2>1. \E z \in Frames :
          /\ z.at = to /\ z.name = Agents!Top.name /\ z.depth = Agents!Top.depth
          /\ z.view = Agents!Top.view /\ z.ancestry = Agents!Top.ancestry
          /\ z.run = Agents!Top.run /\ stack' = [stack EXCEPT ![Len(stack)] = z]
    <3> DEFINE z == [Agents!Top EXCEPT !.at = to]
    <3>1. /\ z \in Frames /\ z.at = to /\ z.name = Agents!Top.name
          /\ z.depth = Agents!Top.depth /\ z.view = Agents!Top.view
          /\ z.ancestry = Agents!Top.ancestry /\ z.run = Agents!Top.run
      BY TopRun, <1>1 DEF Frames, AgentSteps
    <3>2. stack' = [stack EXCEPT ![Len(stack)] = z]
      BY <1>1, <1>3, TopRun DEF Agents!Set, AgentInv, AgentTypes, Frames
    <3> QED BY <3>1, <3>2
  <2>2. PICK x \in Frames :
          /\ x.at = to /\ x.name = Agents!Top.name /\ x.depth = Agents!Top.depth
          /\ x.view = Agents!Top.view /\ x.ancestry = Agents!Top.ancestry
          /\ x.run = Agents!Top.run /\ stack' = [stack EXCEPT ![Len(stack)] = x]
    BY <2>1
  <2>3. /\ FileAt(x.run, from) /\ x.run # 0 /\ x.run \in DOMAIN children
        /\ x.run \in handles <=> from \in Open
    BY <2>2, <1>1, TopFile DEF FileAt
  <2>4. /\ children \in [DOMAIN children -> BOOLEAN] /\ DOMAIN children \subseteq 1..runs
        /\ started \subseteq DOMAIN children
    BY DEF AgentInv, AgentTypes
  <2>5. /\ DOMAIN children' = DOMAIN children /\ children' \in [DOMAIN children' -> BOOLEAN]
        /\ \A f \in DOMAIN children : f # x.run => children'[f] = children[f]
        /\ children'[x.run] <=> children[x.run] \/ from = "mark"
    BY <2>2, <2>3, <2>4, <1>3
  <2>6. \A f : f \in started' <=> f \in started \/ (f = x.run /\ to = "turn")
    <3>1. CASE to = "turn"
      BY <3>1, <2>2, <1>3
    <3>2. CASE to # "turn"
      BY <3>2, <1>3
    <3> QED BY <3>1, <3>2
  <2>7. \A h : h \in handles' <=> \/ h \in handles /\ ~(h = x.run /\ from = "close")
                                  \/ h = x.run /\ from = "open"
    BY <2>2, <1>3, <1>1
  <2>8. AgentTypes'
    <3>1. stack' \in Seq(Frames)
      BY <2>2, <1>1, AdvanceIs
    <3>2. started' \subseteq DOMAIN children' /\ DOMAIN children' \subseteq 1..runs'
      BY <2>3, <2>4, <2>5, <2>6, <1>1
    <3> QED BY <3>1, <3>2, <2>5, <1>1 DEF AgentInv, AgentTypes
  <2>9. Chain' /\ Waiting'
    BY <2>2, <1>1, AdvanceChain
  <2>10. FileAt(x.run, x.at)'
    BY <2>2, <2>3, <2>5, <2>6, <1>1 DEF FileAt
  <2>11. \A h : h \in handles' <=>
           \/ h \in handles /\ h # x.run
           \/ h = x.run /\ x.at \in {"mark", "close", "turn", "drain"}
    BY <2>2, <2>3, <2>7, <1>1 DEF Open
  <2>12. /\ \A f \in DOMAIN children :
              f # x.run =>
                f \in DOMAIN children' /\ children'[f] = children[f]
                /\ (f \in started' <=> f \in started)
         /\ DOMAIN children' \subseteq DOMAIN children \cup {x.run}
    <3>1. \A f : f # x.run => (f \in started' <=> f \in started)
      BY <2>6
    <3>2. \A f \in DOMAIN children : f \in DOMAIN children'
      BY <2>5
    <3>3. \A f \in DOMAIN children : f # x.run => children'[f] = children[f]
      BY <2>5
    <3>4. DOMAIN children' \subseteq DOMAIN children \cup {x.run}
      BY <2>5
    <3> QED BY <3>1, <3>2, <3>3, <3>4, Zenon
  <2>13. OwnFiles' /\ Files'
    BY <2>2, <2>8, <2>10, <2>11, <2>12, <1>1, <1>3, AdvanceFiles
  <2> QED BY <2>8, <2>9, <2>13 DEF AgentInv
<1> QED BY <1>2, <1>3 DEF Agents!Prepare

\* A run has its number, its lineage and its file from its first turn to its last.
LEMMA RunTurnKeeps ==
  ASSUME AgentInv, stack # <<>>, NEW field, NEW v,
         \/ field = "compactions" /\ v \in Nat /\ Agents!Top.at \in {"turn", "drain"}
         \/ field = "overflowed" /\ v \in BOOLEAN /\ Agents!Top.at = "turn"
         \/ field = "at" /\ v = "drain" /\ Agents!Top.at = "turn",
         stack' = Agents!Set(field, v),
         UNCHANGED <<children, handles, started, unremoved, runs>>, ours' = ours
  PROVE  AgentInv'
<1>1. \E z \in Frames :
        /\ z.at \in {"turn", "drain"} /\ z.name = Agents!Top.name /\ z.depth = Agents!Top.depth
        /\ z.view = Agents!Top.view /\ z.ancestry = Agents!Top.ancestry
        /\ z.run = Agents!Top.run /\ stack' = [stack EXCEPT ![Len(stack)] = z]
  <2> DEFINE z == [Agents!Top EXCEPT ![field] = v]
  <2>1. stack' = [stack EXCEPT ![Len(stack)] = z]
    BY TopRun DEF Agents!Set, AgentInv, AgentTypes
  <2>2. Agents!Top \in Frames
    BY TopRun
  <2>3. CASE field = "compactions" /\ v \in Nat /\ Agents!Top.at \in {"turn", "drain"}
    BY <2>1, <2>2, <2>3 DEF Frames, AgentSteps
  <2>4. CASE field = "overflowed" /\ v \in BOOLEAN /\ Agents!Top.at = "turn"
    BY <2>1, <2>2, <2>4 DEF Frames, AgentSteps
  <2>5. CASE field = "at" /\ v = "drain" /\ Agents!Top.at = "turn"
    BY <2>1, <2>2, <2>5 DEF Frames, AgentSteps
  <2> QED BY <2>3, <2>4, <2>5
<1>2. PICK x \in Frames :
        /\ x.at \in {"turn", "drain"} /\ x.name = Agents!Top.name /\ x.depth = Agents!Top.depth
        /\ x.view = Agents!Top.view /\ x.ancestry = Agents!Top.ancestry
        /\ x.run = Agents!Top.run /\ stack' = [stack EXCEPT ![Len(stack)] = x]
  BY <1>1
<1>3. Agents!Top.at \in {"turn", "drain"}
  OBVIOUS
<1>4. FileAt(x.run, x.at) /\ (x.at \in Open <=> Agents!Top.at \in Open)
  BY <1>2, <1>3, TopFile DEF FileAt, Open
<1>5. Agents!Top.at # "check"
  BY <1>3
<1> QED BY <1>2, <1>4, <1>5, QuietKeeps

\* The root, or the run on top by a tool of its own, starts another.
LEMMA StartStep ==
  ASSUME AgentInv, NEW name \in AgentNames, Agents!Ask(name) \/ Agents!Delegate(name)
  PROVE  AgentInv'
<1>1. CASE Agents!Ask(name)
  <2>1. stack = <<>> /\ Len(stack) = 0 /\ Agents!Enter(name, Agents!ParentOf(Len(stack)))
    BY <1>1 DEF Agents!Ask
  <2> QED BY <2>1, <1>1, PushKeeps DEF Agents!Ask
<1>2. CASE Agents!Delegate(name)
  <2> DEFINE tool == Agents!GetActive(Len(stack), "subagent")
  <2>1. /\ stack # <<>> /\ Agents!Top.at = "turn" /\ tool.by >= 0
        /\ Agents!Enter(name, Agents!ParentOf(tool.by))
    BY <1>2 DEF Agents!Delegate
  <2>2. Len(stack) \in 0..Len(stack)
    BY <2>1, TopRun
  <2>3. tool.by = Len(stack)
    BY <2>1, <2>2, ToolsSeen
  <2> HIDE DEF tool
  <2>4. Agents!Enter(name, Agents!ParentOf(Len(stack)))
    BY <2>1, <2>3
  <2> QED BY <2>1, <2>4, <1>2, PushKeeps DEF Agents!Delegate
<1> QED BY <1>1, <1>2

LEMMA AgentStep ==
  ASSUME AgentInv, Agents!Next \/ UNCHANGED agentVars
  PROVE  AgentInv'
<1>1. CASE UNCHANGED agentVars \/ Agents!Cancel \/ Agents!Toggle
  <2>1. UNCHANGED <<stack, children, handles, started, unremoved, runs>>
        /\ (ours' = ours \/ ours' = ~ours)
    BY <1>1 DEF agentVars, Agents!Cancel, Agents!Toggle
  <2>2. AgentTypes'
    BY <2>1 DEF AgentInv, AgentTypes
  <2>3. Chain' /\ Waiting'
    BY <2>1 DEF AgentInv, Chain, Waiting
  <2>4. OwnFiles' /\ Files'
    BY <2>1 DEF AgentInv, OwnFiles, FileAt, Files
  <2> QED BY <2>2, <2>3, <2>4 DEF AgentInv
<1>2. ASSUME NEW name \in AgentNames, Agents!Ask(name) \/ Agents!Delegate(name) PROVE AgentInv'
  BY <1>2, StartStep
<1>3. CASE Agents!Check
  BY <1>3, CheckStep
<1>4. CASE Agents!BuildTools
  BY <1>4, BuildToolsStep
<1>5. CASE Agents!Create
  BY <1>5, CreateStep
<1>6. CASE Agents!Mark
  BY <1>6, PrepareStep DEF Agents!Mark
<1>7. CASE Agents!Close
  BY <1>7, PrepareStep DEF Agents!Close
<1>8. CASE Agents!Open
  BY <1>8, PrepareStep DEF Agents!Open
<1>9. CASE Agents!Compact
  BY <1>9, RunTurnKeeps DEF Agents!Compact
<1>10. CASE Agents!TurnEnds
  BY <1>10, RunTurnKeeps DEF Agents!TurnEnds
<1>11. CASE Agents!Drain
  <2>1. CASE Agents!Top.compactions > 0
    BY <1>11, <2>1, RunTurnKeeps DEF Agents!Drain
  <2>2. CASE ~(Agents!Top.compactions > 0)
    BY <1>11, <2>2, QuietReturn DEF Agents!Drain
  <2> QED BY <2>1, <2>2
<1> QED BY <1>1, <1>2, <1>3, <1>4, <1>5, <1>6, <1>7, <1>8, <1>9, <1>10, <1>11 DEF Agents!Next

LEMMA AgentImplies == AgentInv => Agents!DelegationSafe
<1> SUFFICES ASSUME AgentInv PROVE Agents!DelegationSafe
  OBVIOUS
<1>1. Len(stack) \in Nat /\ DOMAIN stack = 1..Len(stack)
  BY DEF AgentInv, AgentTypes
<1>2. Agents!Lineage
  BY <1>1 DEF AgentInv, Chain, Agents!Lineage
<1>3. Agents!ToolsContained
  BY <1>1, ToolsSeen DEF Agents!ToolsContained
<1>4. Agents!SessionsOwned
  BY <1>1 DEF AgentInv, AgentTypes, Files, Agents!SessionsOwned
<1> QED BY <1>2, <1>3, <1>4 DEF Agents!DelegationSafe

-----------------------------------------------------------------------------
(* ContextCompaction.                                                      *)

SessionEntries ==
  [kind : {"text", "calls", "result", "compaction"}, of : Nat, kept : SUBSET Nat,
   atHead : BOOLEAN, astray : BOOLEAN]

\* The results of a batch of calls follow it at once.
Hangs(l) ==
  \A i \in 1..Len(l) : l[i].kind = "result" =>
    /\ l[i].of \in 1..i - 1 /\ l[l[i].of].kind = "calls"
    /\ \A j \in l[i].of + 1 .. i : l[j].kind = "result"

\* Loadable, over any branch.
Paired(l, q) ==
  /\ \A i \in 1..Len(q) : l[q[i]].kind = "result" => \E j \in 1..i : q[j] = l[q[i]].of
  /\ \A r \in 1..Len(l) :
       l[r].kind = "result" /\ (\E k \in 1..Len(q) : q[k] = l[r].of) =>
       \E k \in 1..Len(q) : q[k] = r

\* Messages stand in the order of the session, but for the summary at their head.
Ascends(l, q) ==
  \A j \in 2..Len(q) :
    /\ \A i \in 2..j - 1 : q[i] < q[j]
    /\ l[q[1]].kind = "compaction" \/ q[1] < q[j]

\* An anchor is an earlier entry, no result, and what the compaction kept lies behind it,
\* unless it is the summary of an earlier one.
Reaches(e, m) == e.kind = "compaction" => e.of \in 0..m /\ e.kept \subseteq 1..m
Means(e, l, m) ==
  e.kind = "compaction" /\ e.of # 0 =>
  /\ l[e.of].kind # "result"
  /\ e.kept \subseteq e.of..m \/ (e.atHead /\ l[e.of].kind = "compaction")

Strays(l) == \E i \in 1..Len(l) : l[i].astray

\* Projection, over any branch.
Marks(l) == {i \in 1..Len(l) : l[i].kind = "compaction"}
Through(a, b) == [i \in 1..b + 1 - a |-> a + i - 1]
Shown(l) ==
  IF Marks(l) = {} \/ l[Context!Max(Marks(l))].of = 0 THEN Through(1, Len(l))
  ELSE LET c == Context!Max(Marks(l)) IN
       <<c>> \o Through(l[c].of, c - 1) \o Through(c + 1, Len(l))

LEMMA ShownIs == Shown(log) = Context!Projection
BY DEF Shown, Marks, Through, Context!Projection, Context!Compactions, Context!Between,
       Context!Unresolved

LEMMA PairedIs ==
  ASSUME log \in Seq(SessionEntries), NEW q \in Seq(1..Len(log))
  PROVE  Context!Loadable(q) <=> Paired(log, q)
<1>1. \A x : x \in Context!ToSet(q) <=> \E k \in 1..Len(q) : q[k] = x
  BY DEF Context!ToSet
<1>2. Context!Loadable(q) <=>
        /\ \A i \in 1..Len(q) :
             log[q[i]].kind = "result" => \E j \in 1..i : q[j] = log[q[i]].of
        /\ \A i \in 1..Len(log) :
             log[i].kind = "result" /\ log[i].of \in Context!ToSet(q) => i \in Context!ToSet(q)
  BY DEF Context!Loadable
<1> QED BY <1>1, <1>2 DEF Paired

LEMMA StraysIs ==
  ASSUME log \in Seq(SessionEntries)
  PROVE  Context!Astray <=> Strays(log)
BY DEF Context!Astray, Context!ToSet, Strays

-----------------------------------------------------------------------------
\* What stands where when one sequence follows another.
LEMMA Joins ==
  ASSUME NEW S, NEW s \in Seq(S), NEW t \in Seq(S)
  PROVE  /\ s \o t \in Seq(S) /\ Len(s \o t) = Len(s) + Len(t)
         /\ \A i \in 1..Len(s) : (s \o t)[i] = s[i]
         /\ \A i \in 1..Len(t) : (s \o t)[Len(s) + i] = t[i]
OBVIOUS

\* The latest of some entries.
LEMMA LatestIn ==
  ASSUME NEW n \in Nat, NEW T, T \subseteq 1..n, T # {}
  PROVE  Context!Max(T) \in T /\ \A i \in T : i <= Context!Max(T)
<1> DEFINE U == {n - i : i \in T}
<1>1. U \subseteq Nat /\ U # {}
  <2>1. \A i \in T : n - i \in Nat
    OBVIOUS
  <2> QED BY <2>1
<1>2. PICK x \in U : \A y \in U : x <= y
  BY <1>1, LeastRun
<1>3. PICK i \in T : x = n - i
  BY <1>2
<1>4. \A j \in T : n - i <= n - j
  BY <1>2, <1>3
<1>5. \A j \in T : i >= j
  <2>1. i \in Nat /\ \A j \in T : j \in Nat
    OBVIOUS
  <2> QED BY <1>4, <2>1
<1>6. Context!Max(T) \in T /\ \A j \in T : Context!Max(T) >= j
  BY <1>3, <1>5 DEF Context!Max
<1> QED BY <1>6

\* What a load shows: the whole branch, or a compaction, what lies between its anchor and
\* itself, and what follows.
LEMMA ShownShape ==
  ASSUME NEW l \in Seq(SessionEntries), \A c \in 1..Len(l) : Reaches(l[c], c - 1)
  PROVE  \/ Shown(l) = [i \in 1..Len(l) |-> i]
         \/ \E c \in 1..Len(l) :
              /\ l[c].kind = "compaction" /\ l[c].of \in 1..c - 1
              /\ Shown(l) = [i \in 1..Len(l) + 1 - l[c].of |->
                   IF i = 1 THEN c
                   ELSE IF i <= c + 1 - l[c].of THEN l[c].of + i - 2 ELSE l[c].of + i - 1]
<1>1. Len(l) \in Nat
  OBVIOUS
<1>2. CASE Marks(l) = {} \/ l[Context!Max(Marks(l))].of = 0
  <2>1. Shown(l) = Through(1, Len(l))
    BY <1>2 DEF Shown
  <2> QED BY <1>1, <2>1 DEF Through
<1>3. CASE ~(Marks(l) = {} \/ l[Context!Max(Marks(l))].of = 0)
  <2> DEFINE c == Context!Max(Marks(l))
             o == l[c].of
             n == Len(l)
  <2>1. c \in Marks(l)
    BY <1>1, <1>3, LatestIn DEF Marks
  <2>2. c \in 1..n /\ l[c].kind = "compaction" /\ l[c] \in SessionEntries
    BY <2>1 DEF Marks
  <2>3. o \in 1..c - 1
    BY <1>3, <2>2 DEF Reaches
  <2>4. Shown(l) = <<c>> \o Through(o, c - 1) \o Through(c + 1, n)
    BY <1>3 DEF Shown
  <2> HIDE DEF c, o, n
  <2>5. c \in Nat /\ o \in Nat /\ n \in Nat /\ o < c /\ c <= n /\ 1 <= o
    BY <1>1, <2>2, <2>3 DEF n
  <2>6. Through(o, c - 1) \in Seq(Nat) /\ Len(Through(o, c - 1)) = c - o
        /\ \A i \in 1..c - o : Through(o, c - 1)[i] = o + i - 1
    BY <2>5 DEF Through
  <2>7. Through(c + 1, n) \in Seq(Nat) /\ Len(Through(c + 1, n)) = n - c
        /\ \A i \in 1..n - c : Through(c + 1, n)[i] = c + i
    BY <2>5 DEF Through
  <2> DEFINE a == Through(o, c - 1)
             b == Through(c + 1, n)
             q == <<c>> \o a
             p == q \o b
             s == [i \in 1..n + 1 - o |->
                     IF i = 1 THEN c ELSE IF i <= c + 1 - o THEN o + i - 2 ELSE o + i - 1]
  <2> HIDE DEF a, b, s
  <2>8. /\ q \in Seq(Nat) /\ Len(q) = 1 + (c - o) /\ q[1] = c
        /\ \A i \in 1..c - o : q[1 + i] = o + i - 1
    <3>1. <<c>> \in Seq(Nat) /\ Len(<<c>>) = 1 /\ <<c>>[1] = c
      BY <2>5
    <3>2. a \in Seq(Nat) /\ Len(a) = c - o /\ \A i \in 1..c - o : a[i] = o + i - 1
      BY <2>6 DEF a
    <3> DEFINE x == <<c>>
    <3> HIDE DEF x
    <3>3. x \in Seq(Nat) /\ Len(x) = 1 /\ x[1] = c
      BY <3>1 DEF x
    <3>4. /\ x \o a \in Seq(Nat) /\ Len(x \o a) = Len(x) + Len(a)
          /\ \A i \in 1..Len(x) : (x \o a)[i] = x[i]
          /\ \A i \in 1..Len(a) : (x \o a)[Len(x) + i] = a[i]
      <4>1. x \in Seq(Nat) /\ a \in Seq(Nat)
        BY <3>2, <3>3
      <4> QED BY ONLY <4>1, Joins
    <3> QED BY <3>2, <3>3, <3>4 DEF x
  <2> HIDE DEF q
  <2>9. /\ p \in Seq(Nat) /\ Len(p) = Len(q) + (n - c)
        /\ \A i \in 1..Len(q) : p[i] = q[i]
        /\ \A i \in 1..n - c : p[Len(q) + i] = c + i
    <3>1. b \in Seq(Nat) /\ Len(b) = n - c /\ \A i \in 1..n - c : b[i] = c + i
      BY <2>7 DEF b
    <3>2. /\ q \o b \in Seq(Nat) /\ Len(q \o b) = Len(q) + Len(b)
          /\ \A i \in 1..Len(q) : (q \o b)[i] = q[i]
          /\ \A i \in 1..Len(b) : (q \o b)[Len(q) + i] = b[i]
      <4>1. q \in Seq(Nat) /\ b \in Seq(Nat)
        BY <2>8, <3>1
      <4> QED BY ONLY <4>1, Joins
    <3> QED BY <3>1, <3>2
  <2> HIDE DEF p
  <2> USE DEF s
  <2>10. ASSUME NEW i \in 1..n + 1 - o PROVE p[i] = s[i]
    <3>1. CASE i = 1
      BY <3>1, <2>5, <2>8, <2>9
    <3>2. CASE i # 1 /\ i <= c + 1 - o
      <4>1. i - 1 \in 1..c - o /\ i \in 1..1 + (c - o) /\ 1 + (i - 1) = i
        BY <3>2, <2>5
      <4>2. p[i] = o + (i - 1) - 1
        BY <4>1, <2>8, <2>9
      <4> QED BY <4>2, <3>2, <2>5
    <3>3. CASE ~(i <= c + 1 - o)
      <4> DEFINE k == i - (1 + (c - o))
      <4>1. k \in 1..n - c /\ (1 + (c - o)) + k = i /\ c + k = o + i - 1
        BY <3>3, <2>5
      <4> HIDE DEF k
      <4>2. p[i] = c + k
        BY <4>1, <2>8, <2>9
      <4>3. i # 1
        BY <3>3, <2>5
      <4> QED BY <4>1, <4>2, <4>3, <3>3, <2>5
    <3> QED BY <3>1, <3>2, <3>3
  <2>11. p = s
    <3>1. Len(p) = n + 1 - o
      BY <2>5, <2>8, <2>9
    <3>2. p \in [1..n + 1 - o -> Nat]
      BY <2>9, <3>1
    <3> QED BY <2>10, <3>2
  <2> HIDE DEF p, s
  <2>12. Shown(l) = s
    BY <2>4, <2>11 DEF p, q, a, b
  <2> QED BY <2>2, <2>3, <2>12 DEF s, o, n
<1> QED BY <1>2, <1>3

-----------------------------------------------------------------------------
\* A branch that begins with another.
Prolongs(l, m) == Len(l) <= Len(m) /\ \A i \in 1..Len(l) : m[i] = l[i]

\* What was added holds no result of its own, and nothing else changes for the messages.
LEMMA ProlongedPaired ==
  ASSUME NEW l \in Seq(SessionEntries), NEW m \in Seq(SessionEntries), Prolongs(l, m),
         NEW q \in Seq(1..Len(l)), Paired(l, q),
         \A i \in Len(l) + 1 .. Len(m) : m[i].kind # "result"
  PROVE  Paired(m, q)
<1>1. Len(l) \in Nat /\ Len(m) \in Nat /\ \A i \in 1..Len(q) : q[i] \in 1..Len(l)
  OBVIOUS
<1>2. \A r \in 1..Len(m) : m[r].kind = "result" => r \in 1..Len(l)
  BY <1>1
<1> QED BY <1>1, <1>2 DEF Paired, Prolongs

LEMMA ProlongedHangs ==
  ASSUME NEW l \in Seq(SessionEntries), NEW m \in Seq(SessionEntries), Prolongs(l, m), Hangs(l),
         \A i \in Len(l) + 1 .. Len(m) : m[i].kind # "result"
  PROVE  Hangs(m)
<1>1. Len(l) \in Nat /\ Len(m) \in Nat
  OBVIOUS
<1> SUFFICES ASSUME NEW i \in 1..Len(m), m[i].kind = "result"
             PROVE  /\ m[i].of \in 1..i - 1 /\ m[m[i].of].kind = "calls"
                    /\ \A j \in m[i].of + 1 .. i : m[j].kind = "result"
  BY DEF Hangs
<1>2. i \in 1..Len(l)
  BY <1>1
<1>3. /\ l[i].of \in 1..i - 1 /\ l[l[i].of].kind = "calls"
      /\ \A j \in l[i].of + 1 .. i : l[j].kind = "result"
  BY <1>2 DEF Hangs, Prolongs
<1>4. m[i] = l[i] /\ l[i].of \in 1..Len(l) /\ \A j \in l[i].of + 1 .. i : j \in 1..Len(l)
  BY <1>1, <1>2, <1>3 DEF Prolongs
<1> QED BY <1>3, <1>4 DEF Prolongs

LEMMA ProlongedAscends ==
  ASSUME NEW l \in Seq(SessionEntries), NEW m \in Seq(SessionEntries), Prolongs(l, m),
         NEW q \in Seq(1..Len(l)), Ascends(l, q)
  PROVE  Ascends(m, q)
<1>1. \A j \in 2..Len(q) : q[1] \in 1..Len(l)
  OBVIOUS
<1> QED BY <1>1 DEF Ascends, Prolongs

LEMMA ProlongedStrays ==
  ASSUME NEW l \in Seq(SessionEntries), NEW m \in Seq(SessionEntries), Prolongs(l, m), Strays(l)
  PROVE  Strays(m)
BY DEF Strays, Prolongs

LEMMA ProlongedMeans ==
  ASSUME NEW l \in Seq(SessionEntries), NEW m \in Seq(SessionEntries), Prolongs(l, m),
         NEW e \in SessionEntries, NEW a \in 0..Len(l), NEW b \in Nat, a <= b,
         Reaches(e, a)
  PROVE  Reaches(e, b) /\ (Means(e, l, a) => Means(e, m, b))
<1>1. Reaches(e, b)
  BY DEF Reaches
<1>2. ASSUME Means(e, l, a), e.kind = "compaction", e.of # 0
      PROVE  /\ m[e.of].kind # "result"
             /\ e.kept \subseteq e.of..b \/ (e.atHead /\ m[e.of].kind = "compaction")
  <2>1. e.of \in 1..Len(l) /\ m[e.of] = l[e.of] /\ e.of..a \subseteq e.of..b
    BY <1>2 DEF Reaches, Prolongs
  <2> QED BY <1>2, <2>1 DEF Means
<1> QED BY <1>1, <1>2 DEF Means

-----------------------------------------------------------------------------
\* A function on the first numbers is a sequence.
LEMMA FunctionSeq ==
  ASSUME NEW T, NEW k \in Nat, NEW q \in [1..k -> T]
  PROVE  q \in Seq(T)
OBVIOUS

LEMMA SeqWiden ==
  ASSUME NEW S, NEW T, S \subseteq T, NEW s \in Seq(S)
  PROVE  s \in Seq(T)
OBVIOUS

\* What a load shows is in order, and complete when the anchors are sound.
LEMMA ShownOrder ==
  ASSUME NEW l \in Seq(SessionEntries), \A c \in 1..Len(l) : Reaches(l[c], c - 1)
  PROVE  Shown(l) \in Seq(1..Len(l)) /\ Ascends(l, Shown(l))
<1>1. Len(l) \in Nat
  OBVIOUS
<1>2. CASE Shown(l) = [i \in 1..Len(l) |-> i]
  BY <1>1, <1>2 DEF Ascends
<1>3. ASSUME NEW c \in 1..Len(l), l[c].kind = "compaction", l[c].of \in 1..c - 1,
             Shown(l) = [i \in 1..Len(l) + 1 - l[c].of |->
               IF i = 1 THEN c
               ELSE IF i <= c + 1 - l[c].of THEN l[c].of + i - 2 ELSE l[c].of + i - 1]
      PROVE  Shown(l) \in Seq(1..Len(l)) /\ Ascends(l, Shown(l))
  <2> DEFINE o == l[c].of
             n == Len(l)
             q == Shown(l)
  <2>1. /\ n \in Nat /\ c \in Nat /\ o \in Nat /\ 1 <= o /\ o < c /\ c <= n
        /\ q = [i \in 1..n + 1 - o |->
                  IF i = 1 THEN c ELSE IF i <= c + 1 - o THEN o + i - 2 ELSE o + i - 1]
    BY <1>1, <1>3
  <2>2. l[c].kind = "compaction"
    BY <1>3
  <2> HIDE DEF o, n, q
  <2>3. Len(q) = n + 1 - o /\ \A i \in 1..n + 1 - o :
          q[i] = IF i = 1 THEN c ELSE IF i <= c + 1 - o THEN o + i - 2 ELSE o + i - 1
    BY <2>1
  <2>4. \A i \in 1..n + 1 - o : q[i] \in 1..n
    BY <2>1, <2>3
  <2>5. q \in Seq(1..n)
    <3> DEFINE k == n + 1 - o
    <3>1. q \in [1..k -> 1..n] /\ k \in Nat
      BY <2>1, <2>4
    <3> HIDE DEF k
    <3> QED BY ONLY <3>1, FunctionSeq
  <2>6. Ascends(l, q)
    <3>1. q[1] = c
      BY <2>1, <2>3
    <3>2. \A j \in 2..n + 1 - o : \A i \in 2..j - 1 : q[i] < q[j]
      BY <2>1, <2>3
    <3> QED BY <2>2, <2>3, <3>1, <3>2 DEF Ascends
  <2> QED BY <2>5, <2>6 DEF q, n
<1> QED BY <1>2, <1>3, ShownShape

LEMMA ShownPaired ==
  ASSUME NEW l \in Seq(SessionEntries), Hangs(l),
         \A c \in 1..Len(l) : Reaches(l[c], c - 1) /\ Means(l[c], l, c - 1)
  PROVE  Paired(l, Shown(l))
<1>1. Len(l) \in Nat
  OBVIOUS
<1>2. ASSUME Shown(l) = [i \in 1..Len(l) |-> i] PROVE Paired(l, Shown(l))
  <2>1. \A i \in 1..Len(l) : l[i].kind = "result" => l[i].of \in 1..i
    BY <1>1 DEF Hangs
  <2>2. \A i \in 1..Len(l) : Shown(l)[i] = i
    BY <1>2
  <2>3. Len(Shown(l)) = Len(l)
    BY <1>1, <1>2
  <2>4. \A i \in 1..Len(l) : \A j \in 1..i : j \in 1..Len(l)
    BY <1>1
  <2> QED BY <2>1, <2>2, <2>3, <2>4 DEF Paired
<1>3. ASSUME NEW c \in 1..Len(l), l[c].kind = "compaction", l[c].of \in 1..c - 1,
             Shown(l) = [i \in 1..Len(l) + 1 - l[c].of |->
               IF i = 1 THEN c
               ELSE IF i <= c + 1 - l[c].of THEN l[c].of + i - 2 ELSE l[c].of + i - 1]
      PROVE  Paired(l, Shown(l))
  <2> DEFINE o == l[c].of
             n == Len(l)
             q == Shown(l)
             At(r) == IF r < c THEN r + 2 - o ELSE r + 1 - o
  <2>1. /\ n \in Nat /\ c \in Nat /\ o \in Nat /\ 1 <= o /\ o < c /\ c <= n
        /\ q = [i \in 1..n + 1 - o |->
                  IF i = 1 THEN c ELSE IF i <= c + 1 - o THEN o + i - 2 ELSE o + i - 1]
    BY <1>1, <1>3
  <2>2. l[c].kind = "compaction" /\ l[o].kind # "result"
    BY <1>3 DEF Means
  <2> HIDE DEF o, n, q
  <2>3. Len(q) = n + 1 - o /\ \A i \in 1..n + 1 - o :
          q[i] = IF i = 1 THEN c ELSE IF i <= c + 1 - o THEN o + i - 2 ELSE o + i - 1
    BY <2>1
  <2>4. \A i \in 2..n + 1 - o : q[i] \in o..n /\ q[i] # c /\ At(q[i]) = i
    BY <2>1, <2>3
  <2>5. \A r \in o..n : r # c => At(r) \in 2..n + 1 - o /\ q[At(r)] = r
    BY <2>1, <2>3
  <2>6. \A r, s \in o..n : r < s /\ r # c /\ s # c => At(r) <= At(s)
    BY <2>1
  <2>7. q[1] = c
    BY <2>1, <2>3
  <2> HIDE DEF At
  \* A result and its call lie on the same side of the anchor and of the compaction.
  <2>8. ASSUME NEW r \in 1..n, l[r].kind = "result"
        PROVE  /\ l[r].of \in 1..r - 1 /\ l[l[r].of].kind = "calls"
               /\ r >= o <=> l[r].of >= o
    <3>1. /\ l[r].of \in 1..r - 1 /\ l[l[r].of].kind = "calls"
          /\ \A j \in l[r].of + 1 .. r : l[j].kind = "result"
      BY <2>8 DEF Hangs, n
    <3>2. ~(o \in l[r].of + 1 .. r)
      BY <2>2, <3>1
    <3> DEFINE k == l[r].of
    <3>3. k \in 1..r - 1 /\ ~(o \in k + 1 .. r)
      BY <3>1, <3>2
    <3> HIDE DEF k
    <3>4. r >= o <=> k >= o
      BY <2>1, <3>3
    <3> QED BY <3>1, <3>4 DEF k
  <2>9. ASSUME NEW i \in 1..n + 1 - o, l[q[i]].kind = "result"
        PROVE  \E j \in 1..i : q[j] = l[q[i]].of
    <3>1. i \in 2..n + 1 - o
      BY <2>1, <2>2, <2>7, <2>9
    <3> DEFINE r == q[i]
               k == l[r].of
    <3>2. r \in o..n /\ r # c /\ At(r) = i /\ l[r].kind = "result"
      BY <2>4, <2>9, <3>1
    <3>3. k \in 1..r - 1 /\ l[k].kind = "calls" /\ k >= o
      <4>1. r \in 1..n
        BY <2>1, <3>2
      <4>2. k \in 1..r - 1 /\ l[k].kind = "calls" /\ (r >= o <=> k >= o)
        BY <2>8, <3>2, <4>1
      <4> HIDE DEF r, k
      <4> QED BY <2>1, <3>2, <4>2
    <3> HIDE DEF r, k
    <3>4. k \in o..n /\ k < r /\ k # c
      BY <2>1, <2>2, <3>2, <3>3
    <3>5. At(k) \in 2..n + 1 - o /\ q[At(k)] = k /\ At(k) <= i
      BY <2>5, <2>6, <3>2, <3>4
    <3>6. At(k) \in 1..i
      BY <2>1, <3>5
    <3> QED BY <3>5, <3>6 DEF k, r
  <2>10. ASSUME NEW r \in 1..n, l[r].kind = "result",
                NEW k \in 1..n + 1 - o, q[k] = l[r].of
         PROVE  \E j \in 1..n + 1 - o : q[j] = r
    <3> DEFINE s == l[r].of
    <3>1. s \in 1..r - 1 /\ l[s].kind = "calls" /\ (r >= o <=> s >= o)
      BY <2>8, <2>10
    <3>2. q[k] = s
      BY <2>10
    <3> HIDE DEF s
    <3>3. s >= o
      BY <2>1, <2>4, <2>7, <3>2
    <3>4. r \in o..n /\ r # c
      BY <2>1, <2>2, <2>10, <3>1, <3>3
    <3>5. At(r) \in 2..n + 1 - o /\ q[At(r)] = r
      BY <2>5, <3>4
    <3>6. 2..n + 1 - o \subseteq 1..n + 1 - o
      BY <2>1
    <3> QED BY <3>5, <3>6
  <2>11. Paired(l, q)
    BY <2>3, <2>9, <2>10 DEF Paired, n
  <2> QED BY <2>11 DEF q
<1> QED BY <1>2, <1>3, ShownShape

-----------------------------------------------------------------------------
LEMMA ThroughIs ==
  ASSUME NEW a \in Nat, NEW b \in Nat, a <= b + 1
  PROVE  /\ Through(a, b) \in Seq(Nat) /\ Len(Through(a, b)) = b + 1 - a
         /\ \A i \in 1..b + 1 - a : Through(a, b)[i] = a + i - 1
BY DEF Through

LEMMA ThroughJoins ==
  ASSUME NEW a \in Nat, NEW b \in Nat, NEW d \in Nat, a <= b + 1, b <= d
  PROVE  Through(a, b) \o Through(b + 1, d) = Through(a, d)
<1> DEFINE s == Through(a, b)
           t == Through(b + 1, d)
           u == Through(a, d)
<1>1. s \in Seq(Nat) /\ Len(s) = b + 1 - a /\ \A i \in 1..b + 1 - a : s[i] = a + i - 1
  BY ThroughIs
<1>2. t \in Seq(Nat) /\ Len(t) = d - b /\ \A i \in 1..d - b : t[i] = b + i
  BY DEF Through
<1>3. u \in Seq(Nat) /\ Len(u) = d + 1 - a /\ \A i \in 1..d + 1 - a : u[i] = a + i - 1
  <2>1. a <= d + 1
    OBVIOUS
  <2> QED BY <2>1, ThroughIs
<1> HIDE DEF s, t, u
<1>4. /\ s \o t \in Seq(Nat) /\ Len(s \o t) = Len(s) + Len(t)
      /\ \A i \in 1..Len(s) : (s \o t)[i] = s[i]
      /\ \A i \in 1..Len(t) : (s \o t)[Len(s) + i] = t[i]
  <2>1. s \in Seq(Nat) /\ t \in Seq(Nat)
    BY <1>1, <1>2
  <2> QED BY ONLY <2>1, Joins
<1> DEFINE p == s \o t
<1> HIDE DEF p
<1>5. Len(p) = Len(u)
  BY <1>1, <1>2, <1>3, <1>4 DEF p
<1>6. ASSUME NEW i \in 1..d + 1 - a PROVE p[i] = u[i]
  <2>1. CASE i <= b + 1 - a
    BY <2>1, <1>1, <1>3, <1>4 DEF p
  <2>2. CASE ~(i <= b + 1 - a)
    <3> DEFINE k == i - (b + 1 - a)
    <3>1. k \in 1..d - b /\ (b + 1 - a) + k = i /\ b + k = a + i - 1
      BY <2>2
    <3> HIDE DEF k
    <3>2. p[i] = t[k]
      BY <1>1, <1>2, <1>4, <3>1 DEF p
    <3> QED BY <1>2, <1>3, <3>1, <3>2
  <2> QED BY <2>1, <2>2
<1>7. p = u
  <2>1. p \in Seq(Nat) /\ u \in Seq(Nat) /\ Len(p) = d + 1 - a /\ Len(u) = d + 1 - a
    BY <1>3, <1>4, <1>5 DEF p
  <2> QED BY <1>6, <2>1
<1> QED BY <1>7 DEF p, s, t, u

\* Entries that are no compactions are shown where they were added.
LEMMA ShownGrows ==
  ASSUME NEW l \in Seq(SessionEntries), NEW m \in Seq(SessionEntries), Prolongs(l, m),
         \A c \in 1..Len(l) : Reaches(l[c], c - 1),
         \A i \in Len(l) + 1 .. Len(m) : m[i].kind # "compaction"
  PROVE  Shown(m) = Shown(l) \o Through(Len(l) + 1, Len(m))
<1> DEFINE n == Len(l)
           k == Len(m)
           c == Context!Max(Marks(l))
           o == l[c].of
<1>1. n \in Nat /\ k \in Nat /\ n <= k
  BY DEF Prolongs
<1>2. Marks(m) = Marks(l)
  <2>1. \A i \in 1..k : m[i].kind = "compaction" => i \in 1..n
    BY <1>1
  <2>2. \A i \in 1..n : i \in 1..k /\ m[i] = l[i]
    BY <1>1 DEF Prolongs
  <2> HIDE DEF n, k
  <2>3. \A i : i \in Marks(m) <=> i \in 1..k /\ m[i].kind = "compaction"
    BY DEF Marks, k
  <2>4. \A i : i \in Marks(l) <=> i \in 1..n /\ l[i].kind = "compaction"
    BY DEF Marks, n
  <2> QED BY <2>1, <2>2, <2>3, <2>4
<1>3. ASSUME Marks(l) # {} PROVE c \in 1..n /\ m[c] = l[c] /\ (o # 0 => o \in 1..c - 1)
  <2>1. c \in Marks(l)
    BY <1>1, <1>3, LatestIn DEF Marks
  <2>2. c \in 1..n /\ l[c].kind = "compaction"
    BY <2>1 DEF Marks
  <2>3. Reaches(l[c], c - 1)
    BY <2>2
  <2>4. o \in 0..c - 1
    BY <2>2, <2>3 DEF Reaches
  <2> HIDE DEF c
  <2> QED BY <2>2, <2>4 DEF Prolongs
<1>4. Through(1, n) \o Through(n + 1, k) = Through(1, k)
  <2> HIDE DEF n, k
  <2>1. 1 \in Nat /\ n \in Nat /\ k \in Nat /\ 1 <= n + 1 /\ n <= k
    BY <1>1
  <2> QED BY ONLY <2>1, ThroughJoins
<1>5. CASE Marks(l) = {} \/ o = 0
  <2>1. Shown(l) = Through(1, n)
    BY <1>5 DEF Shown
  <2>2. Shown(m) = Through(1, k)
    BY <1>2, <1>3, <1>5 DEF Shown
  <2> QED BY <1>4, <2>1, <2>2
<1>6. CASE ~(Marks(l) = {} \/ o = 0)
  <2>1. c \in 1..n /\ m[c] = l[c] /\ o \in 1..c - 1
    BY <1>3, <1>6
  <2>2. Shown(l) = <<c>> \o Through(o, c - 1) \o Through(c + 1, n)
    BY <1>6 DEF Shown
  <2>3. Shown(m) = <<c>> \o Through(o, c - 1) \o Through(c + 1, k)
    BY <1>2, <1>6, <2>1 DEF Shown
  <2> HIDE DEF c, o, n, k
  <2>4. Through(c + 1, n) \o Through(n + 1, k) = Through(c + 1, k)
    <3>1. c + 1 \in Nat /\ n \in Nat /\ k \in Nat /\ c + 1 <= n + 1 /\ n <= k
      BY <1>1, <2>1
    <3> QED BY ONLY <3>1, ThroughJoins
  <2> DEFINE a == <<c>> \o Through(o, c - 1)
             b == Through(c + 1, n)
             d == Through(n + 1, k)
  <2>5. a \in Seq(Nat)
    <3>1. Through(o, c - 1) \in Seq(Nat) /\ <<c>> \in Seq(Nat)
      BY <1>1, <2>1 DEF Through
    <3> QED BY <3>1
  <2>6. b \in Seq(Nat) /\ d \in Seq(Nat)
    BY <1>1, <2>1 DEF Through
  <2> HIDE DEF a, b, d
  <2>7. (a \o b) \o d = a \o (b \o d)
    BY <2>5, <2>6
  <2> QED BY <2>2, <2>3, <2>4, <2>7 DEF a, b, d, n, k
<1> QED BY <1>5, <1>6

-----------------------------------------------------------------------------
\* What an answer or a prompt adds: a message, or calls with their results.
Batched(m, n) ==
  \A i \in n + 1 .. Len(m) :
    /\ m[i].kind # "compaction"
    /\ m[i].kind = "result" =>
         /\ i > n + 1 /\ m[i].of = n + 1 /\ m[n + 1].kind = "calls"
         /\ \A j \in n + 2 .. i : m[j].kind = "result"

LEMMA BatchHangs ==
  ASSUME NEW l \in Seq(SessionEntries), NEW m \in Seq(SessionEntries), Prolongs(l, m),
         Batched(m, Len(l)), Hangs(l)
  PROVE  Hangs(m)
<1> DEFINE n == Len(l)
<1>1. n \in Nat /\ Len(m) \in Nat /\ n <= Len(m)
  BY DEF Prolongs
<1> SUFFICES ASSUME NEW i \in 1..Len(m), m[i].kind = "result"
             PROVE  /\ m[i].of \in 1..i - 1 /\ m[m[i].of].kind = "calls"
                    /\ \A j \in m[i].of + 1 .. i : m[j].kind = "result"
  BY DEF Hangs
<1>2. CASE i <= n
  <2>1. /\ l[i].of \in 1..i - 1 /\ l[l[i].of].kind = "calls"
        /\ \A j \in l[i].of + 1 .. i : l[j].kind = "result"
    BY <1>1, <1>2 DEF Hangs, Prolongs
  <2>2. m[i] = l[i] /\ l[i].of \in 1..n /\ \A j \in l[i].of + 1 .. i : j \in 1..n
    BY <1>1, <1>2, <2>1 DEF Prolongs
  <2> QED BY <2>1, <2>2 DEF Prolongs
<1>3. CASE i > n
  <2>1. /\ i > n + 1 /\ m[i].of = n + 1 /\ m[n + 1].kind = "calls"
        /\ \A j \in n + 2 .. i : m[j].kind = "result"
    BY <1>1, <1>3 DEF Batched
  <2> HIDE DEF n
  <2>2. n + 1 + 1 = n + 2 /\ n + 1 \in 1..i - 1
    BY <1>1, <2>1
  <2> QED BY <2>1, <2>2
<1> QED BY <1>1, <1>2, <1>3

LEMMA BatchAdds ==
  ASSUME NEW l \in Seq(SessionEntries), NEW m \in Seq(SessionEntries), Prolongs(l, m),
         Batched(m, Len(l)), Hangs(l), NEW q \in Seq(1..Len(l)), NEW p,
         p = q \o Through(Len(l) + 1, Len(m))
  PROVE  /\ p \in Seq(1..Len(m))
         /\ Paired(l, q) => Paired(m, p)
         /\ Ascends(l, q) => Ascends(m, p)
<1> DEFINE n == Len(l)
           k == Len(m)
           h == Len(q)
<1>1. n \in Nat /\ k \in Nat /\ n <= k /\ h \in Nat
  BY DEF Prolongs
<1>2. /\ p \in Seq(1..k) /\ Len(p) = h + (k - n)
      /\ \A i \in 1..h : p[i] = q[i]
      /\ \A i \in 1..k - n : p[h + i] = n + i
  <2> DEFINE t == Through(n + 1, k)
  <2>1. t \in Seq(1..k) /\ Len(t) = k - n /\ \A i \in 1..k - n : t[i] = n + i
    BY <1>1 DEF Through
  <2>2. q \in Seq(1..k)
    BY <1>1
  <2> HIDE DEF t, n, k, h
  <2>3. /\ q \o t \in Seq(1..k) /\ Len(q \o t) = Len(q) + Len(t)
        /\ \A i \in 1..Len(q) : (q \o t)[i] = q[i]
        /\ \A i \in 1..Len(t) : (q \o t)[Len(q) + i] = t[i]
    <3>1. q \in Seq(1..k) /\ t \in Seq(1..k)
      BY <2>1, <2>2
    <3> QED BY ONLY <3>1, Joins
  <2> QED BY <2>1, <2>3 DEF t, n, k, h
<1>3. \A i \in 1..h : q[i] \in 1..n /\ m[q[i]] = l[q[i]]
  BY DEF Prolongs
<1>4. \A i \in 1..n : m[i] = l[i]
  BY DEF Prolongs
<1>5. Batched(m, n) /\ Len(m) = k /\ Len(l) = n /\ Len(q) = h
  OBVIOUS
<1> HIDE DEF n, k, h
<1>6. ASSUME NEW i \in 1..h + (k - n), i > h
      PROVE  p[i] = n + (i - h) /\ p[i] \in n + 1..k
  <2> DEFINE d == i - h
  <2>1. d \in 1..k - n /\ h + d = i
    BY <1>1, <1>6
  <2> HIDE DEF d
  <2>2. p[i] = n + d
    BY <1>2, <2>1
  <2>3. n + d \in n + 1..k
    BY <1>1, <2>1
  <2> QED BY <2>2, <2>3 DEF d
<1>7. ASSUME Ascends(l, q) PROVE Ascends(m, p)
  <2> SUFFICES ASSUME NEW j \in 2..h + (k - n)
               PROVE  /\ \A i \in 2..j - 1 : p[i] < p[j]
                      /\ m[p[1]].kind = "compaction" \/ p[1] < p[j]
    BY <1>2 DEF Ascends
  <2>0. j \in Nat /\ j >= 2
    OBVIOUS
  <2>1. CASE j <= h
    <3>1. /\ \A i \in 2..j - 1 : q[i] < q[j]
          /\ l[q[1]].kind = "compaction" \/ q[1] < q[j]
      <4>1. j \in 2..h
        BY <1>1, <2>0, <2>1
      <4> QED BY <1>5, <1>7, <4>1 DEF Ascends
    <3>2. 1 \in 1..h /\ j \in 1..h /\ \A i \in 2..j - 1 : i \in 1..h
      BY <1>1, <2>0, <2>1
    <3> QED BY <1>2, <1>3, <3>1, <3>2
  <2>2. CASE j > h
    <3>0. j \in 1..h + (k - n)
      BY <1>1
    <3>1. p[j] = n + (j - h) /\ p[j] \in n + 1..k
      BY <1>6, <2>2, <3>0
    <3>2. \A i \in 1..j - 1 : p[i] < p[j]
      <4> TAKE i \in 1..j - 1
      <4>0. i \in Nat /\ i < j /\ 1 <= i
        BY <2>0
      <4>1. CASE i <= h
        <5>1. i \in 1..h
          BY <1>1, <4>0, <4>1
        <5>2. p[i] = q[i] /\ q[i] \in 1..n
          BY <1>2, <1>3, <5>1
        <5> QED BY ONLY <1>1, <3>1, <5>2
      <4>2. CASE i > h
        <5>1. i \in 1..h + (k - n)
          BY <1>1, <3>0, <4>0
        <5>2. p[i] = n + (i - h)
          BY <1>6, <4>2, <5>1
        <5> QED BY ONLY <1>1, <2>0, <3>1, <4>0, <5>2
      <4>3. i <= h \/ i > h
        BY ONLY <1>1, <4>0
      <4> QED BY ONLY <4>1, <4>2, <4>3
    <3>3. 1 \in 1..j - 1 /\ \A i \in 2..j - 1 : i \in 1..j - 1
      BY <2>0
    <3> QED BY <3>2, <3>3
  <2>3. j <= h \/ j > h
    BY ONLY <1>1, <2>0
  <2> QED BY ONLY <2>1, <2>2, <2>3
<1>8. ASSUME Paired(l, q) PROVE Paired(m, p)
  <2>1. ASSUME NEW i \in 1..h + (k - n), m[p[i]].kind = "result"
        PROVE  \E j \in 1..i : p[j] = m[p[i]].of
    <3>0. i \in Nat /\ 1 <= i
      OBVIOUS
    <3>1. CASE i <= h
      <4>0. i \in 1..h
        BY ONLY <1>1, <3>0, <3>1
      <4>1. i \in 1..h /\ p[i] = q[i] /\ m[q[i]] = l[q[i]]
        BY ONLY <1>2, <1>3, <4>0
      <4>2. PICK j \in 1..i : q[j] = l[q[i]].of
        BY <1>5, <1>8, <2>1, <4>1 DEF Paired
      <4>3. j \in 1..h
        BY <1>1, <4>1
      <4>4. p[j] = q[j]
        BY <1>2, <4>3
      <4> QED BY <4>1, <4>2, <4>4
    <3>2. CASE i > h
      <4>1. p[i] = n + (i - h) /\ p[i] \in n + 1..k
        BY <1>6, <3>2
      <4>2. p[i] > n + 1 /\ m[p[i]].of = n + 1
        BY <1>5, <2>1, <4>1 DEF Batched
      <4>a. i <= h + (k - n)
        OBVIOUS
      <4>3. h + 1 \in 1..i /\ 1 \in 1..k - n
        BY ONLY <1>1, <3>0, <3>2, <4>a
      <4>4. p[h + 1] = n + 1
        BY <1>2, <4>3
      <4> QED BY <4>2, <4>3, <4>4
    <3>3. i <= h \/ i > h
      BY ONLY <1>1, <3>0
    <3> QED BY ONLY <3>1, <3>2, <3>3
  <2>2. ASSUME NEW r \in 1..k, m[r].kind = "result",
               NEW i \in 1..h + (k - n), p[i] = m[r].of
        PROVE  \E j \in 1..h + (k - n) : p[j] = r
    <3>0. r \in Nat /\ 1 <= r /\ r <= k /\ i \in Nat /\ 1 <= i
      BY <1>1
    <3>1. CASE r <= n
      <4>0. r \in 1..n
        BY <1>1, <3>0, <3>1
      <4>1. m[r] = l[r] /\ l[r].of \in 1..r - 1
        BY <1>4, <1>5, <2>2, <4>0 DEF Hangs
      <4> DEFINE s == l[r].of
      <4>2. s \in 1..r - 1 /\ p[i] = s
        BY <2>2, <4>1
      <4> HIDE DEF s
      <4>3. i <= h
        <5> SUFFICES ASSUME i > h PROVE FALSE
          BY <1>1, <3>0
        <5>1. p[i] \in n + 1..k
          BY <1>6
        <5> QED BY ONLY <1>1, <3>0, <3>1, <4>2, <5>1
      <4>4. i \in 1..h
        BY <1>1, <3>0, <4>3
      <4>5. q[i] = l[r].of
        BY <1>2, <4>2, <4>4 DEF s
      <4>6. PICK j \in 1..h : q[j] = r
        BY <1>5, <1>8, <2>2, <4>0, <4>1, <4>4, <4>5 DEF Paired
      <4>7. j \in 1..h + (k - n) /\ p[j] = q[j]
        BY <1>1, <1>2
      <4> QED BY <4>6, <4>7
    <3>2. CASE r > n
      <4> DEFINE d == r - n
      <4>1. d \in 1..k - n /\ n + d = r
        BY <1>1, <3>0, <3>2
      <4> HIDE DEF d
      <4>2. p[h + d] = r
        BY <1>2, <4>1
      <4>3. h + d \in 1..h + (k - n)
        BY <1>1, <4>1
      <4> QED BY <4>2, <4>3
    <3>3. r <= n \/ r > n
      BY ONLY <1>1, <3>0
    <3> QED BY ONLY <3>1, <3>2, <3>3
  <2> QED BY <1>2, <1>5, <2>1, <2>2 DEF Paired
<1> QED BY <1>2, <1>5, <1>7, <1>8

-----------------------------------------------------------------------------
\* Some numbers, counted from the least.
Rank(S, i) == Cardinality({k \in S : k <= i})

LEMMA Ranks ==
  ASSUME NEW n \in Nat, NEW S \in SUBSET (1..n)
  PROVE  /\ Cardinality(S) \in Nat
         /\ \A i \in S : Rank(S, i) \in 1..Cardinality(S)
         /\ \A i, j \in S : i < j => Rank(S, i) < Rank(S, j)
         /\ \A r \in 1..Cardinality(S) : \E i \in S : Rank(S, i) = r
<1> DEFINE UpTo(i) == {k \in S : k <= i}
<1>1. IsFiniteSet(S) /\ Cardinality(S) \in Nat
  <2>1. IsFiniteSet(1..n)
    BY FS_Interval
  <2>2. IsFiniteSet(S)
    BY <2>1, FS_Subset
  <2> QED BY <2>2, FS_CardinalityType
<1>2. \A i : /\ UpTo(i) \subseteq S /\ IsFiniteSet(UpTo(i)) /\ Cardinality(UpTo(i)) \in Nat
             /\ Cardinality(UpTo(i)) <= Cardinality(S)
  <2> TAKE i
  <2>1. UpTo(i) \in SUBSET S
    OBVIOUS
  <2> HIDE DEF UpTo
  <2>2. IsFiniteSet(UpTo(i)) /\ Cardinality(UpTo(i)) <= Cardinality(S)
    BY <1>1, <2>1, FS_Subset
  <2> QED BY <2>1, <2>2, FS_CardinalityType
<1>3. ASSUME NEW i \in S, NEW j \in S, i < j
      PROVE  Cardinality(UpTo(i)) < Cardinality(UpTo(j))
  <2>0. i \in Nat /\ j \in Nat /\ \A k \in S : k \in Nat
    OBVIOUS
  <2>1. UpTo(i) \in SUBSET UpTo(j) /\ j \in UpTo(j) /\ j \notin UpTo(i)
    <3>1. \A k \in S : k <= i => k <= j
      BY ONLY <2>0, <1>3
    <3>2. j <= j /\ ~(j <= i)
      BY ONLY <2>0, <1>3
    <3> QED BY <3>1, <3>2
  <2> HIDE DEF UpTo
  <2>2. /\ Cardinality(UpTo(i)) <= Cardinality(UpTo(j))
        /\ Cardinality(UpTo(i)) # Cardinality(UpTo(j))
    BY <1>2, <2>1, FS_Subset
  <2> QED BY <1>2, <2>2
<1>4. \A i \in S : Cardinality(UpTo(i)) \in 1..Cardinality(S)
  <2> TAKE i \in S
  <2>1. i \in UpTo(i)
    OBVIOUS
  <2> HIDE DEF UpTo
  <2>2. Cardinality(UpTo(i)) # 0
    BY <1>2, <2>1, FS_EmptySet
  <2> QED BY <1>1, <1>2, <2>2
<1> DEFINE c == Cardinality(S)
           f == [i \in S |-> Cardinality(UpTo(i))]
<1>5. f \in Surjection(S, 1..c)
  <2>1. f \in Injection(S, 1..c)
    <3>1. f \in [S -> 1..c]
      BY <1>4
    <3>2. \A i, j \in S : f[i] = f[j] => i = j
      <4> TAKE i, j \in S
      <4>1. i < j \/ i = j \/ j < i
        OBVIOUS
      <4>2. f[i] = Cardinality(UpTo(i)) /\ f[j] = Cardinality(UpTo(j))
        OBVIOUS
      <4> HIDE DEF UpTo, f
      <4>3. Cardinality(UpTo(i)) \in Nat /\ Cardinality(UpTo(j)) \in Nat
        BY <1>2
      <4>4. /\ i < j => Cardinality(UpTo(i)) < Cardinality(UpTo(j))
            /\ j < i => Cardinality(UpTo(j)) < Cardinality(UpTo(i))
        BY <1>3
      <4> QED BY ONLY <4>1, <4>2, <4>3, <4>4
    <3> HIDE DEF f
    <3> QED BY <3>1, <3>2 DEF Injection, IsInjective
  <2>2. IsFiniteSet(1..c) /\ Cardinality(1..c) = c
    <3>1. 1 \in Int /\ c \in Int /\ c \in Nat
      BY <1>1
    <3> HIDE DEF c
    <3>2. IsFiniteSet(1..c) /\ Cardinality(1..c) = IF 1 > c THEN 0 ELSE c - 1 + 1
      BY ONLY <3>1, FS_Interval
    <3> QED BY ONLY <3>1, <3>2
  <2> HIDE DEF f
  <2> QED BY <2>1, <2>2, FS_Injection
<1>6. \A r \in 1..c : \E i \in S : f[i] = r
  <2> HIDE DEF f
  <2> QED BY <1>5 DEF Surjection
<1> QED BY <1>1, <1>3, <1>4, <1>6 DEF Rank

-----------------------------------------------------------------------------
\* Calls and their results form the groups that are kept or dropped as a whole.
LEMMA KeptClosed ==
  ASSUME log \in Seq(SessionEntries), history \in Seq(1..Len(log)),
         NEW choice, choice \subseteq 1..Context!KeepStart, choice # {},
         Context!KeepStart \in 0..Len(history)
  PROVE  LET kept == Context!KeptOf(choice) IN
         /\ kept \subseteq 1..Len(history) /\ kept # {}
         /\ \A i \in 1..Len(history), k \in kept : Context!SameGroup(i, k) => i \in kept
<1> DEFINE base == choice \cup Context!KeepStart + 1 .. Len(history)
           kept == Context!KeptOf(choice)
<1>1. base \subseteq 1..Len(history) /\ choice \subseteq base
  <2> DEFINE n == Len(history)
             k == Context!KeepStart
  <2>1. n \in Nat /\ k \in 0..n /\ choice \subseteq 1..k
    OBVIOUS
  <2> HIDE DEF n, k
  <2>2. 1..k \subseteq 1..n /\ k + 1 .. n \subseteq 1..n
    BY ONLY <2>1
  <2> QED BY <2>1, <2>2 DEF n, k
<1>2. kept = base \cup {i \in 1..Len(history) : \E k \in base : Context!SameGroup(i, k)}
  BY DEF Context!KeptOf, Context!Closed
<1>3. \A i, j, k : Context!SameGroup(i, j) /\ Context!SameGroup(j, k) => Context!SameGroup(i, k)
  BY DEF Context!SameGroup
<1> HIDE DEF base, kept
<1> QED BY <1>1, <1>2, <1>3 DEF kept

LEMMA GroupsIs ==
  ASSUME log \in Seq(SessionEntries), history \in Seq(1..Len(log)), Hangs(log),
         NEW i \in 1..Len(history), NEW j \in 1..Len(history),
         log[history[i]].kind = "result", history[j] = log[history[i]].of
  PROVE  Context!SameGroup(i, j) /\ Context!SameGroup(j, i)
<1>1. history[i] \in 1..Len(log)
  OBVIOUS
<1>2. log[history[j]].kind = "calls"
  BY <1>1 DEF Hangs
<1> QED BY <1>2 DEF Context!SameGroup, Context!Group

\* The anchor is no result, and nothing that is kept lies before it.
LEMMA AnchorSound ==
  ASSUME log \in Seq(SessionEntries), history \in Seq(1..Len(log)), Hangs(log),
         NEW kept, kept \subseteq 1..Len(history), kept # {}
  PROVE  LET a == Context!Anchor(kept) IN
         /\ a \in 1..Len(history) /\ \A k \in kept : a <= k
         /\ Paired(log, history) => log[history[a]].kind # "result"
<1> DEFINE least == Context!Min(kept)
           free == {a \in 1..least :
             ~ \E i \in 1..a - 1, j \in a..Len(history) : Context!SameGroup(i, j)}
           a == Context!Anchor(kept)
           n == Len(history)
<1>1. n \in Nat
  OBVIOUS
<1>2. least \in kept /\ \A k \in kept : least <= k
  <2>1. kept \subseteq Nat
    OBVIOUS
  <2>2. \E x \in kept : \A y \in kept : x <= y
    BY <2>1, LeastRun
  <2> QED BY <2>2 DEF Context!Min
<1>3. least \in 1..n /\ least \in Nat
  <2>1. kept \subseteq 1..n
    OBVIOUS
  <2> HIDE DEF least, n
  <2>2. least \in 1..n
    BY <1>2, <2>1
  <2> QED BY ONLY <1>1, <2>2
<1>4. 1 \in free
  BY <1>3
<1>5. a = Context!Max(free)
  BY DEF Context!Anchor
<1>6. a \in free
  <2>1. free \subseteq 1..least /\ free # {}
    BY <1>4
  <2> HIDE DEF free, least, a
  <2> QED BY <1>3, <1>5, <2>1, LatestIn
<1>7. a \in 1..least /\ ~ \E i \in 1..a - 1, j \in a..n : Context!SameGroup(i, j)
  BY <1>6
<1> HIDE DEF least, free, a, n
<1>8. a \in 1..n /\ a \in Nat
  BY <1>1, <1>3, <1>7
<1>9. \A k \in kept : a <= k
  <2> TAKE k \in kept
  <2>1. k \in Nat /\ least <= k
    BY <1>2
  <2> QED BY <1>3, <1>7, <1>8, <2>1
<1>10. Paired(log, history) => log[history[a]].kind # "result"
  <2> SUFFICES ASSUME Paired(log, history), log[history[a]].kind = "result" PROVE FALSE
    OBVIOUS
  <2>1. PICK j \in 1..a : history[j] = log[history[a]].of
    BY <1>8 DEF Paired, n
  <2>2. j # a
    <3>1. history[a] \in 1..Len(log)
      BY <1>8 DEF n
    <3>2. log[history[a]].of < history[a]
      BY <3>1 DEF Hangs
    <3> QED BY <2>1, <3>1, <3>2
  <2>3. j \in 1..a - 1 /\ a \in a..n /\ j \in 1..n
    BY <1>1, <1>8, <2>2
  <2>4. Context!SameGroup(j, a)
    BY <1>8, <2>1, <2>3, GroupsIs DEF n
  <2> QED BY <1>7, <2>3, <2>4
<1> QED BY <1>8, <1>9, <1>10 DEF a, n

\* What is sent after a compaction keeps the groups together.
LEMMA KeepingPaired ==
  ASSUME log \in Seq(SessionEntries), history \in Seq(1..Len(log)), Hangs(log),
         NEW kept, kept \subseteq 1..Len(history),
         \A i \in 1..Len(history), k \in kept : Context!SameGroup(i, k) => i \in kept
  PROVE  /\ Context!Keeping(kept) \in Seq(1..Len(log))
         /\ Paired(log, history) => Paired(log, Context!Keeping(kept))
<1> DEFINE n == Len(history)
           c == Cardinality(kept)
           q == Context!Keeping(kept)
<1>1. n \in Nat /\ kept \in SUBSET (1..n)
  OBVIOUS
<1>2. /\ c \in Nat
      /\ \A i \in kept : Rank(kept, i) \in 1..c
      /\ \A i, j \in kept : i < j => Rank(kept, i) < Rank(kept, j)
      /\ \A r \in 1..c : \E i \in kept : Rank(kept, i) = r
  BY <1>1, Ranks
<1>3. q = [r \in 1..c |-> history[CHOOSE i \in kept : Rank(kept, i) = r]]
  BY DEF Context!Keeping, Rank, Cardinality, Context!Cardinality
<1> HIDE DEF q, c
<1>4. \A i, j \in kept : Rank(kept, i) = Rank(kept, j) => i = j
  <2> TAKE i, j \in kept
  <2>1. i \in Nat /\ j \in Nat
    OBVIOUS
  <2>2. Rank(kept, i) \in Nat /\ Rank(kept, j) \in Nat
    <3>1. Rank(kept, i) \in 1..c /\ Rank(kept, j) \in 1..c
      BY <1>2
    <3> QED BY ONLY <1>2, <3>1
  <2>3. i < j \/ i = j \/ j < i
    BY <2>1
  <2> QED BY <1>2, <2>2, <2>3
<1>5. \A i \in kept : q[Rank(kept, i)] = history[i]
  <2> TAKE i \in kept
  <2>1. (CHOOSE k \in kept : Rank(kept, k) = Rank(kept, i)) = i
    BY <1>4
  <2> QED BY <1>2, <1>3, <2>1
<1>6. \A r \in 1..c : \E i \in kept : Rank(kept, i) = r /\ q[r] = history[i]
  BY <1>2, <1>5
<1>7. q \in Seq(1..Len(log)) /\ Len(q) = c
  <2>1. \A i \in kept : history[i] \in 1..Len(log)
    OBVIOUS
  <2>2. q \in [1..c -> 1..Len(log)]
    BY <1>3, <1>6, <2>1
  <2>3. q \in Seq(1..Len(log))
    BY ONLY <1>2, <2>2, FunctionSeq
  <2> QED BY <1>2, <2>2, <2>3
<1>8. ASSUME Paired(log, history) PROVE Paired(log, q)
  <2>1. ASSUME NEW r \in 1..c, log[q[r]].kind = "result"
        PROVE  \E s \in 1..r : q[s] = log[q[r]].of
    <3>1. PICK i \in kept : Rank(kept, i) = r /\ q[r] = history[i]
      BY <1>6
    <3>2. i \in 1..n
      BY <1>1
    <3>3. PICK j \in 1..i : history[j] = log[history[i]].of
      BY <1>8, <2>1, <3>1, <3>2 DEF Paired
    <3>4. j \in 1..n /\ i \in Nat /\ j \in Nat /\ j <= i
      BY <1>1, <3>2
    <3>5. j \in kept
      BY <2>1, <3>1, <3>2, <3>3, <3>4, GroupsIs
    <3>6. Rank(kept, j) \in 1..r
      <4>1. j < i \/ j = i
        BY <3>4
      <4>2. Rank(kept, j) \in 1..c /\ (j < i => Rank(kept, j) < r)
        BY <1>2, <3>1, <3>5
      <4>3. j = i => Rank(kept, j) = r
        BY <3>1
      <4>4. r \in 1..c
        OBVIOUS
      <4> QED BY ONLY <1>2, <4>1, <4>2, <4>3, <4>4
    <3> QED BY <1>5, <3>1, <3>3, <3>5, <3>6
  <2>2. ASSUME NEW r \in 1..Len(log), log[r].kind = "result",
               NEW s \in 1..c, q[s] = log[r].of
        PROVE  \E t \in 1..c : q[t] = r
    <3>1. PICK i \in kept : q[s] = history[i]
      BY <1>6
    <3>2. i \in 1..n
      BY <1>1
    <3>3. PICK j \in 1..n : history[j] = r
      BY <1>8, <2>2, <3>1, <3>2 DEF Paired
    <3>4. Context!SameGroup(j, i)
      BY <2>2, <3>1, <3>2, <3>3, GroupsIs
    <3>5. j \in kept
      BY <3>4
    <3> QED BY <1>2, <1>5, <3>3, <3>5
  <2> QED BY <1>7, <2>1, <2>2 DEF Paired
<1> QED BY <1>7, <1>8 DEF q

-----------------------------------------------------------------------------
(* The invariant.                                                          *)

ContextTypes ==
  /\ log \in Seq(SessionEntries) /\ planned \in Seq(SessionEntries)
  /\ history \in Seq(1..Len(log)) /\ ids \in Seq(1..Len(log)) /\ request \in Seq(1..Len(log))
  /\ refreshes \in BOOLEAN /\ requested \in BOOLEAN

\* Results follow their calls, and anchors and what was kept lie before their compaction.
Recorded ==
  /\ Hangs(log)
  /\ \A c \in 1..Len(log) : Reaches(log[c], c - 1)
  /\ \A p \in 1..Len(planned) :
       planned[p].kind = "compaction" /\ Reaches(planned[p], Len(log))

\* What a turn knows of the session it holds, unless it was compacted on request.
Informed ==
  /\ phase = "idle" => ~requested
  /\ ~refreshes => ids = <<>>
  /\ phase # "answer" => request = <<>>
  /\ phase \in {"refresh", "prepare", "answer"} /\ refreshes /\ ~requested =>
       history = Shown(log)
  /\ phase = "prepare" /\ refreshes /\ ~requested => ids = history

\* Until an anchor strays, groups are whole and anchors mean what they were chosen for.
Sound ==
  Strays(log) \/
    /\ Paired(log, history) /\ Ascends(log, history) /\ Paired(log, request)
    /\ \A c \in 1..Len(log) : Means(log[c], log, c - 1)
    /\ \A p \in 1..Len(planned) : planned[p].astray \/ Means(planned[p], log, Len(log))

ContextInv == ContextTypes /\ Recorded /\ Informed /\ Sound

LEMMA NothingPaired == ASSUME NEW l, Len(l) \in Nat PROVE Paired(l, <<>>) /\ Ascends(l, <<>>)
BY DEF Paired, Ascends

LEMMA ContextInit == Context!Init => ContextInv
<1> SUFFICES ASSUME Context!Init PROVE ContextInv
  OBVIOUS
<1>1. /\ log = <<>> /\ history = <<>> /\ phase = "idle" /\ refreshes = FALSE /\ ids = <<>>
      /\ planned = <<>> /\ request = <<>> /\ requested = FALSE
  BY DEF Context!Init
<1>2. ContextTypes
  <2>1. \A S : <<>> \in Seq(S)
    OBVIOUS
  <2> QED BY <1>1, <2>1 DEF ContextTypes
<1>3. Recorded
  BY <1>1 DEF Recorded, Hangs
<1>4. Informed
  BY <1>1 DEF Informed
<1>5. Sound
  <2>1. Len(log) = 0 /\ Len(planned) = 0
    BY <1>1
  <2>2. Paired(log, <<>>) /\ Ascends(log, <<>>)
    BY <2>1, NothingPaired
  <2> QED BY <1>1, <2>1, <2>2 DEF Sound
<1> QED BY <1>2, <1>3, <1>4, <1>5 DEF ContextInv

-----------------------------------------------------------------------------
\* What a load shows may become the history.
LEMMA ShownSound ==
  ASSUME ContextInv
  PROVE  /\ Shown(log) \in Seq(1..Len(log))
         /\ Strays(log) \/ (Paired(log, Shown(log)) /\ Ascends(log, Shown(log)))
<1>1. /\ log \in Seq(SessionEntries) /\ Hangs(log)
      /\ \A c \in 1..Len(log) : Reaches(log[c], c - 1)
      /\ Strays(log) \/ \A c \in 1..Len(log) : Means(log[c], log, c - 1)
  BY DEF ContextInv, ContextTypes, Recorded, Sound
<1>2. Shown(log) \in Seq(1..Len(log)) /\ Ascends(log, Shown(log))
  BY <1>1, ShownOrder
<1>3. Strays(log) \/ Paired(log, Shown(log))
  BY <1>1, ShownPaired
<1> QED BY <1>2, <1>3

\* The session, the plan and the ids stay; a history or a request may be dropped or reloaded.
LEMMA StillSound ==
  ASSUME ContextInv, log' = log, planned' = planned,
         history' \in {history, Shown(log)}, request' \in {request, <<>>}
  PROVE  /\ Recorded' /\ Sound' /\ log' \in Seq(SessionEntries) /\ planned' \in Seq(SessionEntries)
         /\ history' \in Seq(1..Len(log')) /\ request' \in Seq(1..Len(log'))
<1>1. ContextTypes /\ Recorded /\ Sound
  BY DEF ContextInv
<1>2. history' \in Seq(1..Len(log)) /\ request' \in Seq(1..Len(log))
  <2>1. Shown(log) \in Seq(1..Len(log)) /\ <<>> \in Seq(1..Len(log))
    BY ShownSound
  <2> QED BY <1>1, <2>1 DEF ContextTypes
<1>3. Recorded'
  BY <1>1 DEF Recorded
<1>4. Strays(log) \/ (Paired(log, history') /\ Ascends(log, history') /\ Paired(log, request'))
  <2>1. Len(log) \in Nat
    BY <1>1 DEF ContextTypes
  <2>2. Paired(log, <<>>)
    BY <2>1, NothingPaired
  <2> QED BY <1>1, <2>2, ShownSound DEF Sound
<1>5. Sound'
  BY <1>1, <1>4 DEF Sound
<1> QED BY <1>1, <1>2, <1>3, <1>5 DEF ContextTypes

\* A message, or calls with their results, go to the session and to the history.
LEMMA AddKeeps ==
  ASSUME ContextInv, NEW es \in Seq(SessionEntries), log' = log \o es, planned' = planned,
         Batched(log \o es, Len(log)),
         NEW q, q \in {history, Shown(log)},
         history' = q \o Through(Len(log) + 1, Len(log) + Len(es)),
         request' = <<>>
  PROVE  /\ Recorded' /\ Sound' /\ log' \in Seq(SessionEntries) /\ planned' \in Seq(SessionEntries)
         /\ history' \in Seq(1..Len(log'))
         /\ q = Shown(log) => history' = Shown(log')
<1> DEFINE m == log \o es
<1>1. ContextTypes /\ Recorded /\ Sound
  BY DEF ContextInv
<1>2. /\ log \in Seq(SessionEntries) /\ m \in Seq(SessionEntries) /\ Prolongs(log, m)
      /\ Len(m) = Len(log) + Len(es)
      /\ \A i \in 1..Len(es) : m[Len(log) + i] = es[i]
      /\ Len(log) \in Nat /\ Len(es) \in Nat
  BY <1>1 DEF ContextTypes, Prolongs
<1>3. /\ q \in Seq(1..Len(log))
      /\ Strays(log) \/ (Paired(log, q) /\ Ascends(log, q))
  BY <1>1, ShownSound DEF ContextTypes, Sound
<1>4. Hangs(log) /\ Batched(m, Len(log)) /\ \A c \in 1..Len(log) : Reaches(log[c], c - 1)
  BY <1>1 DEF Recorded
<1>5. history' = q \o Through(Len(log) + 1, Len(m)) /\ log' = m
  BY <1>2
<1> HIDE DEF m
<1>6. /\ history' \in Seq(1..Len(m))
      /\ Paired(log, q) => Paired(m, history')
      /\ Ascends(log, q) => Ascends(m, history')
  BY <1>2, <1>3, <1>4, <1>5, BatchAdds
<1>7. Hangs(m)
  BY <1>2, <1>4, BatchHangs
<1>8. \A i \in Len(log) + 1 .. Len(m) : m[i].kind # "compaction"
  BY <1>4 DEF Batched
<1>9. ASSUME NEW c \in 1..Len(m)
      PROVE  /\ Reaches(m[c], c - 1)
             /\ Strays(log) \/ Means(m[c], m, c - 1)
  <2>0. c \in Nat /\ Len(m) \in Nat
    BY <1>2
  <2>1. CASE c <= Len(log)
    <3>1. c \in 1..Len(log) /\ m[c] = log[c] /\ c - 1 \in 0..Len(log) /\ c - 1 \in Nat
      BY <1>2, <2>0, <2>1 DEF Prolongs
    <3>2. Reaches(log[c], c - 1) /\ log[c] \in SessionEntries
      BY <1>2, <1>4, <3>1
    <3>3. Strays(log) \/ Means(log[c], log, c - 1)
      BY <1>1, <3>1 DEF Sound
    <3> DEFINE d == c - 1
    <3>4. d \in 0..Len(log) /\ d \in Nat /\ d <= d /\ Reaches(log[c], d)
      BY <3>1, <3>2
    <3> HIDE DEF d
    <3>5. Means(log[c], log, d) => Means(log[c], m, d)
      BY ONLY <1>2, <3>2, <3>4, ProlongedMeans
    <3> QED BY <3>1, <3>2, <3>3, <3>5 DEF d
  <2>2. CASE c > Len(log)
    <3>1. m[c].kind # "compaction"
      BY <1>2, <1>8, <2>0, <2>2
    <3> QED BY <3>1 DEF Reaches, Means
  <2> QED BY <1>2, <2>0, <2>1, <2>2
<1>10. ASSUME NEW p \in 1..Len(planned)
       PROVE  /\ planned[p].kind = "compaction" /\ Reaches(planned[p], Len(m))
              /\ Strays(log) \/ planned[p].astray \/ Means(planned[p], m, Len(m))
  <2>1. /\ planned[p].kind = "compaction" /\ Reaches(planned[p], Len(log))
        /\ planned[p] \in SessionEntries
    BY <1>1 DEF Recorded, ContextTypes
  <2>2. Strays(log) \/ planned[p].astray \/ Means(planned[p], log, Len(log))
    BY <1>1 DEF Sound
  <2>3. Len(log) \in 0..Len(log) /\ Len(m) \in Nat /\ Len(log) <= Len(m)
    BY <1>2
  <2> QED BY <1>2, <2>1, <2>2, <2>3, ProlongedMeans
<1>11. Strays(log) => Strays(m)
  BY <1>2, ProlongedStrays
<1>12. Recorded'
  BY <1>5, <1>7, <1>9, <1>10 DEF Recorded
<1>13. Paired(m, request')
  BY <1>2, NothingPaired
<1>14. Sound'
  BY <1>3, <1>5, <1>6, <1>9, <1>10, <1>11, <1>13 DEF Sound
<1>15. ASSUME q = Shown(log) PROVE history' = Shown(m)
  BY <1>2, <1>4, <1>5, <1>8, <1>15, ShownGrows
<1> QED BY <1>1, <1>2, <1>5, <1>6, <1>12, <1>14, <1>15 DEF ContextTypes

\* Compactions go to the session: those of a turn, or one that was asked for.
LEMMA CompactedKeeps ==
  ASSUME ContextInv, NEW es \in Seq(SessionEntries), log' = log \o es,
         planned' \in {planned, <<>>}, history' = history,
         request' \in Seq(1..Len(log)), Strays(log) \/ Paired(log, request'),
         \A i \in 1..Len(es) :
           /\ es[i].kind = "compaction" /\ Reaches(es[i], Len(log))
           /\ Strays(log) \/ es[i].astray \/ Means(es[i], log, Len(log))
  PROVE  /\ Recorded' /\ Sound' /\ log' \in Seq(SessionEntries) /\ planned' \in Seq(SessionEntries)
         /\ history' \in Seq(1..Len(log')) /\ request' \in Seq(1..Len(log'))
         /\ ids \in Seq(1..Len(log'))
<1> DEFINE m == log \o es
<1>1. ContextTypes /\ Recorded /\ Sound
  BY DEF ContextInv
<1>2. /\ log \in Seq(SessionEntries) /\ m \in Seq(SessionEntries) /\ Prolongs(log, m)
      /\ Len(m) = Len(log) + Len(es)
      /\ \A i \in 1..Len(es) : m[Len(log) + i] = es[i]
      /\ Len(log) \in Nat /\ Len(es) \in Nat
  BY <1>1 DEF ContextTypes, Prolongs
<1>3. Hangs(log) /\ \A c \in 1..Len(log) : Reaches(log[c], c - 1)
  BY <1>1 DEF Recorded
<1>4. log' = m
  OBVIOUS
<1> HIDE DEF m
<1>5. ASSUME NEW c \in Len(log) + 1 .. Len(m)
      PROVE  c - Len(log) \in 1..Len(es) /\ m[c] = es[c - Len(log)]
  <2> DEFINE n == Len(log)
             k == Len(es)
             d == c - n
  <2>1. n \in Nat /\ k \in Nat /\ c \in n + 1 .. n + k /\ \A i \in 1..k : m[n + i] = es[i]
    BY <1>2
  <2> HIDE DEF n, k
  <2>2. d \in 1..k /\ n + d = c
    BY ONLY <2>1
  <2> QED BY ONLY <2>1, <2>2 DEF n, k
<1>6. \A i \in Len(log) + 1 .. Len(m) : m[i].kind # "result"
  BY <1>5
<1>7. Hangs(m)
  BY <1>2, <1>3, <1>6, ProlongedHangs
<1>8. Strays(log) => Strays(m)
  BY <1>2, ProlongedStrays
<1>9. ASSUME NEW c \in 1..Len(m)
      PROVE  /\ Reaches(m[c], c - 1)
             /\ Strays(m) \/ Means(m[c], m, c - 1)
  <2> DEFINE d == c - 1
             n == Len(log)
  <2>0. c \in Nat /\ d \in Nat /\ n \in Nat /\ Len(m) \in Nat
    BY <1>2
  <2>1. CASE c <= n
    <3>1. c \in 1..n /\ m[c] = log[c] /\ d \in 0..n
      BY <1>2, <2>0, <2>1 DEF Prolongs
    <3>2. Reaches(log[c], d) /\ log[c] \in SessionEntries
      BY <1>2, <1>3, <3>1
    <3>3. Strays(log) \/ Means(log[c], log, d)
      BY <1>1, <3>1 DEF Sound
    <3> HIDE DEF d, n
    <3>4. d <= d
      BY <2>0
    <3>5. Means(log[c], log, d) => Means(log[c], m, d)
      BY ONLY <1>2, <2>0, <3>1, <3>2, <3>4, ProlongedMeans DEF n
    <3> QED BY <1>8, <3>1, <3>2, <3>3, <3>5 DEF d
  <2>2. CASE c > n
    <3>1. c \in n + 1 .. Len(m) /\ n \in 0..n /\ n <= d
      BY <2>0, <2>2
    <3>2. c - n \in 1..Len(es) /\ m[c] = es[c - n]
      BY <1>5, <3>1
    <3> DEFINE e == m[c]
    <3>3. /\ e \in SessionEntries /\ e.kind = "compaction" /\ Reaches(e, n)
          /\ Strays(log) \/ e.astray \/ Means(e, log, n)
      BY <3>2
    <3>4. e.astray => Strays(m)
      BY DEF Strays
    <3> HIDE DEF d, n, e
    <3>5. Reaches(e, d) /\ (Means(e, log, n) => Means(e, m, d))
      BY ONLY <1>2, <2>0, <3>1, <3>3, ProlongedMeans DEF n
    <3> QED BY <1>8, <3>3, <3>4, <3>5 DEF d, e
  <2> QED BY <2>0, <2>1, <2>2
<1>10. ASSUME NEW p \in 1..Len(planned)
       PROVE  /\ planned[p].kind = "compaction" /\ Reaches(planned[p], Len(m))
              /\ Strays(log) \/ planned[p].astray \/ Means(planned[p], m, Len(m))
  <2>1. /\ planned[p].kind = "compaction" /\ Reaches(planned[p], Len(log))
        /\ planned[p] \in SessionEntries
    BY <1>1 DEF Recorded, ContextTypes
  <2>2. Strays(log) \/ planned[p].astray \/ Means(planned[p], log, Len(log))
    BY <1>1 DEF Sound
  <2>3. Len(log) \in 0..Len(log) /\ Len(m) \in Nat /\ Len(log) <= Len(m)
    BY <1>2
  <2> QED BY <1>2, <2>1, <2>2, <2>3, ProlongedMeans
<1>11. /\ history' \in Seq(1..Len(m)) /\ ids \in Seq(1..Len(m)) /\ request' \in Seq(1..Len(m))
       /\ planned' \in Seq(SessionEntries)
  <2>1. history \in Seq(1..Len(log)) /\ ids \in Seq(1..Len(log)) /\ planned \in Seq(SessionEntries)
    BY <1>1 DEF ContextTypes
  <2>2. 1..Len(log) \subseteq 1..Len(m)
    BY <1>2
  <2>3. \A s \in Seq(1..Len(log)) : s \in Seq(1..Len(m))
    BY ONLY <2>2, SeqWiden
  <2>4. <<>> \in Seq(SessionEntries)
    OBVIOUS
  <2> QED BY <2>1, <2>3, <2>4
<1>12. /\ Strays(log) \/ (Paired(m, history') /\ Ascends(m, history'))
       /\ Strays(log) \/ Paired(m, request')
  <2>1. history \in Seq(1..Len(log)) /\ history' = history
    BY <1>1 DEF ContextTypes
  <2>2. Strays(log) \/ (Paired(log, history) /\ Ascends(log, history))
    BY <1>1 DEF Sound
  <2>3. Paired(log, history) => Paired(m, history)
    BY <1>2, <1>6, <2>1, ProlongedPaired
  <2>4. Ascends(log, history) => Ascends(m, history)
    BY <1>2, <2>1, ProlongedAscends
  <2>5. Paired(log, request') => Paired(m, request')
    BY <1>2, <1>6, ProlongedPaired
  <2> QED BY <2>1, <2>2, <2>3, <2>4, <2>5
<1>13. Recorded'
  <2>1. Len(<<>>) = 0
    OBVIOUS
  <2>2. \A p \in 1..Len(planned') :
          planned'[p].kind = "compaction" /\ Reaches(planned'[p], Len(m))
    BY <1>10, <2>1
  <2> QED BY <1>4, <1>7, <1>9, <2>2 DEF Recorded
<1>14. Sound'
  <2>1. Len(<<>>) = 0
    OBVIOUS
  <2>2. \A p \in 1..Len(planned') :
          Strays(log) \/ planned'[p].astray \/ Means(planned'[p], m, Len(m))
    <3>1. CASE planned' = planned
      BY <1>10, <3>1
    <3>2. CASE planned' = <<>>
      BY <2>1, <3>2
    <3> QED BY <3>1, <3>2
  <2> QED BY <1>4, <1>8, <1>9, <1>12, <2>2 DEF Sound
<1> QED BY <1>2, <1>4, <1>11, <1>13, <1>14

-----------------------------------------------------------------------------
LEMMA StartIn ==
  ASSUME history \in Seq(1..Len(log))
  PROVE  Context!KeepStart \in 0..Len(history)
BY ContextAssumption DEF Context!KeepStart

\* What a selection makes: the messages to send and the entry to write.
LEMMA CompactionSound ==
  ASSUME ContextInv, NEW selector \in BOOLEAN, NEW choice \in Context!Selections(selector),
         NEW known \in Seq(1..Len(log)), requested \/ known = <<>> \/ known = history
  PROVE  LET kept == Context!KeptOf(choice)
             e == Context!CompactionOf(kept, known) IN
         /\ Context!Keeping(kept) \in Seq(1..Len(log))
         /\ Strays(log) \/ Paired(log, Context!Keeping(kept))
         /\ e \in SessionEntries /\ e.kind = "compaction" /\ Reaches(e, Len(log))
         /\ Strays(log) \/ e.astray \/ Means(e, log, Len(log))
<1> DEFINE kept == Context!KeptOf(choice)
           e == Context!CompactionOf(kept, known)
           a == Context!Anchor(kept)
           n == Len(log)
           h == Len(history)
           first == Context!FirstKept(kept, known)
           msgs == {history[i] : i \in kept}
<1>1. /\ log \in Seq(SessionEntries) /\ history \in Seq(1..Len(log)) /\ Hangs(log)
      /\ Strays(log) \/ (Paired(log, history) /\ Ascends(log, history))
      /\ requested \in BOOLEAN
  BY DEF ContextInv, ContextTypes, Recorded, Sound
<1>2. choice \subseteq 1..Context!KeepStart /\ choice # {}
  <2> DEFINE k == Context!KeepStart
  <2>1. k \in Nat
    BY <1>1, StartIn
  <2>2. choice \in (SUBSET (1..k)) \ {{}} \/ \E i \in 1..k : choice = i..k
    BY DEF Context!Selections
  <2> HIDE DEF k
  <2>3. ASSUME NEW i \in 1..k PROVE i..k \subseteq 1..k /\ i..k # {}
    <3>1. i \in i..k
      BY <2>1
    <3>2. i..k \subseteq 1..k
      BY ONLY <2>1, i \in 1..k
    <3> QED BY ONLY <3>1, <3>2
  <2>4. choice \subseteq 1..k /\ choice # {}
    <3>1. CASE choice \in (SUBSET (1..k)) \ {{}}
      BY ONLY <3>1
    <3>2. CASE \E i \in 1..k : choice = i..k
      BY ONLY <2>3, <3>2
    <3> QED BY ONLY <2>2, <3>1, <3>2
  <2> QED BY <2>4 DEF k
<1>3. /\ kept \subseteq 1..h /\ kept # {}
      /\ \A i \in 1..h, k \in kept : Context!SameGroup(i, k) => i \in kept
  BY <1>1, <1>2, StartIn, KeptClosed
<1> HIDE DEF kept
<1>4. /\ Context!Keeping(kept) \in Seq(1..Len(log))
      /\ Paired(log, history) => Paired(log, Context!Keeping(kept))
  BY <1>1, <1>3, KeepingPaired
<1>5. n \in Nat /\ h \in Nat /\ \A i \in 1..h : history[i] \in 1..n
  BY <1>1
<1>6. msgs \subseteq 1..n
  BY <1>3, <1>5
<1>7. \E k \in kept : TRUE
  BY <1>3
<1>8. h # 0
  BY <1>3, <1>5, <1>7
<1>9. /\ a \in 1..h /\ \A k \in kept : a <= k
      /\ Paired(log, history) => log[history[a]].kind # "result"
  BY <1>1, <1>3, AnchorSound
<1>10. /\ e.kind = "compaction" /\ e.of = first /\ e.kept = msgs /\ e.atHead = (a = 1)
       /\ requested => first \in {0, history[a]} \/ e.astray
  BY DEF Context!CompactionOf, Context!Entry, Context!Unresolved
<1>11. first \in 0..n /\ (first \in {0, history[a]} \/ e.astray)
  <2>1. CASE Len(known) = h
    <3>1. first = known[a] /\ first \in 1..n
      BY <1>9, <2>1 DEF Context!FirstKept
    <3>2. known # <<>>
      BY <1>8, <2>1
    <3> QED BY <1>5, <1>10, <3>1, <3>2
  <2>2. CASE Len(known) # h
    BY <1>5, <2>2 DEF Context!FirstKept, Context!Unresolved
  <2> QED BY <2>1, <2>2
<1>12. e \in SessionEntries
  <2>1. n \in Nat /\ first \in Nat /\ msgs \in SUBSET Nat
    BY <1>5, <1>6, <1>11
  <2>2. e = [kind |-> "compaction", of |-> first, kept |-> msgs, atHead |-> (a = 1),
             astray |-> (requested /\ first \notin {0, history[a]})]
    BY DEF Context!CompactionOf, Context!Entry, Context!Unresolved
  <2> HIDE DEF e, first, msgs, a
  <2> QED BY <2>1, <2>2 DEF SessionEntries
<1> HIDE DEF e, first, msgs, a, n, h
<1>13. Reaches(e, n)
  BY <1>6, <1>10, <1>11 DEF Reaches
<1>14. ASSUME Paired(log, history), Ascends(log, history), ~e.astray
       PROVE  Means(e, log, n)
  <2> SUFFICES ASSUME e.of # 0
               PROVE  /\ log[e.of].kind # "result"
                      /\ msgs \subseteq e.of..n \/ (e.atHead /\ log[e.of].kind = "compaction")
    BY <1>10 DEF Means
  <2>1. e.of = history[a] /\ log[e.of].kind # "result"
    BY <1>9, <1>10, <1>11, <1>14
  <2>2. ASSUME ~(a = 1 /\ log[history[a]].kind = "compaction"), NEW i \in kept
        PROVE  history[i] \in history[a]..n
    <3>1. /\ i \in 1..h /\ a \in 1..h /\ a <= i
          /\ history[i] \in 1..n /\ history[a] \in 1..n
      BY <1>3, <1>5, <1>9
    <3>2. i = a \/ history[a] < history[i]
      <4>1. CASE a = 1
        <5>1. i = 1 \/ i \in 2..h
          BY <1>5, <3>1, <4>1
        <5> QED BY <1>14, <2>2, <4>1, <5>1 DEF Ascends, h
      <4>2. CASE a # 1
        <5>1. i = a \/ (i \in 2..h /\ a \in 2..i - 1)
          BY <1>5, <3>1, <4>2
        <5> QED BY <1>14, <5>1 DEF Ascends, h
      <4> QED BY <4>1, <4>2
    <3> QED BY <1>5, <3>1, <3>2
  <2>3. CASE a = 1 /\ log[history[a]].kind = "compaction"
    BY <1>10, <2>1, <2>3
  <2>4. CASE ~(a = 1 /\ log[history[a]].kind = "compaction")
    BY <2>1, <2>2, <2>4 DEF msgs
  <2> QED BY <2>1, <2>3, <2>4
<1> QED BY <1>1, <1>4, <1>10, <1>12, <1>13, <1>14 DEF n, e, kept

-----------------------------------------------------------------------------
(* The steps.                                                              *)

LEMMA EntriesTyped ==
  /\ Context!Text \in SessionEntries /\ Context!Text.kind = "text"
  /\ Context!Calls \in SessionEntries /\ Context!Calls.kind = "calls"
  /\ \A n \in Nat : /\ Context!ResultOf(n) \in SessionEntries
                    /\ Context!ResultOf(n).kind = "result" /\ Context!ResultOf(n).of = n
BY DEF Context!Text, Context!Calls, Context!ResultOf, Context!Entry, SessionEntries

\* A message, added on its own.
LEMMA TextBatch ==
  ASSUME log \in Seq(SessionEntries)
  PROVE  /\ <<Context!Text>> \in Seq(SessionEntries) /\ Len(<<Context!Text>>) = 1
         /\ Batched(log \o <<Context!Text>>, Len(log))
<1> DEFINE t == Context!Text
           m == log \o <<t>>
           n == Len(log)
<1>1. t \in SessionEntries /\ t.kind = "text"
  BY EntriesTyped
<1> HIDE DEF t
<1>2. Len(m) = n + 1 /\ m[n + 1] = t /\ n \in Nat
  OBVIOUS
<1>3. \A i \in n + 1 .. n + 1 : i = n + 1
  BY <1>2
<1> HIDE DEF m, n
<1>4. Batched(m, n)
  BY <1>1, <1>2, <1>3 DEF Batched
<1> QED BY <1>1, <1>4 DEF m, n, t

LEMMA PromptKeeps == ContextInv /\ Context!Prompt => ContextInv'
<1> SUFFICES ASSUME ContextInv, Context!Prompt PROVE ContextInv'
  OBVIOUS
<1> DEFINE es == <<Context!Text>>
           q == IF line THEN history ELSE Context!Projection
<1>1. /\ phase = "idle" /\ log' = Append(log, Context!Text) /\ history' = Append(q, Len(log) + 1)
      /\ phase' = "refresh" /\ refreshes' = ~line /\ ids' = <<>>
      /\ planned' = planned /\ request' = request /\ requested' = requested
  BY DEF Context!Prompt
<1>2. ContextTypes /\ Informed
  BY DEF ContextInv
<1>3. log \in Seq(SessionEntries) /\ Len(log) \in Nat
  BY <1>2 DEF ContextTypes
<1>4. /\ es \in Seq(SessionEntries) /\ Len(es) = 1 /\ Batched(log \o es, Len(log))
  BY <1>3, TextBatch
<1>5. log' = log \o es
  BY <1>1, <1>3, EntriesTyped
<1>6. request' = <<>> /\ requested = FALSE
  BY <1>1, <1>2 DEF Informed, ContextTypes
<1>7. q \in {history, Shown(log)} /\ (~line => q = Shown(log))
  BY ShownIs
<1>8. history' = q \o Through(Len(log) + 1, Len(log) + Len(es))
  <2>1. q \in Seq(1..Len(log))
    BY <1>2, <1>7, ShownSound DEF ContextTypes
  <2>2. Through(Len(log) + 1, Len(log) + Len(es)) = <<Len(log) + 1>>
    <3> DEFINE n == Len(log)
    <3>1. n \in Nat /\ Len(es) = 1
      BY <1>3, <1>4
    <3> HIDE DEF n, es
    <3> QED BY <3>1 DEF Through, n
  <2> HIDE DEF q, es
  <2>3. Append(q, Len(log) + 1) = q \o <<Len(log) + 1>>
    BY <2>1
  <2> QED BY <1>1, <2>2, <2>3 DEF q
<1> HIDE DEF q, es
<1>9. /\ Recorded' /\ Sound' /\ log' \in Seq(SessionEntries) /\ planned' \in Seq(SessionEntries)
      /\ history' \in Seq(1..Len(log'))
      /\ q = Shown(log) => history' = Shown(log')
  BY <1>1, <1>4, <1>5, <1>6, <1>7, <1>8, AddKeeps
<1>10. ContextTypes'
  BY <1>1, <1>2, <1>6, <1>9 DEF ContextTypes
<1>11. Informed'
  BY <1>1, <1>6, <1>7, <1>9 DEF Informed
<1> QED BY <1>9, <1>10, <1>11 DEF ContextInv

LEMMA AnswerKeeps == ContextInv /\ Context!Answer => ContextInv'
<1> SUFFICES ASSUME ContextInv, Context!Answer PROVE ContextInv'
  OBVIOUS
<1>1. /\ phase = "answer" /\ phase' \in {"ended", "refresh"} /\ request' = <<>>
      /\ refreshes' = refreshes /\ ids' = ids /\ planned' = planned /\ requested' = requested
  BY DEF Context!Answer
<1>2. ContextTypes /\ Informed
  BY DEF ContextInv
<1>3. log \in Seq(SessionEntries) /\ Len(log) \in Nat /\ history \in Seq(1..Len(log))
  BY <1>2 DEF ContextTypes
<1>4. \E es \in Seq(SessionEntries) :
        /\ Batched(log \o es, Len(log))
        /\ log' = log \o es /\ history' = history \o Through(Len(log) + 1, Len(log) + Len(es))
  <2>1. CASE Context!Add(<<Context!Text>>)
    <3> DEFINE es == <<Context!Text>>
    <3>1. es \in Seq(SessionEntries) /\ Batched(log \o es, Len(log))
      BY <1>3, TextBatch
    <3> QED BY <2>1, <3>1 DEF Context!Add, Context!Between, Through
  <2>2. ASSUME NEW n \in 1..MaxCalls,
               Context!Add(<<Context!Calls>> \o [i \in 1..n |-> Context!ResultOf(Len(log) + 1)])
        PROVE  \E es \in Seq(SessionEntries) :
                 /\ Batched(log \o es, Len(log))
                 /\ log' = log \o es
                 /\ history' = history \o Through(Len(log) + 1, Len(log) + Len(es))
    <3> DEFINE k == Len(log)
               c == Context!Calls
               r == Context!ResultOf(k + 1)
               rs == [i \in 1..n |-> r]
               es == <<c>> \o rs
               m == log \o es
    <3>1. /\ c \in SessionEntries /\ c.kind = "calls" /\ n \in Nat /\ k \in Nat
          /\ r \in SessionEntries /\ r.kind = "result" /\ r.of = k + 1
      BY <1>3, EntriesTyped, ContextAssumption
    <3> HIDE DEF c, r, k
    <3>2. rs \in Seq(SessionEntries) /\ Len(rs) = n /\ \A i \in 1..n : rs[i] = r
      BY <3>1
    <3> HIDE DEF rs
    <3>3. /\ es \in Seq(SessionEntries) /\ Len(es) = 1 + n /\ es[1] = c
          /\ \A i \in 1..n : es[1 + i] = r
      BY <3>1, <3>2
    <3> HIDE DEF es
    <3>4. /\ m \in Seq(SessionEntries) /\ Len(m) = k + (1 + n)
          /\ \A i \in 1..1 + n : m[k + i] = es[i]
      BY <1>3, <3>3 DEF k
    <3> HIDE DEF m
    <3>5. m[k + 1] = c
      BY <3>1, <3>3, <3>4
    <3>6. ASSUME NEW i \in k + 2 .. k + (1 + n) PROVE m[i] = r
      <4> DEFINE d == i - (k + 1)
      <4>1. d \in 1..n /\ 1 + d \in 1..1 + n /\ k + (1 + d) = i
        BY <3>1
      <4> HIDE DEF d
      <4>2. m[k + (1 + d)] = es[1 + d]
        BY <3>4, <4>1
      <4> QED BY <3>3, <4>1, <4>2
    <3>7. Batched(m, k)
      <4> SUFFICES ASSUME NEW i \in k + 1 .. k + (1 + n)
                   PROVE  /\ m[i].kind # "compaction"
                          /\ m[i].kind = "result" =>
                               /\ i > k + 1 /\ m[i].of = k + 1 /\ m[k + 1].kind = "calls"
                               /\ \A j \in k + 2 .. i : m[j].kind = "result"
        BY <3>4 DEF Batched
      <4>1. CASE i = k + 1
        BY <3>1, <3>5, <4>1
      <4>2. CASE i # k + 1
        <5>1. i \in k + 2 .. k + (1 + n) /\ \A j \in k + 2 .. i : j \in k + 2 .. k + (1 + n)
          BY <3>1, <4>2
        <5>2. i > k + 1
          BY <3>1, <5>1
        <5> QED BY <3>1, <3>5, <3>6, <5>1, <5>2
      <4> QED BY <4>1, <4>2
    <3>8. /\ log' = log \o es
          /\ history' = history \o Through(Len(log) + 1, Len(log) + Len(es))
      BY <2>2 DEF Context!Add, Context!Between, Through, es, rs, c, r, k
    <3> QED BY <3>3, <3>7, <3>8 DEF m, k
  <2> QED BY <2>1, <2>2 DEF Context!Answer
<1>5. PICK es \in Seq(SessionEntries) :
        /\ Batched(log \o es, Len(log))
        /\ log' = log \o es /\ history' = history \o Through(Len(log) + 1, Len(log) + Len(es))
  BY <1>4
<1>6. /\ Recorded' /\ Sound' /\ log' \in Seq(SessionEntries) /\ planned' \in Seq(SessionEntries)
      /\ history' \in Seq(1..Len(log'))
      /\ history = Shown(log) => history' = Shown(log')
  BY <1>1, <1>5, AddKeeps
<1>7. ids' \in Seq(1..Len(log'))
  <2>1. ids \in Seq(1..Len(log)) /\ 1..Len(log) \subseteq 1..Len(log')
    <3>1. Len(log') = Len(log) + Len(es) /\ Len(es) \in Nat
      BY <1>3, <1>5
    <3> QED BY <1>2, <1>3, <3>1 DEF ContextTypes
  <2>2. ids \in Seq(1..Len(log'))
    BY ONLY <2>1, SeqWiden
  <2> QED BY <1>1, <2>2
<1>8. ContextTypes'
  BY <1>1, <1>2, <1>6, <1>7 DEF ContextTypes
<1>9. Informed'
  BY <1>1, <1>2, <1>6 DEF Informed
<1> QED BY <1>6, <1>8, <1>9 DEF ContextInv

\* A requested compaction is written under the turn, or comes to nothing.
LEMMA ExplicitSound == ContextInv /\ Context!PrepareExplicit => ContextInv'
<1> SUFFICES ASSUME ContextInv, Context!PrepareExplicit PROVE ContextInv'
  OBVIOUS
<1>1. /\ phase = "prepare" /\ phase' = "answer" /\ history' = history /\ refreshes' = refreshes
      /\ ids' = ids /\ planned' = planned
  BY DEF Context!PrepareExplicit
<1>2. ContextTypes /\ Informed /\ Sound /\ Recorded
  BY DEF ContextInv
<1>3. CASE request' = history /\ log' = log /\ requested' = requested
  <2>1. ContextTypes'
    BY <1>1, <1>2, <1>3 DEF ContextTypes
  <2>2. Informed'
    BY <1>1, <1>2, <1>3 DEF Informed
  <2>3. Recorded' /\ Sound'
    BY <1>1, <1>2, <1>3 DEF Recorded, Sound
  <2> QED BY <2>1, <2>2, <2>3 DEF ContextInv
<1>4. ASSUME NEW choice \in Context!Selections(TRUE),
             log' = Append(log, Context!CompactionOf(Context!KeptOf(choice), ids)),
             request' = Context!Keeping(Context!KeptOf(choice)), requested' = TRUE
      PROVE  ContextInv'
  <2> DEFINE e == Context!CompactionOf(Context!KeptOf(choice), ids)
             es == <<e>>
  <2>1. ids \in Seq(1..Len(log)) /\ (requested \/ ids = <<>> \/ ids = history)
    BY <1>1, <1>2 DEF ContextTypes, Informed
  <2>2. /\ request' \in Seq(1..Len(log))
        /\ Strays(log) \/ Paired(log, request')
        /\ e \in SessionEntries /\ e.kind = "compaction" /\ Reaches(e, Len(log))
        /\ Strays(log) \/ e.astray \/ Means(e, log, Len(log))
    BY <1>4, <2>1, CompactionSound
  <2>3. log' = Append(log, e)
    BY <1>4
  <2> HIDE DEF e
  <2>4. /\ es \in Seq(SessionEntries) /\ log' = log \o es /\ Len(es) = 1
        /\ \A i \in 1..Len(es) : es[i] = e
    BY <1>2, <2>2, <2>3 DEF ContextTypes
  <2> HIDE DEF es
  <2>5. /\ Recorded' /\ Sound' /\ log' \in Seq(SessionEntries) /\ planned' \in Seq(SessionEntries)
        /\ history' \in Seq(1..Len(log')) /\ request' \in Seq(1..Len(log'))
        /\ ids \in Seq(1..Len(log'))
    <3>1. planned' \in {planned, <<>>} /\ history' = history
      BY <1>1
    <3>2. \A i \in 1..Len(es) :
            /\ es[i].kind = "compaction" /\ Reaches(es[i], Len(log))
            /\ Strays(log) \/ es[i].astray \/ Means(es[i], log, Len(log))
      BY <2>2, <2>4
    <3> QED BY <2>2, <2>4, <3>1, <3>2, CompactedKeeps
  <2>6. ContextTypes'
    BY <1>1, <1>2, <1>4, <2>5 DEF ContextTypes
  <2>7. Informed'
    BY <1>1, <1>2, <1>4 DEF Informed
  <2> QED BY <2>5, <2>6, <2>7 DEF ContextInv
<1> QED BY <1>3, <1>4 DEF Context!PrepareExplicit

\* A compaction of the turn itself is planned, and written when the turn ends.
LEMMA PrepareSound == ContextInv /\ Context!Prepare => ContextInv'
<1> SUFFICES ASSUME ContextInv, Context!Prepare PROVE ContextInv'
  OBVIOUS
<1>1. /\ phase = "prepare" /\ phase' = "answer" /\ history' = history /\ refreshes' = refreshes
      /\ ids' = ids /\ log' = log /\ requested' = requested
  BY DEF Context!Prepare
<1>2. ContextTypes /\ Informed /\ Sound /\ Recorded
  BY DEF ContextInv
<1>3. Informed'
  BY <1>1, <1>2 DEF Informed
<1>4. CASE request' = history /\ planned' = planned
  <2>1. ContextTypes'
    BY <1>1, <1>2, <1>4 DEF ContextTypes
  <2>2. Recorded' /\ Sound'
    BY <1>1, <1>2, <1>4 DEF Recorded, Sound
  <2> QED BY <1>3, <2>1, <2>2 DEF ContextInv
<1>5. ASSUME NEW choice \in Context!Selections(~forced),
             planned' = Append(planned, Context!CompactionOf(Context!KeptOf(choice), ids)),
             request' = Context!Keeping(Context!KeptOf(choice))
      PROVE  ContextInv'
  <2> DEFINE e == Context!CompactionOf(Context!KeptOf(choice), ids)
  <2>1. ids \in Seq(1..Len(log)) /\ (requested \/ ids = <<>> \/ ids = history)
    BY <1>1, <1>2 DEF ContextTypes, Informed
  <2>2. /\ request' \in Seq(1..Len(log))
        /\ Strays(log) \/ Paired(log, request')
        /\ e \in SessionEntries /\ e.kind = "compaction" /\ Reaches(e, Len(log))
        /\ Strays(log) \/ e.astray \/ Means(e, log, Len(log))
    BY <1>5, <2>1, CompactionSound
  <2>3. planned' = Append(planned, e)
    BY <1>5
  <2> HIDE DEF e
  <2>4. /\ planned' \in Seq(SessionEntries) /\ Len(planned) \in Nat
        /\ Len(planned') = Len(planned) + 1 /\ planned'[Len(planned) + 1] = e
        /\ \A p \in 1..Len(planned) : planned'[p] = planned[p]
    BY <1>2, <2>2, <2>3 DEF ContextTypes
  <2>5. \A p \in 1..Len(planned') : p \in 1..Len(planned) \/ planned'[p] = e
    BY <2>4
  <2>6. ContextTypes'
    BY <1>1, <1>2, <2>2, <2>4 DEF ContextTypes
  <2>7. Recorded'
    BY <1>1, <1>2, <2>2, <2>4, <2>5 DEF Recorded
  <2>8. Sound'
    BY <1>1, <1>2, <2>2, <2>4, <2>5 DEF Sound
  <2> QED BY <1>3, <2>6, <2>7, <2>8 DEF ContextInv
<1> QED BY <1>4, <1>5 DEF Context!Prepare

LEMMA EndTurnKeeps == ContextInv /\ Context!EndTurn => ContextInv'
<1> SUFFICES ASSUME ContextInv, Context!EndTurn PROVE ContextInv'
  OBVIOUS
<1>1. /\ phase = "ended" /\ phase' = "idle" /\ planned' = <<>> /\ requested' = FALSE
      /\ refreshes' = FALSE /\ ids' = <<>> /\ history' = history /\ request' = request
  BY DEF Context!EndTurn
<1>2. ContextTypes /\ Informed /\ Sound /\ Recorded
  BY DEF ContextInv
<1>3. PICK n \in 0..Len(planned) : log' = log \o SubSeq(planned, 1, n)
  BY DEF Context!EndTurn
<1> DEFINE es == SubSeq(planned, 1, n)
<1>4. /\ es \in Seq(SessionEntries) /\ Len(es) = n /\ n \in Nat
      /\ \A i \in 1..n : i \in 1..Len(planned) /\ es[i] = planned[i]
  BY <1>2 DEF ContextTypes
<1>5. log' = log \o es
  BY <1>3
<1> HIDE DEF es
<1>6. \A i \in 1..Len(es) :
        /\ es[i].kind = "compaction" /\ Reaches(es[i], Len(log))
        /\ Strays(log) \/ es[i].astray \/ Means(es[i], log, Len(log))
  BY <1>2, <1>4 DEF Recorded, Sound
<1>7. request' \in Seq(1..Len(log)) /\ (Strays(log) \/ Paired(log, request'))
  BY <1>1, <1>2 DEF ContextTypes, Sound
<1>8. /\ Recorded' /\ Sound' /\ log' \in Seq(SessionEntries) /\ planned' \in Seq(SessionEntries)
      /\ history' \in Seq(1..Len(log')) /\ request' \in Seq(1..Len(log'))
  <2>1. planned' \in {planned, <<>>} /\ history' = history
    BY <1>1
  <2> QED BY <1>4, <1>5, <1>6, <1>7, <2>1, CompactedKeeps
<1>9. ContextTypes'
  <2>1. <<>> \in Seq(1..Len(log'))
    OBVIOUS
  <2> QED BY <1>1, <1>8, <2>1 DEF ContextTypes
<1>10. Informed'
  BY <1>1, <1>2 DEF Informed
<1> QED BY <1>8, <1>9, <1>10 DEF ContextInv

LEMMA CompactIdleKeeps == ContextInv /\ Context!CompactIdle => ContextInv'
<1> SUFFICES ASSUME ContextInv, Context!CompactIdle PROVE ContextInv'
  OBVIOUS
<1>1. /\ phase = "idle" /\ phase' = phase /\ history' = history /\ refreshes' = refreshes
      /\ ids' = ids /\ planned' = planned /\ request' = request /\ requested' = requested
  BY DEF Context!CompactIdle
<1>2. ContextTypes /\ Informed /\ Sound /\ Recorded
  BY DEF ContextInv
<1>3. PICK known \in {<<>>, Context!Projection}, choice \in Context!Selections(TRUE) :
        /\ known # <<>> => history = Context!Projection
        /\ log' = Append(log, Context!CompactionOf(Context!KeptOf(choice), known))
  BY DEF Context!CompactIdle
<1> DEFINE e == Context!CompactionOf(Context!KeptOf(choice), known)
           es == <<e>>
<1>4. known \in Seq(1..Len(log)) /\ (known = <<>> \/ known = history)
  <2>1. <<>> \in Seq(1..Len(log)) /\ Context!Projection \in Seq(1..Len(log))
    BY ShownIs, ShownSound
  <2> QED BY <1>3, <2>1
<1>5. /\ e \in SessionEntries /\ e.kind = "compaction" /\ Reaches(e, Len(log))
      /\ Strays(log) \/ e.astray \/ Means(e, log, Len(log))
  BY <1>4, CompactionSound
<1>6. log' = Append(log, e)
  BY <1>3
<1> HIDE DEF e
<1>7. /\ es \in Seq(SessionEntries) /\ log' = log \o es /\ Len(es) = 1
      /\ \A i \in 1..Len(es) : es[i] = e
  BY <1>2, <1>5, <1>6 DEF ContextTypes
<1> HIDE DEF es
<1>8. request' \in Seq(1..Len(log)) /\ (Strays(log) \/ Paired(log, request'))
  BY <1>1, <1>2 DEF ContextTypes, Sound
<1>9. /\ Recorded' /\ Sound' /\ log' \in Seq(SessionEntries) /\ planned' \in Seq(SessionEntries)
      /\ history' \in Seq(1..Len(log')) /\ request' \in Seq(1..Len(log'))
      /\ ids \in Seq(1..Len(log'))
  <2>1. planned' \in {planned, <<>>} /\ history' = history
    BY <1>1
  <2>2. \A i \in 1..Len(es) :
          /\ es[i].kind = "compaction" /\ Reaches(es[i], Len(log))
          /\ Strays(log) \/ es[i].astray \/ Means(es[i], log, Len(log))
    BY <1>5, <1>7
  <2> QED BY <1>7, <1>8, <2>1, <2>2, CompactedKeeps
<1>10. ContextTypes'
  BY <1>1, <1>2, <1>9 DEF ContextTypes
<1>11. Informed'
  BY <1>1, <1>2 DEF Informed
<1> QED BY <1>9, <1>10, <1>11 DEF ContextInv

\* The steps that leave the session alone.
LEMMA OthersKeep ==
  ASSUME ContextInv,
         \/ Context!Refresh \/ Context!RequestCompact \/ Context!Overflow \/ Context!Fail
         \/ Context!Reload \/ UNCHANGED contextVars
  PROVE  ContextInv'
<1>1. ContextTypes /\ Informed
  BY DEF ContextInv
<1>2. Shown(log) = Context!Projection /\ Shown(log) \in Seq(1..Len(log))
  BY ShownIs, ShownSound
<1>3. /\ log' = log /\ planned' = planned /\ requested' = requested
      /\ history' \in {history, Shown(log)} /\ request' \in {request, <<>>}
  BY <1>2 DEF Context!Refresh, Context!RequestCompact, Context!Overflow, Context!Fail,
              Context!Reload, contextVars
<1>4. /\ Recorded' /\ Sound' /\ log' \in Seq(SessionEntries) /\ planned' \in Seq(SessionEntries)
      /\ history' \in Seq(1..Len(log')) /\ request' \in Seq(1..Len(log'))
  BY <1>3, StillSound
<1>5. ids' \in Seq(1..Len(log')) /\ refreshes' \in BOOLEAN
  <2>1. ids' \in {ids, Shown(log)} /\ refreshes' \in {refreshes, TRUE}
    BY <1>2 DEF Context!Refresh, Context!RequestCompact, Context!Overflow, Context!Fail,
                Context!Reload, contextVars
  <2> QED BY <1>1, <1>2, <1>3, <2>1 DEF ContextTypes
<1>6. ContextTypes'
  BY <1>1, <1>3, <1>4, <1>5 DEF ContextTypes
<1>7. Informed'
  <2>1. Shown(log)' = Shown(log)
    BY <1>3
  <2>2. CASE Context!Refresh
    BY <1>1, <1>2, <2>1, <2>2 DEF Informed, Context!Refresh, ContextTypes
  <2>3. CASE Context!RequestCompact
    BY <1>1, <2>1, <2>3 DEF Informed, Context!RequestCompact
  <2>4. CASE Context!Overflow
    BY <1>1, <1>2, <2>1, <2>4 DEF Informed, Context!Overflow
  <2>5. CASE Context!Fail
    BY <1>1, <2>1, <2>5 DEF Informed, Context!Fail
  <2>6. CASE Context!Reload
    BY <1>1, <2>1, <2>6 DEF Informed, Context!Reload
  <2>7. CASE UNCHANGED contextVars
    BY <1>1, <2>1, <2>7 DEF Informed, contextVars
  <2> QED BY <2>2, <2>3, <2>4, <2>5, <2>6, <2>7
<1> QED BY <1>4, <1>6, <1>7 DEF ContextInv

LEMMA ContextStep == ContextInv /\ (Context!Next \/ UNCHANGED contextVars) => ContextInv'
BY PromptKeeps, AnswerKeeps, ExplicitSound, PrepareSound, EndTurnKeeps, CompactIdleKeeps,
   OthersKeep DEF Context!Next

-----------------------------------------------------------------------------
\* What the latest compaction kept is shown, if its anchor means what it was chosen for.
LEMMA KeptShown ==
  ASSUME ContextInv, ~Strays(log)
  PROVE  Context!KeptReload
<1>1. /\ log \in Seq(SessionEntries) /\ Len(log) \in Nat
      /\ \A c \in 1..Len(log) : Reaches(log[c], c - 1) /\ Means(log[c], log, c - 1)
  BY DEF ContextInv, ContextTypes, Recorded, Sound
<1> DEFINE c == Context!Max(Marks(log))
           n == Len(log)
<1>2. Marks(log) = Context!Compactions
  BY DEF Marks, Context!Compactions
<1> SUFFICES ASSUME Marks(log) # {}
             PROVE  \/ log[c].kept \subseteq Context!ToSet(Shown(log))
                    \/ log[c].atHead /\ log[log[c].of].kind = "compaction"
  BY <1>2, ShownIs DEF Context!KeptReload
<1>3. c \in 1..n /\ log[c].kind = "compaction"
  <2>1. c \in Marks(log)
    BY <1>1, LatestIn DEF Marks
  <2> HIDE DEF c
  <2> QED BY <2>1 DEF Marks
<1>4. log[c].of \in 0..c - 1 /\ log[c].kept \subseteq 1..c - 1
  BY <1>1, <1>3 DEF Reaches
<1>5. CASE log[c].of = 0
  <2>1. Shown(log) = Through(1, n)
    BY <1>5 DEF Shown
  <2>2. \A k \in 1..n : Shown(log)[k] = k /\ k \in 1..Len(Shown(log))
    BY <1>1, <2>1 DEF Through
  <2>3. \A k \in 1..c - 1 : k \in 1..n
    BY <1>1, <1>3
  <2> QED BY <1>4, <2>2, <2>3 DEF Context!ToSet
<1>6. CASE log[c].of # 0
  <2> SUFFICES ASSUME log[c].kept \subseteq log[c].of .. c - 1
               PROVE  log[c].kept \subseteq Context!ToSet(Shown(log))
    BY <1>1, <1>3, <1>6 DEF Means
  <2> DEFINE o == log[c].of
             x == <<c>>
             a == Through(o, c - 1)
             b == Through(c + 1, n)
  <2>1. Shown(log) = (x \o a) \o b
    BY <1>6 DEF Shown
  <2>2. o \in 1..c - 1
    BY <1>4, <1>6
  <2> HIDE DEF c, o, n
  <2>3. c \in Nat /\ o \in Nat /\ o < c
    BY <1>1, <1>3, <2>2 DEF n
  <2>4. x \in Seq(Nat) /\ Len(x) = 1
    BY <2>3
  <2>5. a \in Seq(Nat) /\ Len(a) = c - o /\ \A i \in 1..c - o : a[i] = o + i - 1
    BY <2>3 DEF Through
  <2>6. b \in Seq(Nat)
    BY <1>1, <1>3, <2>3 DEF Through, n
  <2> HIDE DEF x, a, b
  <2>7. /\ x \o a \in Seq(Nat) /\ Len(x \o a) = Len(x) + Len(a)
        /\ \A i \in 1..Len(a) : (x \o a)[Len(x) + i] = a[i]
    <3>1. x \in Seq(Nat) /\ a \in Seq(Nat)
      BY <2>4, <2>5
    <3> QED BY ONLY <3>1, Joins
  <2> DEFINE y == x \o a
             z == y \o b
  <2> HIDE DEF y
  <2>8. /\ z \in Seq(Nat) /\ Len(z) = Len(y) + Len(b) /\ Len(b) \in Nat /\ Len(y) \in Nat
        /\ \A i \in 1..Len(y) : z[i] = y[i]
    <3>1. y \in Seq(Nat) /\ b \in Seq(Nat)
      BY <2>6, <2>7 DEF y
    <3>2. Len(b) \in Nat /\ Len(y) \in Nat
      BY ONLY <3>1
    <3> QED BY ONLY <3>1, <3>2, Joins
  <2> HIDE DEF z
  <2>9. ASSUME NEW k \in o..c - 1 PROVE k \in Context!ToSet(z)
    <3> DEFINE i == k + 1 - o
    <3>1. i \in 1..c - o /\ 1 + i \in 1..1 + (c - o) /\ o + i - 1 = k
      BY <2>3
    <3> HIDE DEF i
    <3>2. 1 + i \in 1..Len(y) /\ y[1 + i] = k
      BY <2>4, <2>5, <2>7, <3>1 DEF y
    <3>3. 1 + i \in 1..Len(z) /\ z[1 + i] = k
      BY <2>8, <3>2
    <3> QED BY <2>8, <3>3 DEF Context!ToSet
  <2> QED BY <2>1, <2>9 DEF y, z, o, c
<1> QED BY <1>5, <1>6

LEMMA ContextImplies == ContextInv => Context!CompactionHonest
<1> SUFFICES ASSUME ContextInv PROVE Context!CompactionHonest
  OBVIOUS
<1>1. ContextTypes /\ Informed /\ Sound
  BY DEF ContextInv
<1>2. log \in Seq(SessionEntries) /\ request \in Seq(1..Len(log))
  BY <1>1 DEF ContextTypes
<1>3. Context!IdsAlign
  BY <1>1, ShownIs DEF Informed, Context!IdsAlign
<1>4. ASSUME ~Strays(log) PROVE Context!PairsIntact
  <2>1. Paired(log, request)
    BY <1>1, <1>4 DEF Sound
  <2>2. Shown(log) \in Seq(1..Len(log)) /\ Paired(log, Shown(log))
    BY <1>4, ShownSound
  <2>3. Context!Loadable(request) /\ Context!Loadable(Shown(log))
    BY <1>2, <2>1, <2>2, PairedIs
  <2> QED BY <2>3, ShownIs DEF Context!PairsIntact
<1> QED BY <1>2, <1>3, <1>4, KeptShown, StraysIs DEF Context!CompactionHonest
=============================================================================
