---------------------------- MODULE GatewayProofs ----------------------------
(***************************************************************************)
(* Proofs about WorkspaceScheduler: mutual exclusion per workspace and the *)
(* cap on active turns, for every number of actors and workspaces, every   *)
(* capacity of the semaphore and every pattern of cancellation.            *)
(*                                                                         *)
(* The gate's invariant says who may hold it: the queue holds waiters that *)
(* have not been handed the gate, each of them once, and whoever was handed*)
(* it is its only holder even before looking at its channel.               *)
(*                                                                         *)
(* The gateway runs its turns through the scheduler: every step of Gateway *)
(* is a step of WorkspaceScheduler or leaves it alone, so that the theorems*)
(* about the scheduler hold of the gateway, through crashes and restarts,  *)
(* whatever the journal, the limiter and the submissions do.               *)
(*                                                                         *)
(* The journal of the gateway: a settled record is final and a message is  *)
(* run at most once, through redeliveries, replays, cancellations, failed  *)
(* writes and crashes, for every set of messages, chats and transports.    *)
(*                                                                         *)
(* validTransition admits "started" for a record that is "started" already,*)
(* so the journal alone does not keep a message from being run again.  The *)
(* invariant says what does: a message that still waits anywhere has a     *)
(* "started" record only while its own actor runs it, and that actor takes *)
(* no second message before it has settled the first.                      *)
(*                                                                         *)
(* A message is in one place: Start's list, one submission, or its actor.  *)
(* Hence nobody settles the record of a running turn, and what was         *)
(* acknowledged is not forgotten.  The limiter counts these places.        *)
(***************************************************************************)
EXTENDS Gateway, FiniteSetTheorems, SequenceTheorems, TLAPS

Calling == {"gate", "handback", "remove", "sem", "in", "leave"}
Waiting == {"gate", "remove"}

\* An actor inside Acquire or Release has named a workspace.
NamedInv == \A a \in Actors : stage[a] \in Calling => ws[a] \in Workspaces

\* A queued actor waits for that workspace, has not been handed the gate and
\* is queued once.
QueueInv ==
  \A w \in Workspaces :
    /\ \A i \in 1..Len(wait[w]) :
         LET a == wait[w][i]
         IN stage[a] \in Waiting /\ ws[a] = w /\ a \notin handed
    /\ \A i, j \in 1..Len(wait[w]) : wait[w][i] = wait[w][j] => i = j

\* Only a waiter has an open hand-over.
HandedInv == \A a \in handed : stage[a] \in Waiting

\* The gate has one holder, and is busy while it has one or is waited for.
HolderInv ==
  /\ \A a \in Actors : Holds(a) => busy[ws[a]]
  /\ \A a, b \in Actors : Holds(a) /\ Holds(b) /\ ws[a] = ws[b] => a = b
  /\ \A w \in Workspaces : wait[w] # <<>> => busy[w]

GateInv ==
  SchedTypeOK /\ NamedInv /\ QueueInv /\ HandedInv /\ HolderInv

\* The semaphore counts the actors between its two ends.
Inside == {a \in Actors : stage[a] = "in"}
SemInv == sem = Cardinality(Inside) /\ sem <= MaxActive

SchedInv == GateInv /\ SemInv

-----------------------------------------------------------------------------
\* Removing one element of a sequence moves those after it one place down.
LEMMA RemoveAtProperties ==
  ASSUME NEW S, NEW s \in Seq(S), NEW k \in 1..Len(s)
  PROVE  /\ RemoveAt(s, k) \in Seq(S)
         /\ Len(RemoveAt(s, k)) = Len(s) - 1
         /\ \A i \in 1..(Len(s) - 1) :
              RemoveAt(s, k)[i] = IF i < k THEN s[i] ELSE s[i + 1]
<1> DEFINE p == SubSeq(s, 1, k - 1)
           q == SubSeq(s, k + 1, Len(s))
<1>1. Len(s) \in Nat /\ \A i \in 1..Len(s) : s[i] \in S
  BY LenProperties, ElementOfSeq
<1>2. /\ p \in Seq(S) /\ Len(p) = k - 1
      /\ \A i \in 1..(k - 1) : p[i] = s[i]
  <2>1. \A i \in 1..(k - 1) : s[i] \in S
    BY <1>1
  <2> QED
    BY <1>1, <2>1, SubSeqProperties
<1>3. /\ q \in Seq(S) /\ Len(q) = Len(s) - k
      /\ \A i \in 1..(Len(s) - k) : q[i] = s[k + i]
  <2>1. \A i \in (k + 1)..Len(s) : s[i] \in S
    BY <1>1
  <2> QED
    BY <1>1, <2>1, SubSeqProperties
<1> HIDE DEF p, q
<1>4. /\ p \o q \in Seq(S) /\ Len(p \o q) = Len(s) - 1
      /\ \A i \in 1..(Len(s) - 1) :
           (p \o q)[i] = IF i <= k - 1 THEN p[i] ELSE q[i - (k - 1)]
  BY <1>1, <1>2, <1>3, ConcatProperties
<1>5. \A i \in 1..(Len(s) - 1) :
        (p \o q)[i] = IF i < k THEN s[i] ELSE s[i + 1]
  <2> SUFFICES ASSUME NEW i \in 1..(Len(s) - 1)
               PROVE  (p \o q)[i] = IF i < k THEN s[i] ELSE s[i + 1]
    OBVIOUS
  <2>1. i \in Int /\ k \in Int
    BY <1>1
  <2>2. ASSUME i < k PROVE (p \o q)[i] = s[i]
    BY <1>1, <1>2, <1>4, <2>2
  <2>3. ASSUME ~(i < k) PROVE (p \o q)[i] = s[i + 1]
    <3>1. i - (k - 1) \in 1..(Len(s) - k) /\ k + (i - (k - 1)) = i + 1
      BY <1>1, <2>3
    <3>2. ~(i <= k - 1)
      BY <2>1, <2>3
    <3>3. (p \o q)[i] = q[i - (k - 1)]
      BY <1>4, <3>2
    <3> QED
      BY <1>3, <3>1, <3>3
  <2> QED
    BY <2>2, <2>3
<1> QED
  BY <1>4, <1>5 DEF RemoveAt, p, q

-----------------------------------------------------------------------------
\* What a step does to the actors that it does not move.

\* The queue of a workspace, element by element.
LEMMA QueueElements ==
  ASSUME SchedTypeOK, NEW w \in Workspaces
  PROVE  /\ wait[w] \in Seq(Actors) /\ Len(wait[w]) \in Nat
         /\ \A i \in 1..Len(wait[w]) : wait[w][i] \in Actors
<1>1. wait[w] \in Seq(Actors)
  BY DEF SchedTypeOK
<1> QED
  BY <1>1, LenProperties, ElementOfSeq

\* The holder of a gate lets go of it: the first waiter becomes the only holder,
\* or the gate becomes free and nobody waits (WorkspaceGate.release).
LEMMA FreeGateKeeps ==
  ASSUME GateInv, NEW a \in Actors, stage[a] \in {"handback", "sem", "leave"},
         NEW t \in {"refused", "released"}, FreeGate(ws[a]),
         stage' = [stage EXCEPT ![a] = t], UNCHANGED <<sem, ws, cancelled>>
  PROVE  GateInv'
<1> DEFINE w == ws[a]
<1>1. /\ w \in Workspaces /\ a \notin handed /\ Holds(a) /\ busy[w]
      /\ \A b \in Actors : b # a => stage'[b] = stage[b]
      /\ stage'[a] = t
  BY DEF GateInv, SchedTypeOK, NamedInv, HandedInv, HolderInv, Calling, Waiting,
         Holds
<1>2. \A b \in Actors : ws[b] = w /\ Holds(b) => b = a
  BY <1>1 DEF GateInv, HolderInv
<1>3. NamedInv'
  BY <1>1 DEF GateInv, NamedInv, Calling
<1>4. CASE wait[w] = <<>>
  <2>1. /\ busy' = [busy EXCEPT ![w] = FALSE]
        /\ UNCHANGED <<wait, handed>>
    BY <1>4 DEF FreeGate
  <2>2. SchedTypeOK'
    BY <2>1, <1>1 DEF GateInv, SchedTypeOK, Stages
  <2>3. QueueInv'
    <3> SUFFICES ASSUME NEW v \in Workspaces, NEW i \in 1..Len(wait[v])
                 PROVE  stage'[wait[v][i]] = stage[wait[v][i]]
      BY <2>1 DEF GateInv, QueueInv
    <3> QED
      BY <1>1, QueueElements DEF GateInv, QueueInv, Waiting
  <2>4. HandedInv'
    BY <2>1, <1>1 DEF GateInv, HandedInv, SchedTypeOK
  <2>5. \A b \in Actors : Holds(b)' => b # a /\ Holds(b) /\ ws[b] # w
    BY <1>1, <1>2, <2>1 DEF Holds
  <2>6. HolderInv'
    BY <1>1, <1>4, <2>1, <2>5
       DEF GateInv, HolderInv, SchedTypeOK, NamedInv, Holds, Calling
  <2> QED
    BY <1>3, <2>2, <2>3, <2>4, <2>6 DEF GateInv
<1>5. CASE wait[w] # <<>>
  <2> DEFINE h == Head(wait[w])
  <2>1. /\ handed' = handed \cup {h}
        /\ wait' = [wait EXCEPT ![w] = Tail(@)]
        /\ busy' = busy
    BY <1>5 DEF FreeGate
  <2>2. /\ wait[w] \in Seq(Actors) /\ Len(wait[w]) \in Nat \ {0}
        /\ h = wait[w][1] /\ h \in Actors
        /\ Tail(wait[w]) \in Seq(Actors)
        /\ Len(Tail(wait[w])) = Len(wait[w]) - 1
        /\ \A i \in 1..(Len(wait[w]) - 1) : Tail(wait[w])[i] = wait[w][i + 1]
    <3>1. wait[w] \in Seq(Actors)
      BY <1>1 DEF GateInv, SchedTypeOK
    <3> QED
      BY <3>1, <1>5, HeadTailProperties, EmptySeq
  <2>3. /\ stage[h] \in Waiting /\ ws[h] = w /\ h \notin handed /\ h # a
    BY <1>1, <2>2 DEF GateInv, QueueInv, Waiting
  <2>4. SchedTypeOK'
    BY <1>1, <2>1, <2>2 DEF GateInv, SchedTypeOK, Stages
  <2>5. \A v \in Workspaces : \A i \in 1..Len(wait'[v]) :
          \E j \in 1..Len(wait[v]) :
            /\ wait'[v][i] = wait[v][j]
            /\ j = IF v = w THEN i + 1 ELSE i
    BY <1>1, <2>1, <2>2, QueueElements DEF GateInv, SchedTypeOK
  <2>6. QueueInv'
    <3>1. ASSUME NEW v \in Workspaces, NEW i \in 1..Len(wait'[v])
          PROVE  LET b == wait'[v][i]
                 IN stage'[b] \in Waiting /\ ws'[b] = v /\ b \notin handed'
      <4>1. PICK j \in 1..Len(wait[v]) :
              /\ wait'[v][i] = wait[v][j]
              /\ j = IF v = w THEN i + 1 ELSE i
        BY <2>5
      <4>2. /\ wait[v][j] \in Actors /\ stage[wait[v][j]] \in Waiting
            /\ ws[wait[v][j]] = v /\ wait[v][j] \notin handed
        BY QueueElements DEF GateInv, QueueInv
      <4>3. wait[v][j] # h
        <5>1. CASE v = w
          <6>1. j # 1 /\ 1 \in 1..Len(wait[w])
            BY <4>1, <5>1, <2>2
          <6> QED
            BY <5>1, <6>1, <2>2, <1>1 DEF GateInv, QueueInv
        <5>2. CASE v # w
          BY <5>2, <4>2, <2>3
        <5> QED
          BY <5>1, <5>2
      <4> QED
        BY <1>1, <2>1, <4>1, <4>2, <4>3 DEF Waiting
    <3>2. ASSUME NEW v \in Workspaces,
                 NEW i \in 1..Len(wait'[v]), NEW k \in 1..Len(wait'[v]),
                 wait'[v][i] = wait'[v][k]
          PROVE  i = k
      BY <2>5, <3>2 DEF GateInv, QueueInv
    <3> QED
      BY <3>1, <3>2 DEF QueueInv
  <2>7. HandedInv'
    BY <1>1, <2>1, <2>3 DEF GateInv, HandedInv, SchedTypeOK
  <2>8. \A b \in Actors : Holds(b)' => b = h \/ (b # a /\ Holds(b) /\ ws[b] # w)
    BY <1>1, <1>2, <2>1 DEF Holds
  <2>9. HolderInv'
    <3>1. \A v \in Workspaces : wait'[v] # <<>> => busy'[v]
      BY <1>1, <2>1 DEF GateInv, HolderInv, SchedTypeOK
    <3>2. \A b \in Actors : Holds(b)' => busy'[ws'[b]]
      BY <1>1, <2>1, <2>3, <2>8 DEF GateInv, HolderInv
    <3>3. \A b, c \in Actors : Holds(b)' /\ Holds(c)' /\ ws'[b] = ws'[c] => b = c
      BY <2>3, <2>8 DEF GateInv, HolderInv
    <3> QED
      BY <3>1, <3>2, <3>3 DEF HolderInv, Holds
  <2> QED
    BY <1>3, <2>4, <2>6, <2>7, <2>9 DEF GateInv
<1> QED
  BY <1>4, <1>5

\* A caller that takes a free gate, or queues behind its holder.
LEMMA EnterGateKeeps ==
  ASSUME GateInv, NEW a \in Actors, NEW w \in Workspaces, EnterGate(a, w)
  PROVE  GateInv'
<1>1. /\ stage[a] = "out" /\ a \notin handed /\ ~Holds(a)
      /\ ws' = [ws EXCEPT ![a] = w] /\ ws'[a] = w
      /\ \A b \in Actors : b # a => stage'[b] = stage[b] /\ ws'[b] = ws[b]
      /\ UNCHANGED <<handed, sem, cancelled>>
  BY DEF EnterGate, GateInv, SchedTypeOK, HandedInv, Waiting, Holds
<1>2. \A v \in Workspaces : \A i \in 1..Len(wait[v]) : wait[v][i] # a
  BY <1>1 DEF GateInv, QueueInv, Waiting
<1>3. CASE ~busy[w]
  <2>1. /\ busy' = [busy EXCEPT ![w] = TRUE]
        /\ stage' = [stage EXCEPT ![a] = "sem"]
        /\ wait' = wait
    BY <1>3 DEF EnterGate
  <2>2. SchedTypeOK'
    BY <1>1, <2>1 DEF GateInv, SchedTypeOK, Stages
  <2>3. NamedInv'
    BY <1>1, <2>1 DEF GateInv, NamedInv, SchedTypeOK
  <2>4. QueueInv'
    <3> SUFFICES ASSUME NEW v \in Workspaces, NEW i \in 1..Len(wait[v])
                 PROVE  /\ stage'[wait[v][i]] = stage[wait[v][i]]
                        /\ ws'[wait[v][i]] = ws[wait[v][i]]
      BY <1>1, <2>1 DEF GateInv, QueueInv
    <3> QED
      BY <1>1, <1>2, QueueElements DEF GateInv
  <2>5. HandedInv'
    BY <1>1, <2>1 DEF GateInv, HandedInv, SchedTypeOK
  <2>6. \A b \in Actors : Holds(b)' => b = a \/ (b # a /\ Holds(b) /\ ws[b] # w)
    BY <1>1, <1>3 DEF Holds, GateInv, HolderInv
  <2>7. HolderInv'
    <3>1. \A b \in Actors : Holds(b)' => busy'[ws'[b]]
      BY <1>1, <2>1, <2>6
         DEF GateInv, HolderInv, SchedTypeOK, NamedInv, Holds, Calling
    <3>2. \A b, c \in Actors : Holds(b)' /\ Holds(c)' /\ ws'[b] = ws'[c] => b = c
      BY <1>1, <2>6 DEF GateInv, HolderInv
    <3>3. \A v \in Workspaces : wait'[v] # <<>> => busy'[v]
      BY <2>1 DEF GateInv, HolderInv, SchedTypeOK
    <3> QED
      BY <3>1, <3>2, <3>3 DEF HolderInv, Holds
  <2> QED
    BY <2>2, <2>3, <2>4, <2>5, <2>7 DEF GateInv
<1>4. CASE busy[w]
  <2>1. /\ wait' = [wait EXCEPT ![w] = Append(@, a)]
        /\ stage' = [stage EXCEPT ![a] = "gate"]
        /\ busy' = busy
    BY <1>4 DEF EnterGate
  <2>2. /\ wait[w] \in Seq(Actors) /\ Len(wait[w]) \in Nat
        /\ Append(wait[w], a) \in Seq(Actors)
        /\ Len(Append(wait[w], a)) = Len(wait[w]) + 1
        /\ \A i \in 1..Len(wait[w]) : Append(wait[w], a)[i] = wait[w][i]
        /\ Append(wait[w], a)[Len(wait[w]) + 1] = a
    <3>1. wait[w] \in Seq(Actors)
      BY DEF GateInv, SchedTypeOK
    <3> QED
      BY <3>1, AppendProperties, LenProperties
  <2>3. SchedTypeOK'
    BY <1>1, <2>1, <2>2 DEF GateInv, SchedTypeOK, Stages
  <2>4. NamedInv'
    BY <1>1, <2>1 DEF GateInv, NamedInv, SchedTypeOK
  <2>5. \A v \in Workspaces : \A i \in 1..Len(wait'[v]) :
          \/ i \in 1..Len(wait[v]) /\ wait'[v][i] = wait[v][i]
          \/ v = w /\ i = Len(wait[v]) + 1 /\ wait'[v][i] = a
    BY <2>1, <2>2 DEF GateInv, SchedTypeOK
  <2>6. QueueInv'
    <3>1. ASSUME NEW v \in Workspaces, NEW i \in 1..Len(wait'[v])
          PROVE  LET b == wait'[v][i]
                 IN stage'[b] \in Waiting /\ ws'[b] = v /\ b \notin handed'
      <4>1. CASE i \in 1..Len(wait[v]) /\ wait'[v][i] = wait[v][i]
        <5>1. /\ wait[v][i] \in Actors /\ wait[v][i] # a
              /\ stage[wait[v][i]] \in Waiting /\ ws[wait[v][i]] = v
              /\ wait[v][i] \notin handed
          BY <4>1, <1>2, QueueElements DEF GateInv, QueueInv
        <5> QED
          BY <4>1, <5>1, <1>1
      <4>2. CASE v = w /\ wait'[v][i] = a
        BY <4>2, <1>1, <2>1 DEF Waiting, GateInv, SchedTypeOK
      <4> QED
        BY <2>5, <4>1, <4>2
    <3>2. ASSUME NEW v \in Workspaces,
                 NEW i \in 1..Len(wait'[v]), NEW k \in 1..Len(wait'[v]),
                 wait'[v][i] = wait'[v][k]
          PROVE  i = k
      BY <1>2, <2>5, <3>2 DEF GateInv, QueueInv
    <3> QED
      BY <3>1, <3>2 DEF QueueInv
  <2>7. HandedInv'
    BY <1>1, <2>1 DEF GateInv, HandedInv, SchedTypeOK
  <2>8. \A b \in Actors : Holds(b)' => b # a /\ Holds(b)
    BY <1>1, <2>1 DEF Holds, GateInv, SchedTypeOK
  <2>9. HolderInv'
    <3>1. \A v \in Workspaces : wait'[v] # <<>> => busy'[v]
      BY <1>4, <2>1 DEF GateInv, HolderInv, SchedTypeOK
    <3> QED
      BY <1>1, <2>1, <2>8, <3>1 DEF GateInv, HolderInv, Holds
  <2> QED
    BY <2>3, <2>4, <2>6, <2>7, <2>9 DEF GateInv
<1> QED
  BY <1>3, <1>4

\* The steps that neither queue nor dequeue anybody and after which nobody new
\* holds a gate keep the invariant.
LEMMA QuietKeeps ==
  ASSUME GateInv, SchedTypeOK', NamedInv', HandedInv',
         UNCHANGED <<busy, wait>>, handed' \subseteq handed,
         \A b \in Actors : stage[b] \in Waiting /\ b \notin handed =>
           stage'[b] \in Waiting /\ ws'[b] = ws[b],
         \A b \in Actors : Holds(b)' => Holds(b) /\ ws'[b] = ws[b]
  PROVE  GateInv'
<1>1. QueueInv'
  <2> SUFFICES ASSUME NEW v \in Workspaces, NEW i \in 1..Len(wait[v])
               PROVE  /\ stage'[wait[v][i]] \in Waiting
                      /\ ws'[wait[v][i]] = v
                      /\ wait[v][i] \notin handed'
    BY DEF GateInv, QueueInv
  <2>1. /\ wait[v][i] \in Actors /\ stage[wait[v][i]] \in Waiting
        /\ ws[wait[v][i]] = v /\ wait[v][i] \notin handed
    BY QueueElements DEF GateInv, QueueInv
  <2> QED
    BY <2>1
<1>2. HolderInv'
  BY DEF GateInv, HolderInv, Holds
<1> QED
  BY <1>1, <1>2 DEF GateInv

\* A waiter that no longer waits leaves the queue, if it still stands there,
\* and with it a gate it has just been handed.
LEMMA LeaveQueueKeeps ==
  ASSUME GateInv, NEW a \in Actors, LeaveQueue(a)
  PROVE  GateInv'
<1> DEFINE w == ws[a]
<1>1. /\ w \in Workspaces /\ stage[a] = "remove"
      /\ stage' = [stage EXCEPT ![a] = "refused"] /\ stage'[a] = "refused"
      /\ handed' = handed \ {a}
      /\ UNCHANGED <<busy, sem, ws, cancelled>>
      /\ \A b \in Actors : b # a => stage'[b] = stage[b]
  BY DEF LeaveQueue, GateInv, SchedTypeOK, NamedInv, Calling
<1>2. NamedInv' /\ HandedInv'
  BY <1>1 DEF GateInv, NamedInv, HandedInv, SchedTypeOK, Calling
<1>3. \A b \in Actors : Holds(b)' => Holds(b) /\ b # a
  BY <1>1 DEF Holds
<1>4. CASE wait' = wait /\ ~Contains(wait[w], a)
  <2>1. SchedTypeOK'
    BY <1>1, <1>4 DEF GateInv, SchedTypeOK, Stages
  <2>2. QueueInv'
    <3> SUFFICES ASSUME NEW v \in Workspaces, NEW i \in 1..Len(wait[v])
                 PROVE  wait[v][i] # a
      BY <1>1, <1>4, QueueElements DEF GateInv, QueueInv
    <3>1. wait[v][i] = a => v = w /\ Contains(wait[w], a)
      BY DEF GateInv, QueueInv, Contains
    <3> QED
      BY <1>4, <3>1
  <2>3. HolderInv'
    BY <1>1, <1>3, <1>4 DEF GateInv, HolderInv, Holds
  <2> QED
    BY <1>2, <2>1, <2>2, <2>3 DEF GateInv
<1>5. ASSUME NEW k \in 1..Len(wait[w]), wait[w][k] = a,
             wait' = [wait EXCEPT ![w] = RemoveAt(@, k)]
      PROVE  GateInv'
  <2> DEFINE q == RemoveAt(wait[w], k)
  <2>1. wait[w] \in Seq(Actors) /\ Len(wait[w]) \in Nat
    BY <1>1, QueueElements DEF GateInv
  <2>2. /\ q \in Seq(Actors) /\ Len(q) = Len(wait[w]) - 1
        /\ \A i \in 1..(Len(wait[w]) - 1) :
             q[i] = IF i < k THEN wait[w][i] ELSE wait[w][i + 1]
    BY <2>1, RemoveAtProperties
  <2>3. /\ wait'[w] = q
        /\ \A v \in Workspaces : v # w => wait'[v] = wait[v]
        /\ wait' \in [Workspaces -> Seq(Actors)]
    BY <1>1, <1>5, <2>2 DEF GateInv, SchedTypeOK
  <2> HIDE DEF q
  <2>4. SchedTypeOK'
    BY <1>1, <2>3 DEF GateInv, SchedTypeOK, Stages
  <2>5. \A v \in Workspaces : \A i \in 1..Len(wait'[v]) :
          \E j \in 1..Len(wait[v]) :
            /\ wait'[v][i] = wait[v][j]
            /\ j = IF v = w /\ i >= k THEN i + 1 ELSE i
            /\ v = w => j # k
    <3> SUFFICES ASSUME NEW v \in Workspaces, NEW i \in 1..Len(wait'[v])
                 PROVE  \E j \in 1..Len(wait[v]) :
                          /\ wait'[v][i] = wait[v][j]
                          /\ j = IF v = w /\ i >= k THEN i + 1 ELSE i
                          /\ v = w => j # k
      OBVIOUS
    <3>1. CASE v # w
      BY <3>1, <2>3
    <3>2. CASE v = w /\ i < k
      <4>1. i \in 1..(Len(wait[w]) - 1) /\ i \in 1..Len(wait[w]) /\ i # k
            /\ ~(i >= k)
        BY <3>2, <2>1, <2>2, <2>3
      <4> QED
        BY <3>2, <4>1, <2>2, <2>3
    <3>3. CASE v = w /\ ~(i < k)
      <4>1. /\ i \in 1..(Len(wait[w]) - 1) /\ i + 1 \in 1..Len(wait[w])
            /\ i + 1 # k /\ i >= k
        BY <3>3, <2>1, <2>2, <2>3
      <4> QED
        BY <3>3, <4>1, <2>2, <2>3
    <3> QED
      BY <3>1, <3>2, <3>3
  <2>6. QueueInv'
    <3>1. ASSUME NEW v \in Workspaces, NEW i \in 1..Len(wait'[v])
          PROVE  LET b == wait'[v][i]
                 IN stage'[b] \in Waiting /\ ws'[b] = v /\ b \notin handed'
      <4>1. PICK j \in 1..Len(wait[v]) :
              wait'[v][i] = wait[v][j] /\ (v = w => j # k)
        BY <2>5
      <4>2. /\ wait[v][j] \in Actors /\ stage[wait[v][j]] \in Waiting
            /\ ws[wait[v][j]] = v /\ wait[v][j] \notin handed
        BY QueueElements DEF GateInv, QueueInv
      <4>3. wait[v][j] # a
        BY <1>1, <1>5, <4>1, <4>2 DEF GateInv, QueueInv
      <4> QED
        BY <1>1, <4>1, <4>2, <4>3
    <3>2. ASSUME NEW v \in Workspaces,
                 NEW i \in 1..Len(wait'[v]), NEW l \in 1..Len(wait'[v]),
                 wait'[v][i] = wait'[v][l]
          PROVE  i = l
      <4>1. PICK j \in 1..Len(wait[v]) :
              /\ wait'[v][i] = wait[v][j]
              /\ j = IF v = w /\ i >= k THEN i + 1 ELSE i
        BY <2>5
      <4>2. PICK m \in 1..Len(wait[v]) :
              /\ wait'[v][l] = wait[v][m]
              /\ m = IF v = w /\ l >= k THEN l + 1 ELSE l
        BY <2>5
      <4>3. j = m
        <5>1. wait[v][j] = wait[v][m]
          BY <3>2, <4>1, <4>2
        <5> QED
          BY <5>1 DEF GateInv, QueueInv
      <4> QED
        BY <4>1, <4>2, <4>3
    <3> QED
      BY <3>1, <3>2 DEF QueueInv
  <2>7. HolderInv'
    <3>1. \A v \in Workspaces : wait'[v] # <<>> => busy'[v]
      <4> SUFFICES ASSUME NEW v \in Workspaces, wait'[v] # <<>>
                   PROVE  busy[v]
        BY <1>1
      <4>1. CASE v # w
        BY <4>1, <2>3 DEF GateInv, HolderInv
      <4>2. CASE v = w
        <5>1. wait[w] # <<>>
          BY <1>5, <2>1
        <5> QED
          BY <4>2, <5>1, <1>1 DEF GateInv, HolderInv
      <4> QED
        BY <4>1, <4>2
    <3> QED
      BY <1>1, <1>3, <3>1 DEF GateInv, HolderInv, Holds
  <2> QED
    BY <1>2, <2>4, <2>6, <2>7 DEF GateInv
<1> QED
  BY <1>4, <1>5 DEF LeaveQueue

\* The actors inside the semaphore are finitely many.
LEMMA InsideCount ==
  /\ IsFiniteSet(Inside)
  /\ Cardinality(Inside) \in Nat
  /\ \A a \in Actors : stage[a] = "in" => Cardinality(Inside) # 0
<1>1. IsFiniteSet(Inside) /\ Cardinality(Inside) \in Nat
  BY SchedulerAssumption, FS_Subset, FS_CardinalityType DEF Inside
<1>2. \A a \in Actors : stage[a] = "in" => Inside # {}
  BY DEF Inside
<1> QED
  BY <1>1, <1>2, FS_EmptySet

-----------------------------------------------------------------------------
(* The invariant holds always                                              *)

LEMMA GateInit == SchedInit => GateInv
<1> SUFFICES ASSUME SchedInit PROVE GateInv
  OBVIOUS
<1>1. SchedTypeOK
  BY DEF SchedInit, SchedTypeOK, Stages
<1> QED
  BY <1>1 DEF SchedInit, GateInv, NamedInv, QueueInv, HandedInv, HolderInv,
              Holds, Calling, Waiting

LEMMA GateStep == SchedInv /\ [SchedNext]_schedVars => GateInv'
<1> SUFFICES ASSUME GateInv, SemInv, [SchedNext]_schedVars PROVE GateInv'
  BY DEF SchedInv
<1> USE DEF GateInv
<1>1. ASSUME NEW a \in Actors, NEW w \in Workspaces, EnterGate(a, w)
      PROVE  GateInv'
  BY <1>1, EnterGateKeeps
<1>2. ASSUME NEW a \in Actors, TakeHandover(a) PROVE GateInv'
  <2>1. SchedTypeOK'
    BY <1>2 DEF TakeHandover, SchedTypeOK, Stages
  <2>2. NamedInv' /\ HandedInv'
    BY <1>2 DEF TakeHandover, NamedInv, HandedInv, SchedTypeOK, Calling
  <2> QED
    BY <1>2, <2>1, <2>2, QuietKeeps
       DEF TakeHandover, SchedTypeOK, Waiting, Holds
<1>3. ASSUME NEW a \in Actors, AbandonWait(a) PROVE GateInv'
  <2>1. SchedTypeOK'
    BY <1>3 DEF AbandonWait, SchedTypeOK, Stages
  <2>2. NamedInv' /\ HandedInv'
    BY <1>3 DEF AbandonWait, NamedInv, HandedInv, SchedTypeOK, Calling, Waiting
  <2>3. CASE a \in handed
    BY <1>3, <2>1, <2>2, <2>3, QuietKeeps
       DEF AbandonWait, SchedTypeOK, Waiting, Holds
  <2>4. CASE a \notin handed
    BY <1>3, <2>1, <2>2, <2>4, QuietKeeps
       DEF AbandonWait, SchedTypeOK, Waiting, Holds
  <2> QED
    BY <2>3, <2>4
<1>4. ASSUME NEW a \in Actors, HandBack(a) PROVE GateInv'
  BY <1>4, FreeGateKeeps DEF HandBack
<1>5. ASSUME NEW a \in Actors, LeaveQueue(a) PROVE GateInv'
  BY <1>5, LeaveQueueKeeps
<1>6. ASSUME NEW a \in Actors, EnterSem(a) PROVE GateInv'
  <2>1. SchedTypeOK'
    BY <1>6 DEF EnterSem, SchedTypeOK, Stages
  <2>2. NamedInv' /\ HandedInv'
    BY <1>6 DEF EnterSem, NamedInv, HandedInv, SchedTypeOK, Calling, Waiting
  <2> QED
    BY <1>6, <2>1, <2>2, QuietKeeps DEF EnterSem, SchedTypeOK, Waiting, Holds
<1>7. ASSUME NEW a \in Actors, AbandonSem(a) PROVE GateInv'
  BY <1>7, FreeGateKeeps DEF AbandonSem
<1>8. ASSUME NEW a \in Actors, LeaveSem(a) PROVE GateInv'
  <2>1. SchedTypeOK'
    <3>1. sem \in Nat \ {0}
      BY <1>8, InsideCount DEF LeaveSem, SemInv
    <3> QED
      BY <1>8, <3>1 DEF LeaveSem, SchedTypeOK, Stages
  <2>2. NamedInv' /\ HandedInv'
    BY <1>8 DEF LeaveSem, NamedInv, HandedInv, SchedTypeOK, Calling, Waiting
  <2> QED
    BY <1>8, <2>1, <2>2, QuietKeeps DEF LeaveSem, SchedTypeOK, Waiting, Holds
<1>9. ASSUME NEW a \in Actors, LeaveGate(a) PROVE GateInv'
  BY <1>9, FreeGateKeeps DEF LeaveGate
<1>10. ASSUME NEW a \in Actors, Return(a) PROVE GateInv'
  <2>1. SchedTypeOK'
    BY <1>10 DEF Return, SchedTypeOK, Stages
  <2>2. NamedInv' /\ HandedInv'
    BY <1>10 DEF Return, NamedInv, HandedInv, SchedTypeOK, Calling, Waiting
  <2> QED
    BY <1>10, <2>1, <2>2, QuietKeeps DEF Return, SchedTypeOK, Waiting, Holds
<1>11. ASSUME NEW S \in SUBSET Actors, CancelContexts(S) PROVE GateInv'
  BY <1>11
     DEF CancelContexts, SchedTypeOK, NamedInv, QueueInv, HandedInv, HolderInv,
         Holds
<1>12. CASE NewScheduler
  <2>1. SchedTypeOK'
    BY <1>12 DEF NewScheduler, SchedTypeOK, Stages
  <2> QED
    BY <1>12, <2>1
       DEF NewScheduler, NamedInv, QueueInv, HandedInv, HolderInv, Holds,
           Calling, Waiting
<1>13. CASE UNCHANGED schedVars
  BY <1>13
     DEF schedVars, SchedTypeOK, NamedInv, QueueInv, HandedInv, HolderInv,
         Holds
<1> QED
  BY <1>1, <1>2, <1>3, <1>4, <1>5, <1>6, <1>7, <1>8, <1>9, <1>10, <1>11,
     <1>12, <1>13
     DEF SchedNext, ActorStep

LEMMA SemInit == SchedInit => SemInv
<1> SUFFICES ASSUME SchedInit PROVE SemInv
  OBVIOUS
<1>1. Inside = {}
  BY DEF SchedInit, Inside
<1> QED
  BY <1>1, FS_EmptySet, SchedulerAssumption DEF SchedInit, SemInv

LEMMA SemStep == SchedInv /\ [SchedNext]_schedVars => SemInv'
<1> SUFFICES ASSUME GateInv, SemInv, [SchedNext]_schedVars PROVE SemInv'
  BY DEF SchedInv
<1> USE DEF GateInv
<1>1. ASSUME NEW a \in Actors, EnterSem(a) PROVE SemInv'
  <2>1. Inside' = Inside \cup {a} /\ a \notin Inside
    BY <1>1 DEF EnterSem, Inside, SchedTypeOK
  <2>2. Cardinality(Inside') = Cardinality(Inside) + 1
    BY <2>1, InsideCount, FS_AddElement
  <2> QED
    BY <1>1, <2>2, SchedulerAssumption, InsideCount
       DEF EnterSem, SemHasRoom, SemInv
<1>2. ASSUME NEW a \in Actors, LeaveSem(a) PROVE SemInv'
  <2>1. Inside' = Inside \ {a} /\ a \in Inside
    BY <1>2 DEF LeaveSem, Inside, SchedTypeOK
  <2>2. Cardinality(Inside') = Cardinality(Inside) - 1
    BY <2>1, InsideCount, FS_RemoveElement
  <2> QED
    BY <1>2, <2>2, SchedulerAssumption, InsideCount DEF LeaveSem, SemInv
<1>3. CASE NewScheduler
  <2>1. Inside' = {}
    BY <1>3 DEF NewScheduler, Inside
  <2> QED
    BY <1>3, <2>1, FS_EmptySet, SchedulerAssumption DEF NewScheduler, SemInv
<1>4. ASSUME NEW a \in Actors,
             \/ \E w \in Workspaces : EnterGate(a, w)
             \/ TakeHandover(a) \/ AbandonWait(a) \/ HandBack(a)
             \/ LeaveQueue(a) \/ AbandonSem(a) \/ LeaveGate(a) \/ Return(a)
      PROVE  SemInv'
  <2>1. /\ sem' = sem
        /\ stage[a] # "in"
        /\ \E t \in Stages \ {"in"} : stage' = [stage EXCEPT ![a] = t]
    BY <1>4
       DEF EnterGate, TakeHandover, AbandonWait, HandBack, LeaveQueue,
           AbandonSem, LeaveGate, Return, Stages
  <2>2. Inside' = Inside
    BY <2>1 DEF Inside, SchedTypeOK
  <2> QED
    BY <2>1, <2>2 DEF SemInv
<1>5. ASSUME \/ \E S \in SUBSET Actors : CancelContexts(S)
             \/ UNCHANGED schedVars
      PROVE  SemInv'
  BY <1>5 DEF CancelContexts, schedVars, SemInv, Inside
<1> QED
  BY <1>1, <1>2, <1>3, <1>4, <1>5 DEF SchedNext, ActorStep

\* The invariant of the scheduler, kept by every step of it.
LEMMA SchedInvStep == SchedInv /\ [SchedNext]_schedVars => SchedInv'
BY GateStep, SemStep DEF SchedInv

LEMMA SchedInvInit == SchedInit => SchedInv
BY GateInit, SemInit DEF SchedInv

\* What the invariant says: turns of a workspace exclude each other, and at most
\* MaxActive of them run.
LEMMA SchedInvImplies ==
  SchedInv => SchedTypeOK /\ MutualExclusion /\ ActiveCap
BY DEF SchedInv, GateInv, SemInv, HolderInv, Holds, MutualExclusion, ActiveCap,
       Inside

-----------------------------------------------------------------------------
(* Theorems                                                                *)

\* The variables of the scheduler keep their types; in particular the counter
\* of the semaphore never goes below zero (Scheduler.Release).
THEOREM SchedTypeCorrect == SchedSpec => []SchedTypeOK
<1>1. SchedSpec => []SchedInv
  BY SchedInvInit, SchedInvStep, PTL DEF SchedSpec
<1> QED
  BY <1>1, SchedInvImplies, PTL

\* No two actors are past the gate of one workspace, for any number of actors,
\* any order of hand-overs and any cancellations (WorkspaceGate).
THEOREM WorkspaceExclusion == SchedSpec => []MutualExclusion
<1>1. SchedSpec => []SchedInv
  BY SchedInvInit, SchedInvStep, PTL DEF SchedSpec
<1> QED
  BY <1>1, SchedInvImplies, PTL

\* At most MaxActive turns run at once, for every MaxActive (Scheduler.sem).
THEOREM ActiveTurnsBounded == SchedSpec => []ActiveCap
<1>1. SchedSpec => []SchedInv
  BY SchedInvInit, SchedInvStep, PTL DEF SchedSpec
<1> QED
  BY <1>1, SchedInvImplies, PTL

-----------------------------------------------------------------------------
\* An actor whose goroutine has been started has a workspace (Router.Actor
\* resolves it first), so that process calls Acquire with one.
HomeInv ==
  /\ home \in [Actors -> Workspaces \cup {None}]
  /\ at \in [Actors -> Places]
  /\ \A a \in Actors : at[a] # "off" => home[a] \in Workspaces

\* No actor runs at first.
LEMMA HomeInit == Init => HomeInv
BY DEF Init, HomeInv, Places

\* The step of Router.Actor that starts an actor.
LEMMA ActorStartsKeeps ==
  ASSUME HomeInv, NEW a, ActorStarts(a)
  PROVE  HomeInv'
<1>1. CASE a \in Actors
  <2>1. PICK w \in Workspaces : home' = [home EXCEPT ![a] = w]
    BY <1>1, GatewayAssumption DEF ActorStarts
  <2>2. at' = [at EXCEPT ![a] = "select"]
    BY DEF ActorStarts
  <2> QED
    BY <1>1, <2>1, <2>2 DEF HomeInv, Places
<1>2. CASE a \notin Actors
  BY <1>2 DEF HomeInv, ActorStarts
<1> QED
  BY <1>1, <1>2

\* A step of an actor's goroutine after its start, which moves it elsewhere.
LEMMA MoveKeeps ==
  ASSUME HomeInv, NEW a \in Actors, at[a] # "off",
         NEW p \in Places, at' = [at EXCEPT ![a] = p], home' = home
  PROVE  HomeInv'
BY DEF HomeInv

LEMMA HomeStep == HomeInv /\ [Next]_vars => HomeInv'
<1> SUFFICES ASSUME HomeInv, [Next]_vars PROVE HomeInv'
  OBVIOUS
<1>1. ASSUME UNCHANGED <<home, at>> PROVE HomeInv'
  BY <1>1 DEF HomeInv
<1>2. CASE StartStep
  <2>1. CASE ResumeRoutes
    BY <2>1, ActorStartsKeeps DEF ResumeRoutes
  <2> QED
    BY <1>1, <1>2, <2>1
       DEF StartStep, StartBegins, StartRoutes, StartReplays, ResumePosts,
           StartEnds, actorVars
<1>3. ASSUME NEW s \in Submitters, SubmitStep(s) PROVE HomeInv'
  <2>1. CASE SubmitRoutes(s)
    <3>1. UNCHANGED actorVars \/ ActorStarts(ChatOf[sub[s].msg])
      BY <2>1 DEF SubmitRoutes
    <3> QED
      BY <1>1, <3>1, ActorStartsKeeps DEF actorVars
  <2> QED
    BY <1>1, <1>3, <2>1
       DEF SubmitStep, SubmitAppends, SubmitBounces, SubmitPosts,
           SubmitEndsTurn, SubmitCancels, actorVars
<1>4. ASSUME NEW a \in Actors, TurnStep(a) PROVE HomeInv'
  <2>1. CASE TakeMessage(a)
    <3>1. at' = [at EXCEPT ![a] = "drain"] \/ at' = [at EXCEPT ![a] = "acquire"]
      BY <2>1 DEF TakeMessage
    <3> QED
      BY <2>1, <3>1, MoveKeeps DEF TakeMessage, Places
  <2>2. CASE TurnStarts(a)
    <3>1. at' = [at EXCEPT ![a] = "marked"] \/ at' = [at EXCEPT ![a] = "leaving"]
      BY <2>2 DEF TurnStarts
    <3> QED
      BY <2>2, <3>1, MoveKeeps DEF TurnStarts, Places
  <2>3. CASE \/ SeeDone(a) \/ ActorExits(a) \/ TurnRefused(a) \/ Run(a)
             \/ TurnOutcome(a) \/ TurnEnds(a)
    <3>1. /\ home' = home
          /\ at[a] # "off"
          /\ \E p \in Places : at' = [at EXCEPT ![a] = p]
      BY <2>3
         DEF SeeDone, ActorExits, TurnRefused, Run, TurnOutcome, TurnEnds,
             Places
    <3> QED
      BY <3>1, MoveKeeps
  <2>4. CASE CancelMessage(a) \/ Acquires(a) \/ Releases(a)
    BY <1>1, <2>4 DEF CancelMessage, Acquires, Releases, actorVars
  <2> QED
    BY <1>4, <2>1, <2>2, <2>3, <2>4 DEF TurnStep
<1>5. CASE ShutdownStep
  BY <1>1, <1>5
     DEF ShutdownStep, ShutdownBegins, StopActor, ShutdownEnds, actorVars
<1>6. CASE Environment
  <2>1. CASE NewLife
    BY <2>1 DEF NewLife, HomeInv, Places
  <2> QED
    BY <1>1, <1>6, <2>1
       DEF Environment, SubmitAdmits, CancelTurn, StopSignal, actorVars
<1>7. CASE UNCHANGED vars
  BY <1>1, <1>7 DEF vars, actorVars
<1> QED
  BY <1>2, <1>3, <1>4, <1>5, <1>6, <1>7 DEF Next

-----------------------------------------------------------------------------
\* Each step of the gateway is a step of the scheduler, or does not touch it.
LEMMA GatewayStepsScheduler ==
  HomeInv /\ [Next]_vars => [SchedNext]_schedVars
<1> SUFFICES ASSUME HomeInv, [Next]_vars PROVE [SchedNext]_schedVars
  OBVIOUS
<1>1. CASE StartStep
  BY <1>1
     DEF StartStep, StartBegins, StartRoutes, StartReplays, ResumeRoutes,
         ResumePosts, StartEnds
<1>2. ASSUME NEW s \in Submitters, SubmitStep(s) PROVE UNCHANGED schedVars
  BY <1>2
     DEF SubmitStep, SubmitAppends, SubmitBounces, SubmitRoutes, SubmitPosts,
         SubmitEndsTurn, SubmitCancels
<1>3. ASSUME NEW a \in Actors, TurnStep(a) PROVE [SchedNext]_schedVars
  <2>1. CASE Acquires(a)
    <3>1. home[a] \in Workspaces
      BY <2>1 DEF Acquires, HomeInv
    <3>2. ActorStep(a)
      BY <2>1, <3>1 DEF Acquires, ActorStep
    <3> QED
      BY <3>2 DEF SchedNext
  <2>2. CASE Releases(a) \/ TurnEnds(a)
    <3>1. ActorStep(a)
      BY <2>2 DEF Releases, TurnEnds, ActorStep
    <3> QED
      BY <3>1 DEF SchedNext
  <2>3. CASE \/ TakeMessage(a) \/ SeeDone(a) \/ CancelMessage(a)
             \/ ActorExits(a) \/ TurnRefused(a) \/ TurnStarts(a) \/ Run(a)
             \/ TurnOutcome(a)
    BY <2>3
       DEF TakeMessage, SeeDone, CancelMessage, ActorExits, TurnRefused,
           TurnStarts, Run, TurnOutcome
  <2> QED
    BY <1>3, <2>1, <2>2, <2>3 DEF TurnStep
<1>4. CASE ShutdownStep
  BY <1>4 DEF ShutdownStep, ShutdownBegins, StopActor, ShutdownEnds
<1>5. CASE Environment
  <2>1. CASE NewLife
    BY <2>1 DEF NewLife, SchedNext
  <2>2. CASE StopSignal \/ \E a \in Actors : CancelTurn(a)
    <3>1. \E S \in SUBSET Actors : CancelContexts(S)
      BY <2>2 DEF StopSignal, CancelTurn
    <3> QED
      BY <3>1 DEF SchedNext
  <2>3. CASE \E s \in Submitters, m \in Msgs : SubmitAdmits(s, m)
    BY <2>3 DEF SubmitAdmits
  <2> QED
    BY <1>5, <2>1, <2>2, <2>3 DEF Environment
<1>6. CASE UNCHANGED vars
  BY <1>6 DEF vars
<1> QED
  BY <1>1, <1>2, <1>3, <1>4, <1>5, <1>6 DEF Next

-----------------------------------------------------------------------------
(* Theorems                                                                *)

\* The gateway uses its scheduler as WorkspaceScheduler says (Actor.process
\* calls Acquire and Release in pairs, with the workspace of its chat).
THEOREM GatewayImplementsScheduler == Spec => SchedSpec
<1>1. Init => SchedInit
  BY DEF Init
<1>2. Spec => []HomeInv
  BY HomeInit, HomeStep, PTL DEF Spec
<1> QED
  BY <1>1, <1>2, GatewayStepsScheduler, PTL DEF Spec, SchedSpec

\* No two turns of one workspace overlap, for any number of chats, messages,
\* senders, crashes and cancellations (Actor.process, Scheduler).
THEOREM GatewayExclusion == Spec => []MutualExclusion
BY GatewayImplementsScheduler, WorkspaceExclusion

\* No more than MaxActive turns run at once in one life of the gateway.
THEOREM GatewayActiveCap == Spec => []ActiveCap
BY GatewayImplementsScheduler, ActiveTurnsBounded

-----------------------------------------------------------------------------

SubPlaces == {"idle", "mark"} \cup Admitted

\* A submitter that is busy has a message.
SubTypes ==
  /\ sub \in [Submitters -> [at : SubPlaces, msg : Msgs \cup {None}]]
  /\ \A s \in Submitters : sub[s].at # "idle" => sub[s].msg \in Msgs

\* The variables that decide what is run.
JournalTypes ==
  /\ mem \in [Msgs -> Statuses] /\ disk \in [Msgs -> Statuses]
  /\ ran \in [Msgs -> Nat]
  /\ pending \subseteq Msgs
  /\ SubTypes
  /\ mailbox \in [Actors -> Seq(Msgs)]
  /\ at \in [Actors -> Places] /\ cur \in [Actors -> Msgs \cup {None}]
  /\ \A a \in Actors : at[a] \in InTurn => cur[a] \in Msgs

InBox(a, m) == \E i \in 1..Len(mailbox[a]) : mailbox[a][i] = m

\* Every message an actor has is one of its chat.
RoutedInv ==
  \A a \in Actors, m \in Msgs : cur[a] = m \/ InBox(a, m) => a = ChatOf[m]

\* The message is on its way to a turn: TurnStarts may yet find it.
Waits(m) ==
  \/ m \in pending
  \/ \E s \in Submitters : sub[s].at \in {"route", "post"} /\ sub[s].msg = m
  \/ \E a \in Actors : at[a] = "acquire" /\ cur[a] = m
  \/ \E a \in Actors : InBox(a, m)

Runs(a, m) == at[a] \in {"marked", "running"} /\ cur[a] = m
Begun == {"started"} \cup Terminal

\* A record that was written well is the same on disk; one whose turn has run
\* is past "accepted"; one that is "started" belongs to the actor that runs it,
\* as long as anybody could start it again.
RecordInv(m) ==
  /\ mem[m] = disk[m]
  /\ ran[m] <= 1
  /\ ran[m] = 1 => mem[m] \in Begun
  /\ \A a \in Actors :
       at[a] = "marked" /\ cur[a] = m => ran[m] = 0 /\ mem[m] \in Begun
  /\ Waits(m) /\ mem[m] = "started" /\ ~shut => \E a \in Actors : Runs(a, m)

JournalInv ==
  JournalTypes /\ RoutedInv /\ \A m \in Msgs \ damaged : RecordInv(m)

-----------------------------------------------------------------------------
(* What the marks of the journal do                                        *)

\* A settled record admits no other status, and a begun one does not go back.
LEMMA ValidTransitions ==
  ASSUME NEW s \in Statuses, NEW t \in {"started"} \cup Terminal,
         s # "none", ValidTransition(s, t)
  PROVE  /\ s \in Terminal => t = s
         /\ s \in Begun => t \in Begun
         /\ t = "started" => s \in {"accepted", "started"}
BY DEF ValidTransition, Rank, Statuses, Terminal, Begun

\* What is left of a record after a mark that has not damaged it.
Marked(m, s) ==
  \/ /\ mem'[m] = mem[m] /\ disk'[m] = disk[m]
     /\ shut \/ mem[m] = "none" \/ ~ValidTransition(mem[m], s)
  \/ /\ mem'[m] = s /\ disk'[m] = s /\ ~shut
     /\ mem[m] # "none" /\ ValidTransition(mem[m], s)

\* An append touches the record of its message only, and damages no other one.
LEMMA AppendOkEffect ==
  ASSUME JournalTypes, NEW m \in Msgs, NEW s \in Statuses, AppendOk(m, s)
  PROVE  /\ mem' \in [Msgs -> Statuses] /\ disk' \in [Msgs -> Statuses]
         /\ damaged \subseteq damaged'
         /\ \A n \in Msgs \ {m} : mem'[n] = mem[n] /\ disk'[n] = disk[n]
         /\ m \notin damaged' => mem'[m] = s /\ disk'[m] = s
BY DEF AppendOk, WriteLine, JournalTypes

LEMMA AppendFailsEffect ==
  ASSUME JournalTypes, NEW m \in Msgs, NEW s \in Statuses, AppendFails(m, s)
  PROVE  /\ mem' \in [Msgs -> Statuses] /\ disk' \in [Msgs -> Statuses]
         /\ damaged \subseteq damaged'
         /\ \A n \in Msgs \ {m} : mem'[n] = mem[n] /\ disk'[n] = disk[n]
         /\ m \in damaged'
BY DEF AppendFails, WriteLine, JournalTypes

\* Journal.mark, whether its caller looks at the error or not.
LEMMA MarkEffect ==
  ASSUME JournalTypes, NEW m \in Msgs, NEW s \in Statuses, Mark(m, s)
  PROVE  /\ mem' \in [Msgs -> Statuses] /\ disk' \in [Msgs -> Statuses]
         /\ damaged \subseteq damaged'
         /\ \A n \in Msgs \ {m} : mem'[n] = mem[n] /\ disk'[n] = disk[n]
         /\ m \notin damaged' => Marked(m, s)
         /\ shut' = shut
<1>1. CASE MarkOk(m, s)
  BY <1>1, AppendOkEffect DEF MarkOk, MarkAllowed, Marked
<1>2. CASE MarkErr(m, s)
  <2>1. CASE ~MarkAllowed(m, s) /\ UNCHANGED <<mem, disk, damaged>>
    BY <1>2, <2>1 DEF MarkErr, MarkAllowed, Marked, JournalTypes
  <2>2. CASE AppendFails(m, s)
    BY <1>2, <2>2, AppendFailsEffect DEF MarkErr
  <2> QED
    BY <1>2, <2>1, <2>2 DEF MarkErr
<1> QED
  BY <1>1, <1>2 DEF Mark

-----------------------------------------------------------------------------
(* The steps by what they do to a record                                   *)

\* A step that writes no record, and after which nobody has begun to run or to
\* wait for a message whose turn has begun.
LEMMA WaitKeeps ==
  ASSUME JournalInv, JournalTypes', RoutedInv',
         UNCHANGED <<mem, disk, ran, damaged>>, shut => shut',
         \A m \in Msgs : Waits(m)' => Waits(m) \/ mem[m] # "started",
         \A a \in Actors, m \in Msgs : Runs(a, m) => Runs(a, m)',
         \A a \in Actors :
           at'[a] = "marked" => at[a] = "marked" /\ cur'[a] = cur[a]
  PROVE  JournalInv'
<1> SUFFICES ASSUME NEW m \in Msgs \ damaged PROVE RecordInv(m)'
  BY DEF JournalInv
<1>1. RecordInv(m)
  BY DEF JournalInv
<1>2. Waits(m)' /\ mem'[m] = "started" /\ ~shut'
        => \E a \in Actors : Runs(a, m)'
  BY <1>1 DEF RecordInv
<1> QED
  BY <1>1, <1>2 DEF RecordInv

\* A step that settles one message: its turn ends, or will never begin.
LEMMA SettleKeeps ==
  ASSUME JournalInv, JournalTypes', RoutedInv',
         NEW m \in Msgs, NEW s \in Terminal, Mark(m, s), ran' = ran,
         \A n \in Msgs : Waits(n)' => Waits(n),
         \A a \in Actors, n \in Msgs \ {m} : Runs(a, n) => Runs(a, n)',
         \A a \in Actors :
           at'[a] = "marked" => at[a] = "marked" /\ cur'[a] = cur[a]
  PROVE  JournalInv'
<1> SUFFICES ASSUME NEW n \in Msgs \ damaged' PROVE RecordInv(n)'
  BY DEF JournalInv
<1>1. /\ damaged \subseteq damaged'
      /\ \A k \in Msgs \ {m} : mem'[k] = mem[k] /\ disk'[k] = disk[k]
      /\ m \notin damaged' => Marked(m, s)
      /\ shut' = shut
  BY MarkEffect DEF JournalInv, Statuses
<1>2. RecordInv(n)
  BY <1>1 DEF JournalInv
<1>3. CASE n # m
  <2>1. Waits(n)' /\ mem'[n] = "started" /\ ~shut'
          => \E a \in Actors : Runs(a, n)'
    BY <1>1, <1>2, <1>3 DEF RecordInv
  <2> QED
    BY <1>1, <1>2, <1>3, <2>1 DEF RecordInv
<1>4. CASE n = m
  <2>1. mem[m] \in Statuses
    BY DEF JournalInv, JournalTypes
  <2>2. /\ mem'[m] = disk'[m]
        /\ mem[m] \in Begun => mem'[m] \in Begun
        /\ mem'[m] = "started" => shut
    BY <1>1, <1>2, <1>4, <2>1
       DEF Marked, RecordInv, Begun, Terminal, ValidTransition, Rank, Statuses
  <2> QED
    BY <1>1, <1>2, <1>4, <2>2 DEF RecordInv
<1> QED
  BY <1>3, <1>4

-----------------------------------------------------------------------------
(* Mailboxes                                                               *)

\* Taking the first message of a mailbox, and adding one.
LEMMA TakeFirst ==
  ASSUME JournalTypes, NEW a \in Actors, mailbox[a] # <<>>,
         mailbox' = [mailbox EXCEPT ![a] = Tail(@)]
  PROVE  /\ mailbox' \in [Actors -> Seq(Msgs)]
         /\ Head(mailbox[a]) \in Msgs /\ InBox(a, Head(mailbox[a]))
         /\ \A b \in Actors, m \in Msgs : InBox(b, m)' => InBox(b, m)
<1>1. mailbox[a] \in Seq(Msgs)
  BY DEF JournalTypes
<1>2. /\ Len(mailbox[a]) \in Nat \ {0}
      /\ Head(mailbox[a]) = mailbox[a][1] /\ mailbox[a][1] \in Msgs
      /\ Tail(mailbox[a]) \in Seq(Msgs)
      /\ Len(Tail(mailbox[a])) = Len(mailbox[a]) - 1
      /\ \A i \in 1..(Len(mailbox[a]) - 1) :
           Tail(mailbox[a])[i] = mailbox[a][i + 1]
  BY <1>1, HeadTailProperties, EmptySeq, LenProperties, ElementOfSeq
<1>3. \A m \in Msgs : InBox(a, m)' => InBox(a, m)
  <2> SUFFICES ASSUME NEW i \in 1..Len(Tail(mailbox[a]))
               PROVE  /\ i + 1 \in 1..Len(mailbox[a])
                      /\ Tail(mailbox[a])[i] = mailbox[a][i + 1]
    BY DEF InBox, JournalTypes
  <2> QED
    BY <1>2
<1>4. 1 \in 1..Len(mailbox[a])
  BY <1>2
<1> QED
  BY <1>2, <1>3, <1>4 DEF InBox, JournalTypes

LEMMA QueueEffect ==
  ASSUME JournalTypes, NEW a \in Actors, NEW m \in Msgs, Queue(a, m)
  PROVE  /\ mailbox' \in [Actors -> Seq(Msgs)]
         /\ \A b \in Actors, n \in Msgs :
              InBox(b, n)' => InBox(b, n) \/ (b = a /\ n = m)
<1>1. mailbox[a] \in Seq(Msgs) /\ mailbox'[a] = Append(mailbox[a], m)
  BY DEF JournalTypes, Queue
<1>2. /\ Append(mailbox[a], m) \in Seq(Msgs) /\ Len(mailbox[a]) \in Nat
      /\ Len(Append(mailbox[a], m)) = Len(mailbox[a]) + 1
      /\ \A i \in 1..Len(mailbox[a]) :
           Append(mailbox[a], m)[i] = mailbox[a][i]
      /\ Append(mailbox[a], m)[Len(mailbox[a]) + 1] = m
  BY <1>1, AppendProperties, LenProperties
<1>3. \A n \in Msgs : InBox(a, n)' => InBox(a, n) \/ n = m
  <2> SUFFICES ASSUME NEW i \in 1..(Len(mailbox[a]) + 1)
               PROVE  \/ /\ i \in 1..Len(mailbox[a])
                         /\ mailbox'[a][i] = mailbox[a][i]
                      \/ mailbox'[a][i] = m
    BY <1>1, <1>2 DEF InBox
  <2> QED
    BY <1>1, <1>2
<1>4. /\ mailbox' \in [Actors -> Seq(Msgs)]
      /\ \A b \in Actors \ {a} : mailbox'[b] = mailbox[b]
  BY <1>2 DEF JournalTypes, Queue
<1> QED
  BY <1>3, <1>4 DEF InBox

-----------------------------------------------------------------------------
(* Gateway.Start and Gateway.Submit                                        *)

\* Router.Actor starts only an actor that is not there yet.
LEMMA StartedActor ==
  ASSUME JournalTypes, HomeInv, NEW a \in Actors, ActorStarts(a)
  PROVE  /\ at' \in [Actors -> Places] /\ UNCHANGED <<cur, mailbox>>
         /\ \A b \in Actors : \/ at'[b] = at[b]
                              \/ at[b] = "off" /\ at'[b] = "select"
<1>1. at[a] = "off"
  BY SchedulerAssumption DEF HomeInv, ActorStarts
<1> QED
  BY <1>1 DEF ActorStarts, JournalTypes, Places

\* Replaying and resuming: only records that are "accepted" are handed out.
LEMMA StartKeeps ==
  ASSUME JournalInv, HomeInv, StartStep
  PROVE  JournalInv'
<1> USE DEF JournalInv
<1>1. CASE StartReplays
  <2>1. JournalTypes' /\ RoutedInv'
    BY <1>1 DEF StartReplays, JournalTypes, SubTypes, RoutedInv, InBox,
                journalVars, submitVars, actorVars, historyVars
  <2>2. \A m \in Msgs : Waits(m)' => Waits(m) \/ mem[m] # "started"
    BY <1>1 DEF StartReplays, Replayable, Waits, InBox, submitVars, actorVars
  <2> QED
    BY <1>1, <2>1, <2>2, WaitKeeps
       DEF StartReplays, journalVars, actorVars, historyVars, Runs
<1>2. CASE ResumeRoutes
  <2>1. PICK m \in Msgs : ActorStarts(ChatOf[m])
    BY <1>2 DEF ResumeRoutes
  <2>2. /\ at' \in [Actors -> Places] /\ UNCHANGED <<cur, mailbox>>
        /\ \A b \in Actors : \/ at'[b] = at[b]
                             \/ at[b] = "off" /\ at'[b] = "select"
    BY <2>1, StartedActor, GatewayAssumption
  <2>3. UNCHANGED <<mem, disk, ran, pending, sub, damaged, shut>>
    BY <1>2 DEF ResumeRoutes, processVars, journalVars, submitVars,
                historyVars
  <2>4. JournalTypes' /\ RoutedInv'
    BY <2>2, <2>3 DEF JournalTypes, SubTypes, RoutedInv, InBox, InTurn
  <2> QED
    BY <2>2, <2>3, <2>4, WaitKeeps DEF Waits, InBox, Runs
<1>3. CASE ResumePosts
  <2>1. PICK m \in Msgs :
          /\ m \in pending
          /\ pending' = pending \ {m}
          /\ \/ Queue(ChatOf[m], m) /\ UNCHANGED <<journalVars, damaged>>
             \/ Mark(m, "failed") /\ UNCHANGED mailbox
    BY <1>3 DEF ResumePosts, Oldest
  <2>2. UNCHANGED <<sub, at, cur, ran>>
    BY <1>3 DEF ResumePosts, submitVars
  <2>3. CASE Queue(ChatOf[m], m) /\ UNCHANGED <<journalVars, damaged>>
    <3>1. /\ mailbox' \in [Actors -> Seq(Msgs)]
          /\ \A b \in Actors, n \in Msgs :
               InBox(b, n)' => InBox(b, n) \/ (b = ChatOf[m] /\ n = m)
      BY <2>3, QueueEffect, GatewayAssumption
    <3>2. JournalTypes' /\ RoutedInv'
      BY <2>1, <2>2, <2>3, <3>1
         DEF JournalTypes, SubTypes, RoutedInv, journalVars
    <3>3. \A n \in Msgs : Waits(n)' => Waits(n)
      BY <2>1, <2>2, <3>1 DEF Waits
    <3> QED
      BY <2>2, <2>3, <3>2, <3>3, WaitKeeps DEF journalVars, Runs
  <2>4. CASE Mark(m, "failed") /\ UNCHANGED mailbox
    <3>1. JournalTypes' /\ RoutedInv'
      BY <2>1, <2>2, <2>4, MarkEffect
         DEF JournalTypes, SubTypes, RoutedInv, InBox, Statuses, Terminal
    <3>2. \A n \in Msgs : Waits(n)' => Waits(n)
      BY <2>1, <2>2, <2>4 DEF Waits, InBox
    <3> QED
      BY <2>2, <2>4, <3>1, <3>2, SettleKeeps DEF Runs, Terminal
  <2> QED
    BY <2>1, <2>3, <2>4
<1>4. CASE StartBegins \/ StartRoutes \/ StartEnds
  <2>1. UNCHANGED <<pending, journalVars, submitVars, actorVars, historyVars>>
    BY <1>4 DEF StartBegins, StartRoutes, StartEnds
  <2>2. JournalTypes' /\ RoutedInv'
    BY <2>1 DEF JournalTypes, SubTypes, RoutedInv, InBox, journalVars,
                submitVars, actorVars, historyVars
  <2> QED
    BY <2>1, <2>2, WaitKeeps
       DEF Waits, InBox, Runs, journalVars, submitVars, actorVars, historyVars
<1> QED
  BY <1>1, <1>2, <1>3, <1>4 DEF StartStep

\* The steps of one submitter: it moves on with its message, or is done with it.
LEMMA SubMoves ==
  ASSUME SubTypes, NEW s \in Submitters, sub[s].at # "idle",
         NEW p \in SubPlaces \ {"idle"}, sub' = [sub EXCEPT ![s].at = p]
  PROVE  /\ SubTypes'
         /\ sub'[s].at = p /\ sub'[s].msg = sub[s].msg
         /\ \A t \in Submitters \ {s} : sub'[t] = sub[t]
<1>1. sub' = [sub EXCEPT ![s] = [sub[s] EXCEPT !.at = p]]
  OBVIOUS
<1>2. /\ sub[s] \in [at : SubPlaces, msg : Msgs \cup {None}]
      /\ sub[s].msg \in Msgs
  BY DEF SubTypes
<1>3. LET r == [sub[s] EXCEPT !.at = p]
      IN /\ r \in [at : SubPlaces, msg : Msgs \cup {None}]
         /\ r.at = p /\ r.msg = sub[s].msg
  BY <1>2
<1>4. \A t \in Submitters \ {s} : sub'[t] = sub[t]
  BY <1>1 DEF SubTypes
<1>5. sub'[s] = [sub[s] EXCEPT !.at = p]
  BY <1>1 DEF SubTypes
<1>6. sub' \in [Submitters -> [at : SubPlaces, msg : Msgs \cup {None}]]
  BY <1>1, <1>3 DEF SubTypes
<1> QED
  BY <1>2, <1>3, <1>4, <1>5, <1>6 DEF SubTypes

LEMMA SubLeaves ==
  ASSUME SubTypes, NEW s \in Submitters, sub' = [sub EXCEPT ![s] = Idle]
  PROVE  /\ SubTypes'
         /\ sub'[s].at = "idle"
         /\ \A t \in Submitters \ {s} : sub'[t] = sub[t]
<1>1. Idle \in [at : SubPlaces, msg : Msgs \cup {None}] /\ Idle.at = "idle"
  BY DEF Idle, SubPlaces
<1> QED
  BY <1>1 DEF SubTypes

\* A new id is appended: nothing was run or begun for it.
LEMMA AppendKeeps ==
  ASSUME JournalInv, NEW s \in Submitters, SubmitAppends(s)
  PROVE  JournalInv'
<1> USE DEF JournalInv
<1> DEFINE m == sub[s].msg
<1>1. /\ m \in Msgs /\ mem[m] = "none"
      /\ AppendOk(m, "accepted")
      /\ sub' = [sub EXCEPT ![s].at = "route"]
      /\ UNCHANGED <<ran, pending, mailbox, at, cur, shut>>
  BY DEF SubmitAppends, JournalTypes, SubTypes, processVars, actorVars
<1>2. /\ mem' \in [Msgs -> Statuses] /\ disk' \in [Msgs -> Statuses]
      /\ damaged \subseteq damaged'
      /\ \A n \in Msgs \ {m} : mem'[n] = mem[n] /\ disk'[n] = disk[n]
      /\ m \notin damaged' => mem'[m] = "accepted" /\ disk'[m] = "accepted"
  BY <1>1, AppendOkEffect DEF Statuses
<1>3. JournalTypes' /\ \A t \in Submitters \ {s} : sub'[t] = sub[t]
  <2>1. SubTypes' /\ \A t \in Submitters \ {s} : sub'[t] = sub[t]
    BY <1>1, SubMoves DEF JournalTypes, SubPlaces, Admitted, SubmitAppends
  <2> QED
    BY <1>1, <1>2, <2>1 DEF JournalTypes
<1>4. RoutedInv'
  BY <1>1 DEF RoutedInv, InBox
<1>5. \A n \in Msgs \ {m} : Waits(n)' => Waits(n)
  <2>1. sub'[s].msg = m
    BY <1>1, SubMoves DEF JournalTypes, SubPlaces, Admitted, SubmitAppends
  <2> QED
    BY <1>1, <1>3, <2>1 DEF Waits, InBox
<1>6. ASSUME NEW n \in Msgs \ damaged', n # m PROVE RecordInv(n)'
  BY <1>1, <1>2, <1>5, <1>6 DEF RecordInv, Runs
<1>7. ASSUME m \notin damaged' PROVE RecordInv(m)'
  <2>1. RecordInv(m) /\ mem[m] \notin Begun
    BY <1>1, <1>2, <1>7 DEF Begun, Terminal
  <2> QED
    BY <1>1, <1>2, <1>7, <2>1 DEF RecordInv
<1> QED
  BY <1>1, <1>3, <1>4, <1>6, <1>7

\* A failed append damages the record it was for and touches no other.
LEMMA BounceKeeps ==
  ASSUME JournalInv, NEW s \in Submitters, SubmitBounces(s)
  PROVE  JournalInv'
<1> USE DEF JournalInv
<1> DEFINE m == sub[s].msg
<1>1. /\ m \in Msgs
      /\ sub' = [sub EXCEPT ![s].at = "leave"]
      /\ UNCHANGED <<ran, pending, mailbox, at, cur, shut>>
      /\ UNCHANGED <<mem, disk, damaged>> \/ AppendFails(m, "accepted")
  BY DEF SubmitBounces, JournalTypes, SubTypes, processVars, journalVars,
         actorVars
<1>2. /\ mem' \in [Msgs -> Statuses] /\ disk' \in [Msgs -> Statuses]
      /\ damaged \subseteq damaged'
      /\ \A n \in Msgs \ damaged' : mem'[n] = mem[n] /\ disk'[n] = disk[n]
  BY <1>1, AppendFailsEffect DEF Statuses, JournalTypes
<1>3. /\ SubTypes' /\ sub'[s].at = "leave"
      /\ \A t \in Submitters \ {s} : sub'[t] = sub[t]
  BY <1>1, SubMoves DEF JournalTypes, SubPlaces, Admitted, SubmitBounces
<1>4. /\ JournalTypes' /\ RoutedInv'
      /\ \A n \in Msgs : Waits(n)' => Waits(n)
  BY <1>1, <1>2, <1>3 DEF JournalTypes, RoutedInv, InBox, Waits
<1>5. ASSUME NEW n \in Msgs \ damaged' PROVE RecordInv(n)'
  <2>1. RecordInv(n)
    BY <1>2
  <2> QED
    BY <1>1, <1>2, <1>4, <2>1 DEF RecordInv, Runs
<1> QED
  BY <1>4, <1>5

\* The steps of Gateway.Submit.
LEMMA SubmitKeeps ==
  ASSUME JournalInv, HomeInv, NEW s \in Submitters, SubmitStep(s)
  PROVE  JournalInv'
<1> USE DEF JournalInv
<1>1. CASE SubmitRoutes(s)
  <2>1. /\ sub[s].msg \in Msgs /\ sub[s].at = "route"
        /\ \/ sub' = [sub EXCEPT ![s].at = "post"]
           \/ sub' = [sub EXCEPT ![s].at = "undo"]
        /\ UNCHANGED <<mem, disk, ran, pending, damaged, shut>>
    BY <1>1 DEF SubmitRoutes, JournalTypes, SubTypes, processVars, journalVars,
                historyVars
  <2>2. /\ at' \in [Actors -> Places] /\ UNCHANGED <<cur, mailbox>>
        /\ \A b \in Actors : \/ at'[b] = at[b]
                             \/ at[b] = "off" /\ at'[b] = "select"
    <3>1. UNCHANGED actorVars \/ ActorStarts(ChatOf[sub[s].msg])
      BY <1>1 DEF SubmitRoutes
    <3> QED
      BY <2>1, <3>1, StartedActor, GatewayAssumption
         DEF actorVars, JournalTypes
  <2>5. /\ SubTypes' /\ sub'[s].msg = sub[s].msg
        /\ \A t \in Submitters \ {s} : sub'[t] = sub[t]
    BY <2>1, SubMoves DEF JournalTypes, SubPlaces, Admitted
  <2>3. JournalTypes' /\ RoutedInv'
    BY <2>1, <2>2, <2>5 DEF JournalTypes, RoutedInv, InBox, InTurn
  <2>4. \A n \in Msgs : Waits(n)' => Waits(n)
    BY <2>1, <2>2, <2>5 DEF Waits, InBox
  <2> QED
    BY <2>1, <2>2, <2>3, <2>4, WaitKeeps DEF Runs
<1>2. CASE SubmitPosts(s)
  <2> DEFINE m == sub[s].msg
  <2>1. /\ m \in Msgs /\ sub[s].at = "post"
        /\ UNCHANGED <<mem, disk, ran, pending, damaged, shut, at, cur>>
        /\ \/ Queue(ChatOf[m], m) /\ sub' = [sub EXCEPT ![s] = Idle]
           \/ mailbox' = mailbox /\ sub' = [sub EXCEPT ![s].at = "undo"]
    BY <1>2 DEF SubmitPosts, JournalTypes, SubTypes, processVars, journalVars
  <2>2. /\ mailbox' \in [Actors -> Seq(Msgs)]
        /\ \A b \in Actors, n \in Msgs :
             InBox(b, n)' => InBox(b, n) \/ (b = ChatOf[m] /\ n = m)
    <3>1. CASE Queue(ChatOf[m], m)
      BY <2>1, <3>1, QueueEffect, GatewayAssumption
    <3>2. CASE mailbox' = mailbox
      BY <3>2 DEF JournalTypes, InBox
    <3> QED
      BY <2>1, <3>1, <3>2
  <2>3. /\ SubTypes' /\ sub'[s].at \notin {"route", "post"}
        /\ \A t \in Submitters \ {s} : sub'[t] = sub[t]
    <3>1. CASE sub' = [sub EXCEPT ![s] = Idle]
      BY <3>1, SubLeaves DEF JournalTypes
    <3>2. CASE sub' = [sub EXCEPT ![s].at = "undo"]
      <4>1. "undo" \in SubPlaces \ {"idle"} /\ sub[s].at # "idle" /\ SubTypes
        BY <2>1 DEF JournalTypes, SubPlaces, Admitted
      <4> QED
        BY <3>2, <4>1, SubMoves
    <3> QED
      BY <2>1, <3>1, <3>2
  <2>4. JournalTypes' /\ RoutedInv'
    BY <2>1, <2>2, <2>3 DEF JournalTypes, RoutedInv
  <2>5. \A n \in Msgs : Waits(n)' => Waits(n)
    BY <2>1, <2>2, <2>3 DEF Waits
  <2> QED
    BY <2>1, <2>4, <2>5, WaitKeeps DEF Runs
<1>3. CASE SubmitEndsTurn(s)
  <2>1. /\ UNCHANGED <<mem, disk, ran, pending, damaged, shut, at, cur,
                        mailbox>>
        /\ sub[s].at \in {"leave", "undo"}
        /\ \/ sub' = [sub EXCEPT ![s] = Idle]
           \/ sub' = [sub EXCEPT ![s].at = "mark"]
    BY <1>3 DEF SubmitEndsTurn, JournalTypes, processVars, journalVars,
                actorVars, historyVars
  <2>4. /\ SubTypes' /\ sub'[s].at \notin {"route", "post"}
        /\ \A t \in Submitters \ {s} : sub'[t] = sub[t]
    BY <2>1, SubMoves, SubLeaves DEF JournalTypes, SubPlaces
  <2>2. JournalTypes' /\ RoutedInv'
    BY <2>1, <2>4 DEF JournalTypes, RoutedInv, InBox
  <2>3. \A n \in Msgs : Waits(n)' => Waits(n)
    BY <2>1, <2>4 DEF Waits, InBox
  <2> QED
    BY <2>1, <2>2, <2>3, WaitKeeps DEF Runs
<1>4. CASE SubmitCancels(s)
  <2>1. /\ sub[s].msg \in Msgs /\ sub[s].at = "mark"
        /\ Mark(sub[s].msg, "cancelled")
        /\ sub' = [sub EXCEPT ![s] = Idle]
        /\ UNCHANGED <<ran, pending, at, cur, mailbox>>
    BY <1>4 DEF SubmitCancels, JournalTypes, SubTypes, processVars, actorVars
  <2>4. /\ SubTypes' /\ sub'[s].at \notin {"route", "post"}
        /\ \A t \in Submitters \ {s} : sub'[t] = sub[t]
    BY <2>1, SubLeaves DEF JournalTypes
  <2>2. JournalTypes' /\ RoutedInv'
    BY <2>1, <2>4, MarkEffect
       DEF JournalTypes, RoutedInv, InBox, Statuses, Terminal
  <2>3. \A n \in Msgs : Waits(n)' => Waits(n)
    BY <2>1, <2>4 DEF Waits, InBox
  <2> QED
    BY <2>1, <2>2, <2>3, SettleKeeps DEF Runs, Terminal
<1> QED
  BY <1>1, <1>2, <1>3, <1>4, AppendKeeps, BounceKeeps DEF SubmitStep

-----------------------------------------------------------------------------
(* Actor.run and Actor.process                                             *)

\* The record becomes "started": nobody runs the message, and it never ran.
LEMMA TurnStartKeeps ==
  ASSUME JournalInv, NEW a \in Actors, TurnStarts(a)
  PROVE  JournalInv'
<1> USE DEF JournalInv
<1> DEFINE m == cur[a]
<1>1. /\ m \in Msgs /\ at[a] = "acquire"
      /\ Mark(m, "started")
      /\ UNCHANGED <<ran, pending, sub, cur, mailbox>>
      /\ \/ MarkOk(m, "started") /\ at' = [at EXCEPT ![a] = "marked"]
         \/ at' = [at EXCEPT ![a] = "leaving"]
  BY DEF TurnStarts, Mark, JournalTypes, InTurn, processVars, submitVars
<1>2. /\ mem' \in [Msgs -> Statuses] /\ disk' \in [Msgs -> Statuses]
      /\ damaged \subseteq damaged'
      /\ \A n \in Msgs \ {m} : mem'[n] = mem[n] /\ disk'[n] = disk[n]
      /\ m \notin damaged' => Marked(m, "started")
      /\ shut' = shut
  BY <1>1, MarkEffect DEF Statuses
<1>3. /\ at' \in [Actors -> Places] /\ at'[a] \in {"marked", "leaving"}
      /\ \A b \in Actors \ {a} : at'[b] = at[b]
  BY <1>1 DEF JournalTypes, Places
<1>4. JournalTypes' /\ RoutedInv'
  BY <1>1, <1>2, <1>3
     DEF JournalTypes, SubTypes, RoutedInv, InBox, InTurn
<1>5. \A n \in Msgs : Waits(n)' => Waits(n)
  BY <1>1, <1>3 DEF Waits, InBox
<1>6. \A b \in Actors, n \in Msgs : Runs(b, n) => Runs(b, n)'
  BY <1>1, <1>3 DEF Runs
<1>7. \A b \in Actors : cur[b] = m => b = a
  BY <1>1 DEF RoutedInv
<1>8. ASSUME NEW n \in Msgs \ damaged', n # m PROVE RecordInv(n)'
  <2>1. RecordInv(n)
    BY <1>2
  <2>2. \A b \in Actors : at'[b] = "marked" /\ cur'[b] = n
                            => at[b] = "marked" /\ cur[b] = n
    BY <1>1, <1>3, <1>8
  <2> QED
    BY <1>1, <1>2, <1>5, <1>6, <1>8, <2>1, <2>2 DEF RecordInv
<1>9. ASSUME m \notin damaged' PROVE RecordInv(m)'
  <2>1. RecordInv(m) /\ Waits(m) /\ mem[m] \in Statuses /\ ran[m] \in Nat
    BY <1>1, <1>2, <1>9 DEF JournalTypes, Waits
  <2>2. ~\E b \in Actors : Runs(b, m)
    BY <1>1, <1>7 DEF Runs
  <2>3. CASE mem'[m] = mem[m] /\ disk'[m] = disk[m] /\ at'[a] = "leaving"
    <3>1. \A b \in Actors : ~(at'[b] = "marked" /\ cur'[b] = m)
      BY <1>1, <1>3, <1>7, <2>3
    <3> QED
      BY <1>1, <1>2, <1>5, <1>6, <2>1, <2>3, <3>1 DEF RecordInv
  <2>4. CASE mem'[m] = mem[m] /\ disk'[m] = disk[m] /\ at'[a] = "marked"
    <3>1. MarkOk(m, "started")
      BY <1>1, <2>4 DEF JournalTypes
    <3>2. AppendOk(m, "started") /\ MarkAllowed(m, "started")
      BY <3>1 DEF MarkOk
    <3>3. mem'[m] = "started" /\ ~shut
      BY <1>1, <3>2 DEF AppendOk, MarkAllowed, JournalTypes
    <3> QED
      BY <2>1, <2>2, <2>4, <3>3 DEF RecordInv
  <2>5. CASE /\ mem'[m] = "started" /\ disk'[m] = "started" /\ ~shut
             /\ mem[m] # "none" /\ ValidTransition(mem[m], "started")
    <3>1. mem[m] \in {"accepted", "started"}
      BY <2>1, <2>5, ValidTransitions
    <3>2. mem[m] = "accepted" /\ ran[m] = 0
      BY <2>1, <2>2, <2>5, <3>1 DEF RecordInv, Begun, Terminal
    <3>3. CASE at'[a] = "marked"
      BY <1>1, <2>5, <3>2, <3>3 DEF RecordInv, Begun, Runs
    <3>4. CASE at'[a] = "leaving"
      <4>1. MarkErr(m, "started")
        BY <1>1, <3>4 DEF TurnStarts, JournalTypes
      <4>2. ~MarkAllowed(m, "started") \/ m \in damaged'
        BY <4>1 DEF MarkErr, AppendFails
      <4> QED
        BY <1>9, <2>5, <4>2 DEF MarkAllowed
    <3> QED
      BY <1>3, <3>3, <3>4
  <2> QED
    BY <1>2, <1>3, <1>9, <2>3, <2>4, <2>5 DEF Marked
<1> QED
  BY <1>1, <1>4, <1>8, <1>9

\* Run is called once for the mark before it.
LEMMA RunKeeps ==
  ASSUME JournalInv, NEW a \in Actors, Run(a)
  PROVE  JournalInv'
<1> USE DEF JournalInv
<1> DEFINE m == cur[a]
<1>1. /\ m \in Msgs /\ at[a] = "marked"
      /\ at' = [at EXCEPT ![a] = "running"]
      /\ ran' = [ran EXCEPT ![m] = @ + 1]
      /\ UNCHANGED <<mem, disk, pending, sub, cur, mailbox, damaged, shut>>
  BY DEF Run, JournalTypes, InTurn, processVars, submitVars, journalVars
<1>2. JournalTypes' /\ RoutedInv'
  BY <1>1
     DEF JournalTypes, SubTypes, RoutedInv, InBox, InTurn, Places
<1>3. \A n \in Msgs : Waits(n)' => Waits(n)
  BY <1>1 DEF Waits, InBox, JournalTypes
<1>4. \A b \in Actors, n \in Msgs : Runs(b, n) => Runs(b, n)'
  BY <1>1 DEF Runs, JournalTypes
<1>5. \A b \in Actors : cur[b] = m => b = a
  BY <1>1 DEF RoutedInv
<1>6. ASSUME NEW n \in Msgs \ damaged PROVE RecordInv(n)'
  <2>1. RecordInv(n) /\ ran[n] \in Nat
    BY DEF JournalTypes
  <2>2. \A b \in Actors : at'[b] = "marked" => at[b] = "marked" /\ b # a
    BY <1>1 DEF JournalTypes
  <2>3. CASE n # m
    <3>1. ran'[n] = ran[n]
      BY <1>1, <2>3 DEF JournalTypes
    <3> QED
      BY <1>1, <1>3, <1>4, <2>1, <2>2, <3>1 DEF RecordInv
  <2>4. CASE n = m
    <3>1. ran[n] = 0 /\ mem[n] \in Begun /\ ran'[n] = 1
      BY <1>1, <2>1, <2>4 DEF RecordInv, JournalTypes
    <3> QED
      BY <1>1, <1>3, <1>4, <1>5, <2>1, <2>2, <2>4, <3>1 DEF RecordInv
  <2> QED
    BY <2>3, <2>4
<1> QED
  BY <1>1, <1>2, <1>6

\* The other steps of an actor's goroutine.
LEMMA TurnKeeps ==
  ASSUME JournalInv, NEW a \in Actors, TurnStep(a)
  PROVE  JournalInv'
<1> USE DEF JournalInv
<1>1. CASE TakeMessage(a)
  <2> DEFINE m == Head(mailbox[a])
  <2>1. /\ at[a] = "select" /\ cur' = [cur EXCEPT ![a] = m]
        /\ \/ at' = [at EXCEPT ![a] = "acquire"]
           \/ at' = [at EXCEPT ![a] = "drain"]
        /\ UNCHANGED <<mem, disk, ran, pending, sub, damaged, shut>>
    BY <1>1 DEF TakeMessage, processVars, journalVars, submitVars,
                historyVars
  <2>2. /\ mailbox' \in [Actors -> Seq(Msgs)]
        /\ m \in Msgs /\ InBox(a, m)
        /\ \A b \in Actors, n \in Msgs : InBox(b, n)' => InBox(b, n)
    BY <1>1, TakeFirst DEF TakeMessage
  <2>3. /\ at' \in [Actors -> Places] /\ at'[a] \in {"acquire", "drain"}
        /\ cur' \in [Actors -> Msgs \cup {None}] /\ cur'[a] = m
        /\ \A b \in Actors \ {a} : at'[b] = at[b] /\ cur'[b] = cur[b]
    BY <2>1, <2>2 DEF JournalTypes, Places
  <2>4. JournalTypes' /\ RoutedInv'
    BY <2>1, <2>2, <2>3 DEF JournalTypes, SubTypes, RoutedInv
  <2>5. \A n \in Msgs : Waits(n)' => Waits(n)
    BY <2>1, <2>2, <2>3 DEF Waits
  <2>6. \A b \in Actors, n \in Msgs : Runs(b, n) => Runs(b, n)'
    BY <2>1, <2>3 DEF Runs
  <2>7. \A b \in Actors :
          at'[b] = "marked" => at[b] = "marked" /\ cur'[b] = cur[b]
    BY <2>3
  <2> QED
    BY <2>1, <2>4, <2>5, <2>6, <2>7, WaitKeeps
<1>2. CASE CancelMessage(a)
  <2>1. PICK m \in Msgs :
          /\ Mark(m, "cancelled")
          /\ cur' \in [Actors -> Msgs \cup {None}]
          /\ cur'[a] \in {cur[a], None}
          /\ \A b \in Actors \ {a} : cur'[b] = cur[b]
          /\ mailbox' \in [Actors -> Seq(Msgs)]
          /\ \A b \in Actors, n \in Msgs : InBox(b, n)' => InBox(b, n)
    <3>1. CASE /\ cur[a] # None
               /\ Mark(cur[a], "cancelled")
               /\ cur' = [cur EXCEPT ![a] = None]
               /\ mailbox' = mailbox
      <4>1. cur[a] \in Msgs
        BY <3>1 DEF JournalTypes
      <4> QED
        BY <3>1, <4>1 DEF JournalTypes, InBox
    <3>2. CASE /\ mailbox[a] # <<>>
               /\ Mark(Head(mailbox[a]), "cancelled")
               /\ mailbox' = [mailbox EXCEPT ![a] = Tail(@)]
               /\ cur' = cur
      BY <3>2, TakeFirst DEF JournalTypes
    <3> QED
      BY <1>2, <3>1, <3>2 DEF CancelMessage
  <2>2. at[a] = "drain" /\ UNCHANGED <<ran, pending, sub, at>>
    BY <1>2 DEF CancelMessage, processVars
  <2>3. JournalTypes' /\ RoutedInv'
    <3>1. mem' \in [Msgs -> Statuses] /\ disk' \in [Msgs -> Statuses]
      BY <2>1, MarkEffect DEF Statuses, Terminal
    <3>2. JournalTypes'
      BY <2>1, <2>2, <3>1 DEF JournalTypes, SubTypes, InTurn
    <3>3. RoutedInv'
      BY <2>1, GatewayAssumption DEF RoutedInv
    <3> QED
      BY <3>2, <3>3
  <2>4. \A n \in Msgs : Waits(n)' => Waits(n)
    BY <2>1, <2>2 DEF Waits
  <2> QED
    BY <2>1, <2>2, <2>3, <2>4, SettleKeeps DEF Runs, Terminal
<1>3. ASSUME NEW s \in Terminal, Mark(cur[a], s), at[a] \in InTurn \ {"marked"},
             at' = [at EXCEPT ![a] = "leaving"],
             UNCHANGED <<ran, pending, sub, cur, mailbox>>
      PROVE  JournalInv'
  <2>1. /\ cur[a] \in Msgs /\ at' \in [Actors -> Places]
        /\ at'[a] = "leaving" /\ \A b \in Actors \ {a} : at'[b] = at[b]
    BY <1>3 DEF JournalTypes, Places
  <2>2. JournalTypes' /\ RoutedInv'
    <3>1. mem' \in [Msgs -> Statuses] /\ disk' \in [Msgs -> Statuses]
      BY <1>3, <2>1, MarkEffect DEF Statuses
    <3>2. JournalTypes'
      BY <1>3, <2>1, <3>1 DEF JournalTypes, SubTypes, InTurn
    <3> QED
      BY <1>3, <3>2 DEF RoutedInv, InBox
  <2>3. \A n \in Msgs : Waits(n)' => Waits(n)
    BY <1>3, <2>1 DEF Waits, InBox
  <2>4. \A b \in Actors, n \in Msgs \ {cur[a]} : Runs(b, n) => Runs(b, n)'
    BY <1>3, <2>1 DEF Runs
  <2> QED
    BY <1>3, <2>1, <2>2, <2>3, <2>4, SettleKeeps
<1>4. CASE TurnRefused(a)
  BY <1>4, <1>3
     DEF TurnRefused, processVars, submitVars, Terminal, InTurn
<1>5. CASE TurnOutcome(a)
  BY <1>5, <1>3
     DEF TurnOutcome, processVars, submitVars, Terminal, InTurn
<1>6. CASE \/ SeeDone(a) \/ ActorExits(a) \/ Acquires(a) \/ Releases(a)
           \/ TurnEnds(a)
  <2>1. /\ UNCHANGED <<mem, disk, ran, pending, sub, mailbox, damaged, shut>>
        /\ \/ UNCHANGED <<at, cur>>
           \/ /\ at[a] \in {"select", "drain", "leaving"}
              /\ \E p \in {"drain", "exited", "select"} :
                   at' = [at EXCEPT ![a] = p]
              /\ cur' = cur \/ cur' = [cur EXCEPT ![a] = None]
    BY <1>6
       DEF SeeDone, ActorExits, Acquires, Releases, TurnEnds, processVars,
           journalVars, submitVars, actorVars, historyVars
  <2>2. /\ at' \in [Actors -> Places] /\ cur' \in [Actors -> Msgs \cup {None}]
        /\ \A b \in Actors :
             \/ at'[b] = at[b] /\ cur'[b] = cur[b]
             \/ /\ at[b] \in {"select", "drain", "leaving"}
                /\ at'[b] \in {"drain", "exited", "select"}
                /\ cur'[b] \in {cur[b], None}
    BY <2>1 DEF JournalTypes, Places
  <2>3. JournalTypes' /\ RoutedInv'
    <3>1. JournalTypes'
      BY <2>1, <2>2 DEF JournalTypes, SubTypes, InTurn
    <3>2. RoutedInv'
      BY <2>1, <2>2, GatewayAssumption DEF RoutedInv, InBox
    <3> QED
      BY <3>1, <3>2
  <2>4. \A n \in Msgs : Waits(n)' => Waits(n)
    BY <2>1, <2>2 DEF Waits, InBox
  <2> QED
    BY <2>1, <2>2, <2>3, <2>4, WaitKeeps DEF Runs
<1> QED
  BY <1>1, <1>2, <1>4, <1>5, <1>6, TurnStartKeeps, RunKeeps DEF TurnStep

-----------------------------------------------------------------------------
(* The invariant holds always                                              *)

LEMMA JournalInit == Init => JournalInv
<1> SUFFICES ASSUME Init PROVE JournalInv
  OBVIOUS
<1>1. JournalTypes
  BY DEF Init, JournalTypes, SubTypes, SubPlaces, Idle, Statuses, Places, InTurn
<1>2. RoutedInv /\ \A m \in Msgs : ~Waits(m)
  BY GatewayAssumption DEF Init, RoutedInv, InBox, Waits, Idle
<1>3. \A m \in Msgs : RecordInv(m)
  BY <1>2 DEF Init, RecordInv
<1> QED
  BY <1>1, <1>2, <1>3 DEF JournalInv

\* A new life knows the records of the file, and nothing waits or runs.
LEMMA NewLifeKeeps ==
  ASSUME JournalInv, NewLife
  PROVE  JournalInv'
<1>1. /\ mem' = disk /\ UNCHANGED <<disk, ran, damaged>>
      /\ pending' = {} /\ sub' = [s \in Submitters |-> Idle]
      /\ mailbox' = [a \in Actors |-> <<>>]
      /\ at' = [a \in Actors |-> "off"] /\ cur' = [a \in Actors |-> None]
  BY DEF NewLife
<1>2. JournalTypes'
  BY <1>1
     DEF JournalInv, JournalTypes, SubTypes, SubPlaces, Idle, Statuses, Places,
         InTurn
<1>3. RoutedInv' /\ \A m \in Msgs : ~Waits(m)'
  BY <1>1, GatewayAssumption DEF RoutedInv, InBox, Waits, Idle
<1>4. \A m \in Msgs \ damaged' : RecordInv(m)'
  BY <1>1, <1>3 DEF JournalInv, RecordInv
<1> QED
  BY <1>2, <1>3, <1>4 DEF JournalInv

LEMMA JournalStep == JournalInv /\ HomeInv /\ [Next]_vars => JournalInv'
<1> SUFFICES ASSUME JournalInv, HomeInv, [Next]_vars PROVE JournalInv'
  OBVIOUS
<1>1. ASSUME /\ shut => shut'
             /\ UNCHANGED <<mem, disk, ran, pending, mailbox, at, cur, damaged>>
             /\ \/ UNCHANGED sub
                \/ \E s \in Submitters, m \in Msgs :
                     sub' = [sub EXCEPT ![s] = [at |-> "append", msg |-> m]]
      PROVE  JournalInv'
  <2>1. SubTypes' /\ \A s \in Submitters : \/ sub'[s] = sub[s]
                                           \/ sub'[s].at = "append"
    <3>1. CASE UNCHANGED sub
      BY <3>1 DEF JournalInv, JournalTypes, SubTypes
    <3>2. ASSUME NEW s \in Submitters, NEW m \in Msgs,
                 sub' = [sub EXCEPT ![s] = [at |-> "append", msg |-> m]]
          PROVE  /\ SubTypes'
                 /\ \A t \in Submitters : \/ sub'[t] = sub[t]
                                        \/ sub'[t].at = "append"
      BY <3>2 DEF JournalInv, JournalTypes, SubTypes, SubPlaces, Admitted
    <3> QED
      BY <1>1, <3>1, <3>2
  <2>2. JournalTypes' /\ RoutedInv'
    BY <1>1, <2>1 DEF JournalInv, JournalTypes, RoutedInv, InBox
  <2>3. \A m \in Msgs : Waits(m)' => Waits(m)
    BY <1>1, <2>1 DEF Waits, InBox
  <2> QED
    BY <1>1, <2>2, <2>3, WaitKeeps DEF Runs
<1>2. CASE StartStep
  BY <1>2, StartKeeps
<1>3. ASSUME NEW s \in Submitters, SubmitStep(s) PROVE JournalInv'
  BY <1>3, SubmitKeeps
<1>4. ASSUME NEW a \in Actors, TurnStep(a) PROVE JournalInv'
  BY <1>4, TurnKeeps
<1>5. CASE ShutdownStep
  BY <1>1, <1>5
     DEF ShutdownStep, ShutdownBegins, StopActor, ShutdownEnds, processVars,
         journalVars, submitVars, actorVars, historyVars
<1>6. CASE Environment
  <2>1. ASSUME NEW s \in Submitters, NEW m \in Msgs, SubmitAdmits(s, m)
        PROVE  JournalInv'
    BY <1>1, <2>1 DEF SubmitAdmits, processVars, journalVars, actorVars
  <2>2. ASSUME NEW a \in Actors, CancelTurn(a) PROVE JournalInv'
    BY <1>1, <2>2
       DEF CancelTurn, journalVars, submitVars, actorVars, historyVars
  <2>3. CASE StopSignal
    BY <1>1, <2>3 DEF StopSignal, submitVars, actorVars, historyVars
  <2> QED
    BY <1>6, <2>1, <2>2, <2>3, NewLifeKeeps DEF Environment
<1>7. CASE UNCHANGED vars
  BY <1>1, <1>7
     DEF vars, processVars, journalVars, submitVars, actorVars, historyVars
<1> QED
  BY <1>2, <1>3, <1>4, <1>5, <1>6, <1>7 DEF Next

\* The journal's invariant needs the one on the actors' workspaces.
LEMMA JournalAlways == Spec => [](JournalInv /\ HomeInv)
<1>1. Init => JournalInv /\ HomeInv
  BY JournalInit, HomeInit
<1>2. JournalInv /\ HomeInv /\ [Next]_vars => JournalInv' /\ HomeInv'
  BY JournalStep, HomeStep
<1> QED
  BY <1>1, <1>2, PTL DEF Spec

-----------------------------------------------------------------------------
(* Theorems                                                                *)

\* A message is run at most once over all lives of the process, however often
\* it is delivered, queued, replayed and cancelled, unless one of its records
\* was written badly (AppendUnique, ReplayPending, Actor.process).
THEOREM RunOnceCorrect == Spec => []RunOnce
<1>1. JournalInv => RunOnce
  BY DEF JournalInv, RecordInv, RunOnce
<1> QED
  BY <1>1, JournalAlways, PTL

\* What a step may do to the record of one message.
RecordStays(m) == mem[m] \in Terminal /\ m \notin damaged' => mem'[m] = mem[m]

\* A mark leaves a settled record alone, as every mark but "accepted" does.
LEMMA MarkSettles ==
  ASSUME JournalTypes, NEW m \in Msgs, NEW s \in Begun, Mark(m, s)
  PROVE  \A n \in Msgs : RecordStays(n)
<1>1. /\ \A n \in Msgs \ {m} : mem'[n] = mem[n]
      /\ m \notin damaged' => Marked(m, s)
  BY MarkEffect DEF Statuses, Begun
<1>2. mem[m] \in Terminal => mem[m] # "none" /\ mem[m] \in Statuses
  BY DEF Terminal, Statuses
<1>3. RecordStays(m)
  BY <1>1, <1>2, ValidTransitions DEF Marked, RecordStays, Begun
<1> QED
  BY <1>1, <1>3 DEF RecordStays

LEMMA RecordsStay ==
  ASSUME JournalInv, [Next]_vars, NEW m \in Msgs
  PROVE  RecordStays(m)
<1> USE DEF JournalInv
<1>1. ASSUME mem' = mem PROVE RecordStays(m)
  BY <1>1 DEF RecordStays
<1>2. CASE StartStep
  <2>1. CASE ResumePosts
    <3>1. \/ mem' = mem
          \/ \E n \in Msgs : Mark(n, "failed")
      BY <2>1 DEF ResumePosts, journalVars
    <3> QED
      BY <1>1, <3>1, MarkSettles DEF Begun, Terminal
  <2> QED
    BY <1>1, <1>2, <2>1
       DEF StartStep, StartBegins, StartRoutes, StartReplays, ResumeRoutes,
           StartEnds, journalVars
<1>3. ASSUME NEW s \in Submitters, SubmitStep(s) PROVE RecordStays(m)
  <2>1. CASE SubmitAppends(s)
    <3>1. /\ sub[s].msg \in Msgs /\ mem[sub[s].msg] = "none"
          /\ AppendOk(sub[s].msg, "accepted")
      BY <2>1 DEF SubmitAppends, JournalTypes, SubTypes
    <3>2. \A n \in Msgs \ {sub[s].msg} : mem'[n] = mem[n]
      BY <3>1, AppendOkEffect DEF Statuses
    <3> QED
      BY <3>1, <3>2 DEF RecordStays, Terminal
  <2>2. CASE SubmitBounces(s)
    BY <1>1, <2>2 DEF SubmitBounces, AppendFails, journalVars
  <2>3. CASE SubmitCancels(s)
    <3>1. sub[s].msg \in Msgs /\ Mark(sub[s].msg, "cancelled")
      BY <2>3 DEF SubmitCancels, JournalTypes, SubTypes
    <3> QED
      BY <3>1, MarkSettles DEF Begun, Terminal
  <2> QED
    BY <1>1, <1>3, <2>1, <2>2, <2>3
       DEF SubmitStep, SubmitRoutes, SubmitPosts, SubmitEndsTurn, journalVars
<1>4. ASSUME NEW a \in Actors, TurnStep(a) PROVE RecordStays(m)
  <2>1. \/ mem' = mem
        \/ \E n \in Msgs, s \in Begun : Mark(n, s)
    <3>1. CASE CancelMessage(a)
      <4>1. cur[a] # None => cur[a] \in Msgs
        BY DEF JournalTypes
      <4>2. mailbox[a] # <<>> => Head(mailbox[a]) \in Msgs
        <5>1. mailbox[a] \in Seq(Msgs)
          BY DEF JournalTypes
        <5> QED
          BY <5>1, HeadTailProperties
      <4> QED
        BY <3>1, <4>1, <4>2 DEF CancelMessage, Begun, Terminal
    <3>2. CASE TurnRefused(a) \/ TurnStarts(a) \/ TurnOutcome(a)
      <4>1. cur[a] \in Msgs
        BY <3>2 DEF TurnRefused, TurnStarts, TurnOutcome, JournalTypes, InTurn
      <4>2. \E s \in Begun : Mark(cur[a], s)
        BY <3>2
           DEF TurnRefused, TurnStarts, TurnOutcome, Mark, Begun, Terminal
      <4> QED
        BY <4>1, <4>2
    <3> QED
      BY <1>4, <3>1, <3>2
         DEF TurnStep, TakeMessage, SeeDone, ActorExits, Acquires, Run,
             Releases, TurnEnds, journalVars
  <2> QED
    BY <1>1, <2>1, MarkSettles
<1>5. CASE ShutdownStep
  BY <1>1, <1>5
     DEF ShutdownStep, ShutdownBegins, StopActor, ShutdownEnds, journalVars
<1>6. CASE Environment
  <2>1. CASE NewLife
    <3>1. mem' = disk /\ damaged' = damaged
      BY <2>1 DEF NewLife
    <3> QED
      BY <3>1 DEF RecordInv, RecordStays
  <2> QED
    BY <1>1, <1>6, <2>1
       DEF Environment, SubmitAdmits, CancelTurn, StopSignal, journalVars
<1>7. CASE UNCHANGED vars
  BY <1>1, <1>7 DEF vars, journalVars
<1> QED
  BY <1>2, <1>3, <1>4, <1>5, <1>6, <1>7 DEF Next

\* A settled record is final, in memory and over every crash, whoever marks it
\* again, unless one of its records was written badly (validTransition, load).
THEOREM SettledStaysCorrect == Spec => SettledStays
<1>1. JournalInv /\ [Next]_vars
        => [\A m \in Msgs : mem[m] \in Terminal /\ m \notin damaged'
                              => mem'[m] = mem[m]]_vars
  BY RecordsStay DEF RecordStays
<1> QED
  BY <1>1, JournalAlways, PTL DEF Spec, SettledStays

-----------------------------------------------------------------------------
(* Who has a message, and what its sender was told                         *)

\* A submitter that still has to hand the message on, or to settle it.
Sends(s, m) == sub[s].at \in {"route", "post", "undo", "mark"} /\ sub[s].msg = m

Has(a, m) == cur[a] = m \/ InBox(a, m)
Delivered(m) == \E a \in Actors : Has(a, m)

\* Start has not read the journal yet; the gateway serves what it has read.
Early == life \in {"opened", "started", "routed"}
Serves == life \in {"resuming", "serving"} /\ ~done

\* What an actor has in hand, and when it may cancel it.
HandsInv ==
  /\ \A a \in Actors :
       /\ at[a] \in InTurn \cup {"leaving"} => cur[a] \in Msgs
       /\ at[a] \in {"off", "select", "exited"} => cur[a] = None
       /\ at[a] = "drain" => done
  /\ shut => life = "closed"
  /\ Early => pending = {}
  /\ life = "opened" => \A s \in Submitters : sub[s].at = "idle"
  /\ acked \subseteq Msgs

\* A message that is anywhere in the process has a record.
RecordedInv(m) ==
  m \in pending \/ (\E s \in Submitters : Sends(s, m)) \/ Delivered(m)
    => mem[m] # "none"

\* It is in Start's list, with one submitter, or with its actor, unless it was
\* appended while Start was about to read the journal.
ApartInv(m) ==
  /\ m \in pending => (\A s \in Submitters : ~Sends(s, m)) /\ ~Delivered(m)
  /\ \A s, t \in Submitters :
       Sends(s, m) => ~Delivered(m) /\ (Sends(t, m) => t = s)
  /\ Early => (\A s \in Submitters : ~Sends(s, m)) /\ ~Delivered(m)

\* What the journal says of a message whose records were written well.
AckedInv(m) ==
  /\ m \in acked => mem[m] # "none"
  /\ ~shut => \A a \in Actors :
       at[a] \in {"marked", "running", "leaving"} /\ cur[a] = m
         => mem[m] # "accepted"
  /\ Serves /\ m \in acked /\ mem[m] = "accepted"
       => m \in pending \/ Delivered(m)

OwnInv(m) ==
  /\ RecordedInv(m)
  /\ m \notin raced => ApartInv(m)
  /\ m \notin damaged => AckedInv(m)
  /\ m \notin raced \cup damaged =>
       \A a \in Actors : Runs(a, m) => mem[m] = "started"

OwnerInv == HandsInv /\ \A m \in Msgs : OwnInv(m)

\* Nothing has happened to the message.
Still(m) ==
  /\ mem'[m] = mem[m]
  /\ m \in pending' <=> m \in pending
  /\ m \in acked' <=> m \in acked
  /\ \A s \in Submitters : Sends(s, m)' <=> Sends(s, m)
  /\ \A a \in Actors :
       /\ Has(a, m)' <=> Has(a, m)
       /\ cur'[a] = m => cur[a] = m
       /\ cur'[a] = m => at'[a] = at[a]

\* No step but Start's takes the process back, and histories only grow.
Onward ==
  /\ raced \subseteq raced' /\ damaged \subseteq damaged'
  /\ shut => shut'
  /\ Early' => Early
  /\ Serves' => Serves

\* A step does not disturb the messages it is not about.
LEMMA StillKeeps ==
  ASSUME NEW m \in Msgs, OwnInv(m), Still(m), Onward
  PROVE  OwnInv(m)'
<1>1. RecordedInv(m)'
  BY DEF OwnInv, Still, RecordedInv, Delivered
<1>2. m \notin raced' => ApartInv(m)'
  BY DEF OwnInv, Still, Onward, ApartInv, Delivered
<1>3. m \notin damaged' => AckedInv(m)'
  BY DEF OwnInv, Still, Onward, AckedInv, Delivered
<1>4. m \notin raced' \cup damaged' =>
        \A a \in Actors : Runs(a, m)' => mem'[m] = "started"
  BY DEF OwnInv, Still, Onward, Runs
<1> QED
  BY <1>1, <1>2, <1>3, <1>4 DEF OwnInv

\* The mailboxes of TakeFirst and QueueEffect keep their other messages.
LEMMA TakeRest ==
  ASSUME JournalTypes, NEW a \in Actors, mailbox[a] # <<>>,
         mailbox' = [mailbox EXCEPT ![a] = Tail(@)]
  PROVE  \A b \in Actors, m \in Msgs \ {Head(mailbox[a])} :
           InBox(b, m) => InBox(b, m)'
<1>1. mailbox[a] \in Seq(Msgs)
  BY DEF JournalTypes
<1>2. /\ Len(mailbox[a]) \in Nat \ {0}
      /\ Head(mailbox[a]) = mailbox[a][1]
      /\ Len(Tail(mailbox[a])) = Len(mailbox[a]) - 1
      /\ \A i \in 1..(Len(mailbox[a]) - 1) :
           Tail(mailbox[a])[i] = mailbox[a][i + 1]
  BY <1>1, HeadTailProperties, EmptySeq, LenProperties
<1>3. ASSUME NEW m \in Msgs \ {Head(mailbox[a])}, NEW i \in 1..Len(mailbox[a]),
             mailbox[a][i] = m
      PROVE  i - 1 \in 1..Len(Tail(mailbox[a])) /\ Tail(mailbox[a])[i - 1] = m
  BY <1>2, <1>3
<1> QED
  BY <1>3 DEF InBox, JournalTypes

LEMMA QueueRest ==
  ASSUME JournalTypes, NEW a \in Actors, NEW m \in Msgs, Queue(a, m)
  PROVE  /\ InBox(a, m)'
         /\ \A b \in Actors, n \in Msgs : InBox(b, n) => InBox(b, n)'
<1>1. mailbox[a] \in Seq(Msgs) /\ mailbox'[a] = Append(mailbox[a], m)
  BY DEF JournalTypes, Queue
<1>2. /\ Len(mailbox[a]) \in Nat
      /\ Len(Append(mailbox[a], m)) = Len(mailbox[a]) + 1
      /\ \A i \in 1..Len(mailbox[a]) :
           Append(mailbox[a], m)[i] = mailbox[a][i]
      /\ Append(mailbox[a], m)[Len(mailbox[a]) + 1] = m
  BY <1>1, AppendProperties, LenProperties
<1>3. Len(mailbox[a]) + 1 \in 1..Len(mailbox'[a])
  BY <1>1, <1>2
<1>4. \A i \in 1..Len(mailbox[a]) : i \in 1..Len(mailbox'[a])
  BY <1>1, <1>2
<1>5. \A b \in Actors \ {a} : mailbox'[b] = mailbox[b]
  BY DEF Queue, JournalTypes
<1> QED
  BY <1>1, <1>2, <1>3, <1>4, <1>5 DEF InBox

-----------------------------------------------------------------------------
(* Start, and the steps of no message                                      *)

LEMMA OwnerInit == Init => OwnerInv
<1> SUFFICES ASSUME Init PROVE OwnerInv
  OBVIOUS
<1>1. HandsInv
  BY DEF Init, HandsInv, InTurn, Early, Idle
<1>2. ASSUME NEW m \in Msgs PROVE OwnInv(m)
  <2>1. /\ m \notin pending /\ m \notin acked
        /\ \A s \in Submitters : ~Sends(s, m)
        /\ \A a \in Actors : cur[a] # m /\ ~InBox(a, m) /\ ~Runs(a, m)
    BY GatewayAssumption DEF Init, Sends, InBox, Runs, Idle
  <2> QED
    BY <2>1
       DEF OwnInv, RecordedInv, ApartInv, AckedInv, Delivered, Has
<1> QED
  BY <1>1, <1>2 DEF OwnerInv

\* A new life begins with an empty process and the records of the file.
LEMMA NewLifeOwner ==
  ASSUME JournalInv, OwnerInv, NewLife
  PROVE  OwnerInv'
<1>1. /\ mem' = disk /\ UNCHANGED <<acked, raced, damaged>>
      /\ pending' = {} /\ sub' = [s \in Submitters |-> Idle]
      /\ mailbox' = [a \in Actors |-> <<>>] /\ life' = "opened"
      /\ shut' = FALSE
      /\ at' = [a \in Actors |-> "off"] /\ cur' = [a \in Actors |-> None]
  BY DEF NewLife
<1>2. HandsInv'
  BY <1>1 DEF OwnerInv, HandsInv, InTurn, Early, Idle
<1>3. ASSUME NEW m \in Msgs PROVE OwnInv(m)'
  <2>1. /\ m \notin pending' /\ ~Serves'
        /\ \A s \in Submitters : ~Sends(s, m)'
        /\ \A a \in Actors :
             cur'[a] # m /\ ~InBox(a, m)' /\ ~Runs(a, m)'
    BY <1>1, GatewayAssumption DEF Sends, InBox, Runs, Idle, Serves
  <2>2. m \notin damaged /\ m \in acked => mem'[m] # "none"
    <3>1. m \notin damaged => RecordInv(m) /\ OwnInv(m)
      BY DEF JournalInv, OwnerInv
    <3> QED
      BY <1>1, <3>1 DEF RecordInv, OwnInv, AckedInv
  <2> QED
    BY <1>1, <2>1, <2>2
       DEF OwnInv, RecordedInv, ApartInv, AckedInv, Delivered, Has
<1> QED
  BY <1>2, <1>3 DEF OwnerInv

\* The steps that take no message along: an actor is created or waits for its
\* turn, somebody submits, cancels or shuts down.
LEMMA QuietOwner ==
  ASSUME JournalTypes, OwnerInv,
         UNCHANGED <<mem, pending, mailbox, cur, acked, raced>>,
         damaged \subseteq damaged',
         shut => shut', shut' => life' = "closed",
         life' = "opened" => life = "opened" /\ sub' = sub,
         Early' => Early, Serves' => Serves,
         \A s \in Submitters, m \in Msgs : Sends(s, m)' <=> Sends(s, m),
         \A a \in Actors :
           \/ at'[a] = at[a]
           \/ /\ cur[a] = None
              /\ \/ at'[a] \in {"select", "exited"}
                 \/ at'[a] = "drain",
         \A a \in Actors : at'[a] = "drain" => done'
  PROVE  OwnerInv'
<1>1. HandsInv'
  BY DEF OwnerInv, HandsInv, InTurn
<1>2. Onward
  BY DEF Onward
<1>3. ASSUME NEW m \in Msgs PROVE OwnInv(m)'
  <2>1. Still(m)
    BY GatewayAssumption DEF Still, Has, InBox
  <2> QED
    BY <1>2, <2>1, StillKeeps DEF OwnerInv
<1> QED
  BY <1>1, <1>3 DEF OwnerInv

\* Start lists what the journal has accepted, and nothing is in memory then
\* but what was appended just before.
LEMMA ReplaysOwner ==
  ASSUME JournalInv, OwnerInv, StartReplays
  PROVE  OwnerInv'
<1>1. /\ life = "routed" /\ life' = "resuming"
      /\ pending' = {m \in Msgs : mem[m] = "accepted"}
      /\ UNCHANGED <<mem, sub, mailbox, at, cur, acked, raced, damaged, shut,
                     done>>
  BY DEF StartReplays, Replayable, journalVars, submitVars, actorVars,
         historyVars
<1>2. HandsInv'
  BY <1>1 DEF OwnerInv, HandsInv, InTurn, Early
<1>3. ASSUME NEW m \in Msgs PROVE OwnInv(m)'
  <2>1. /\ \A s \in Submitters : Sends(s, m)' <=> Sends(s, m)
        /\ Delivered(m)' <=> Delivered(m)
        /\ \A a \in Actors : Runs(a, m)' <=> Runs(a, m)
        /\ m \in pending' <=> mem[m] = "accepted"
        /\ Early /\ ~Early'
    BY <1>1 DEF Sends, Delivered, Has, InBox, Runs, Early
  <2>2. OwnInv(m)
    BY DEF OwnerInv
  <2>3. RecordedInv(m)'
    BY <1>1, <2>1, <2>2 DEF OwnInv, RecordedInv
  <2>4. m \notin raced' => ApartInv(m)'
    BY <1>1, <2>1, <2>2 DEF OwnInv, ApartInv
  <2>5. m \notin damaged' => AckedInv(m)'
    BY <1>1, <2>1, <2>2 DEF OwnInv, AckedInv
  <2> QED
    BY <1>1, <2>1, <2>2, <2>3, <2>4, <2>5 DEF OwnInv
<1> QED
  BY <1>2, <1>3 DEF OwnerInv

\* A record that a mark was tried on while the journal was open is settled.
LEMMA MarkOnward ==
  ASSUME JournalTypes, NEW m \in Msgs, NEW s \in Terminal, Mark(m, s),
         mem[m] # "none"
  PROVE  /\ mem'[m] # "none"
         /\ m \notin damaged' /\ ~shut => mem'[m] # "accepted"
         /\ m \notin damaged' /\ mem'[m] = "accepted" => mem[m] = "accepted"
<1>1. mem'[m] \in {mem[m], s}
  BY DEF Mark, MarkOk, MarkErr, AppendOk, AppendFails, JournalTypes
<1>2. m \notin damaged' => Marked(m, s)
  BY MarkEffect DEF Statuses
<1>3. mem[m] = "accepted" => ValidTransition(mem[m], s)
  BY DEF ValidTransition, Rank, Terminal
<1> QED
  BY <1>1, <1>2, <1>3 DEF Marked, Terminal

LEMMA ResumePostsOwner ==
  ASSUME JournalInv, OwnerInv, ResumePosts
  PROVE  OwnerInv'
<1>1. PICK m \in Msgs :
        /\ m \in pending
        /\ pending' = pending \ {m}
        /\ \/ Queue(ChatOf[m], m) /\ UNCHANGED <<journalVars, damaged>>
           \/ Mark(m, "failed") /\ UNCHANGED mailbox
  BY DEF ResumePosts, Oldest
<1>2. /\ life = "resuming"
      /\ UNCHANGED <<sub, at, cur, acked, raced, life, done>>
  BY DEF ResumePosts, submitVars
<1>3. /\ \A n \in Msgs \ {m} : mem'[n] = mem[n]
      /\ damaged \subseteq damaged' /\ shut' = shut
      /\ mem'[m] # "none"
      /\ m \notin damaged' /\ mem'[m] = "accepted" => mem[m] = "accepted"
  <2>1. mem[m] # "none" /\ JournalTypes
    BY <1>1 DEF OwnerInv, OwnInv, RecordedInv, JournalInv
  <2>2. CASE Mark(m, "failed")
    BY <2>1, <2>2, MarkEffect, MarkOnward DEF Statuses, Terminal
  <2> QED
    BY <1>1, <2>1, <2>2 DEF journalVars
<1>4. /\ \A a \in Actors, n \in Msgs \ {m} : InBox(a, n)' <=> InBox(a, n)
      /\ \A a \in Actors : InBox(a, m) => InBox(a, m)'
      /\ \/ \E a \in Actors : InBox(a, m)'
         \/ m \notin damaged' /\ ~shut => mem'[m] # "accepted"
  <2>1. CASE Mark(m, "failed") /\ UNCHANGED mailbox
    <3>1. mem[m] # "none" /\ JournalTypes
      BY <1>1 DEF OwnerInv, OwnInv, RecordedInv, JournalInv
    <3> QED
      BY <2>1, <3>1, MarkOnward DEF InBox, Terminal
  <2>2. CASE Queue(ChatOf[m], m)
    <3>1. JournalTypes /\ ChatOf[m] \in Actors
      BY GatewayAssumption DEF JournalInv
    <3>2. /\ InBox(ChatOf[m], m)'
          /\ \A b \in Actors, n \in Msgs : InBox(b, n) => InBox(b, n)'
      BY <2>2, <3>1, QueueRest
    <3>3. \A b \in Actors, n \in Msgs :
            InBox(b, n)' => InBox(b, n) \/ (b = ChatOf[m] /\ n = m)
      BY <2>2, <3>1, QueueEffect
    <3> QED
      BY <3>1, <3>2, <3>3
  <2> QED
    BY <1>1, <2>1, <2>2
<1>5. HandsInv'
  BY <1>1, <1>2, <1>3 DEF OwnerInv, HandsInv, InTurn, Early
<1>6. Onward
  BY <1>2, <1>3 DEF Onward, Early, Serves
<1>7. ASSUME NEW n \in Msgs, n # m PROVE OwnInv(n)'
  <2>1. Still(n)
    BY <1>1, <1>2, <1>3, <1>4, <1>7 DEF Still, Has, Sends
  <2> QED
    BY <1>6, <2>1, StillKeeps DEF OwnerInv
<1>8. OwnInv(m)'
  <2>1. /\ \A s \in Submitters : Sends(s, m)' <=> Sends(s, m)
        /\ \A a \in Actors : Runs(a, m)' => Has(a, m)
    BY <1>2 DEF Sends, Runs, Has
  <2>2. OwnInv(m) /\ ~Early' /\ m \notin pending'
    BY <1>1, <1>2 DEF OwnerInv, Early
  <2>3. RecordedInv(m)'
    BY <1>3 DEF RecordedInv
  <2>4. m \notin raced' => ApartInv(m)'
    BY <1>1, <1>2, <2>1, <2>2 DEF OwnInv, ApartInv
  <2>5. m \notin damaged' => AckedInv(m)'
    <3> SUFFICES ASSUME m \notin damaged' PROVE AckedInv(m)'
      OBVIOUS
    <3>1. mem'[m] = "accepted" => mem[m] = "accepted"
      BY <1>3
    <3>2. ~shut /\ mem'[m] = "accepted" => Delivered(m)'
      BY <1>4 DEF Delivered, Has
    <3>3. ~shut /\ ~shut' /\ AckedInv(m)
      BY <1>2, <1>3, <2>2 DEF OwnerInv, HandsInv, OwnInv
    <3> QED
      BY <1>2, <1>3, <3>1, <3>2, <3>3 DEF AckedInv
  <2>6. m \notin raced' \cup damaged' => \A a \in Actors : ~Runs(a, m)'
    BY <1>1, <1>2, <2>1, <2>2 DEF OwnInv, ApartInv, Delivered
  <2> QED
    BY <2>3, <2>4, <2>5, <2>6 DEF OwnInv
<1> QED
  BY <1>5, <1>7, <1>8 DEF OwnerInv

-----------------------------------------------------------------------------
(* The steps of a submitter                                                *)

LEMMA SendsMoves ==
  ASSUME SubTypes, NEW s \in Submitters, sub[s].at # "idle",
         NEW p \in SubPlaces \ {"idle"}, sub' = [sub EXCEPT ![s].at = p]
  PROVE  /\ \A m \in Msgs :
              Sends(s, m)' <=> p \in {"route", "post", "undo", "mark"}
                                 /\ sub[s].msg = m
         /\ \A t \in Submitters \ {s}, m \in Msgs : Sends(t, m)' <=> Sends(t, m)
<1>1. /\ sub'[s].at = p /\ sub'[s].msg = sub[s].msg
      /\ \A t \in Submitters \ {s} : sub'[t] = sub[t]
  BY SubMoves
<1> QED
  BY <1>1 DEF Sends

LEMMA SendsEnds ==
  ASSUME SubTypes, NEW s \in Submitters, sub' = [sub EXCEPT ![s] = Idle]
  PROVE  /\ \A m \in Msgs : ~Sends(s, m)'
         /\ \A t \in Submitters \ {s}, m \in Msgs : Sends(t, m)' <=> Sends(t, m)
<1>1. /\ sub'[s].at = "idle"
      /\ \A t \in Submitters \ {s} : sub'[t] = sub[t]
  BY SubLeaves
<1> QED
  BY <1>1 DEF Sends

\* The id is new: the message is nowhere, and nobody has been told of it.
LEMMA AppendsOwner ==
  ASSUME JournalInv, OwnerInv, NEW s \in Submitters, SubmitAppends(s)
  PROVE  OwnerInv'
<1>1. PICK m \in Msgs :
      /\ sub[s].msg = m /\ sub[s].at = "append" /\ mem[m] = "none"
      /\ AppendOk(m, "accepted")
      /\ sub' = [sub EXCEPT ![s].at = "route"]
      /\ raced' = IF life \in {"started", "routed"} THEN raced \cup {m}
                  ELSE raced
      /\ UNCHANGED <<pending, mailbox, at, cur, shut, acked, life, done>>
      /\ JournalTypes
  BY DEF SubmitAppends, JournalInv, JournalTypes, SubTypes, processVars,
         actorVars
<1>2. /\ damaged \subseteq damaged'
      /\ \A n \in Msgs \ {m} : mem'[n] = mem[n]
      /\ mem'[m] = "accepted"
  BY <1>1, AppendOkEffect DEF Statuses, AppendOk, JournalTypes
<1>3. /\ \A n \in Msgs : Sends(s, n)' <=> n = m
      /\ \A t \in Submitters \ {s}, n \in Msgs : Sends(t, n)' <=> Sends(t, n)
      /\ \A n \in Msgs \ {m} : ~Sends(s, n)
  <2>1. "route" \in SubPlaces \ {"idle"}
    BY DEF SubPlaces, Admitted
  <2>2. SubTypes /\ sub[s].at # "idle"
    BY <1>1 DEF JournalTypes
  <2>3. /\ \A n \in Msgs : Sends(s, n)' <=> sub[s].msg = n
        /\ \A t \in Submitters \ {s}, n \in Msgs : Sends(t, n)' <=> Sends(t, n)
    BY <1>1, <2>1, <2>2, SendsMoves
  <2> QED
    BY <1>1, <2>3 DEF Sends
<1>4. life # "opened"
  BY <1>1 DEF OwnerInv, HandsInv
<1>5. HandsInv'
  BY <1>1, <1>4 DEF OwnerInv, HandsInv, InTurn, Early
<1>6. Onward
  BY <1>1, <1>2 DEF Onward, Early, Serves
<1>7. ASSUME NEW n \in Msgs, n # m PROVE OwnInv(n)'
  <2>1. Still(n)
    BY <1>1, <1>2, <1>3, <1>7 DEF Still, Has, InBox
  <2> QED
    BY <1>6, <2>1, StillKeeps DEF OwnerInv
<1>8. OwnInv(m)'
  <2>1. RecordedInv(m) /\ OwnInv(m)
    BY <1>1 DEF OwnerInv, OwnInv
  <2>2. /\ m \notin pending /\ (\A t \in Submitters : ~Sends(t, m))
        /\ ~Delivered(m)
    BY <1>1, <2>1 DEF RecordedInv
  <2>3. ~Delivered(m)' /\ (Early' => Early)
    BY <1>1, <2>2 DEF Delivered, Has, InBox, Early
  <2>4. m \notin raced' => ~Early'
    BY <1>1, <1>4 DEF Early
  <2>5. RecordedInv(m)' /\ (m \notin raced' => ApartInv(m)')
    BY <1>1, <1>2, <1>3, <2>2, <2>3, <2>4 DEF RecordedInv, ApartInv
  <2>6. m \notin damaged' => m \notin acked
    BY <1>1, <1>2, <2>1 DEF OwnInv, AckedInv
  <2>7. m \notin damaged' => AckedInv(m)'
    BY <1>1, <1>2, <2>3, <2>6 DEF AckedInv, Delivered, Has
  <2>8. \A a \in Actors : ~Runs(a, m)'
    BY <2>3 DEF Delivered, Has, Runs
  <2> QED
    BY <2>5, <2>7, <2>8 DEF OwnInv
<1> QED
  BY <1>1, <1>5, <1>7, <1>8 DEF OwnerInv

\* The message goes into the mailbox and the sender gets its receipt.
LEMMA ReceiptOwner ==
  ASSUME JournalInv, OwnerInv, NEW s \in Submitters, NEW m \in Msgs,
         sub[s].at = "post", sub[s].msg = m,
         Queue(ChatOf[m], m), acked' = acked \cup {m},
         sub' = [sub EXCEPT ![s] = Idle],
         UNCHANGED <<mem, pending, at, cur, shut, raced, damaged, life, done>>
  PROVE  OwnerInv'
<1>1. JournalTypes /\ SubTypes /\ ChatOf[m] \in Actors
  BY GatewayAssumption DEF JournalInv, JournalTypes
<1>2. /\ \A n \in Msgs : ~Sends(s, n)'
      /\ \A t \in Submitters \ {s}, n \in Msgs : Sends(t, n)' <=> Sends(t, n)
      /\ Sends(s, m) /\ \A n \in Msgs \ {m} : ~Sends(s, n)
  BY <1>1, SendsEnds DEF Sends
<1>3. /\ InBox(ChatOf[m], m)'
      /\ \A b \in Actors, n \in Msgs : InBox(b, n) => InBox(b, n)'
  BY <1>1, QueueRest
<1>4. \A b \in Actors, n \in Msgs \ {m} : InBox(b, n)' => InBox(b, n)
  BY <1>1, QueueEffect
<1>5. life # "opened"
  BY DEF OwnerInv, HandsInv
<1>6. HandsInv'
  BY <1>5 DEF OwnerInv, HandsInv, InTurn, Early
<1>7. Onward
  BY DEF Onward, Early, Serves
<1>8. ASSUME NEW n \in Msgs, n # m PROVE OwnInv(n)'
  <2>1. Still(n)
    BY <1>2, <1>3, <1>4, <1>8 DEF Still, Has
  <2> QED
    BY <1>7, <2>1, StillKeeps DEF OwnerInv
<1>9. OwnInv(m)'
  <2>1. OwnInv(m) /\ mem[m] # "none"
    BY <1>2 DEF OwnerInv, OwnInv, RecordedInv
  <2>2. RecordedInv(m)'
    BY <2>1 DEF RecordedInv
  <2>3. m \notin raced => m \notin pending /\ ~Early /\ ~Delivered(m)
                            /\ \A t \in Submitters \ {s} : ~Sends(t, m)
    BY <1>2, <2>1 DEF OwnInv, ApartInv
  <2>4. m \notin raced' => ApartInv(m)'
    BY <1>2, <2>3 DEF ApartInv, Early
  <2>5. Delivered(m)'
    BY <1>1, <1>3 DEF Delivered, Has
  <2>6. m \notin damaged' => AckedInv(m)'
    BY <2>1, <2>5 DEF OwnInv, AckedInv
  <2>7. m \notin raced' \cup damaged' =>
          \A a \in Actors : Runs(a, m)' => mem'[m] = "started"
    BY <2>1 DEF OwnInv, Runs
  <2> QED
    BY <2>2, <2>4, <2>6, <2>7 DEF OwnInv
<1> QED
  BY <1>6, <1>8, <1>9 DEF OwnerInv

\* A refused message is settled by its submitter, who alone has it.
LEMMA CancelsOwner ==
  ASSUME JournalInv, OwnerInv, NEW s \in Submitters, SubmitCancels(s)
  PROVE  OwnerInv'
<1>1. PICK m \in Msgs :
      /\ sub[s].msg = m /\ sub[s].at = "mark"
      /\ Mark(m, "cancelled")
      /\ sub' = [sub EXCEPT ![s] = Idle]
      /\ UNCHANGED <<pending, mailbox, at, cur, acked, raced, life, done>>
      /\ JournalTypes /\ SubTypes
  BY DEF SubmitCancels, JournalInv, JournalTypes, SubTypes, processVars,
         actorVars
<1>2. /\ \A n \in Msgs : ~Sends(s, n)'
      /\ \A t \in Submitters \ {s}, n \in Msgs : Sends(t, n)' <=> Sends(t, n)
      /\ Sends(s, m) /\ \A n \in Msgs \ {m} : ~Sends(s, n)
  BY <1>1, SendsEnds DEF Sends
<1>3. OwnInv(m) /\ mem[m] # "none"
  BY <1>1, <1>2 DEF OwnerInv, OwnInv, RecordedInv
<1>4. /\ \A n \in Msgs \ {m} : mem'[n] = mem[n]
      /\ damaged \subseteq damaged' /\ shut' = shut
      /\ mem'[m] # "none"
      /\ m \notin damaged' /\ ~shut => mem'[m] # "accepted"
      /\ m \notin damaged' /\ mem'[m] = "accepted" => mem[m] = "accepted"
  BY <1>1, <1>3, MarkEffect, MarkOnward DEF Statuses, Terminal
<1>5. life # "opened"
  BY <1>1 DEF OwnerInv, HandsInv
<1>6. HandsInv'
  BY <1>1, <1>4, <1>5 DEF OwnerInv, HandsInv, InTurn, Early
<1>7. Onward
  BY <1>1, <1>4 DEF Onward, Early, Serves
<1>8. ASSUME NEW n \in Msgs, n # m PROVE OwnInv(n)'
  <2>1. Still(n)
    BY <1>1, <1>2, <1>4, <1>8 DEF Still, Has, InBox
  <2> QED
    BY <1>7, <2>1, StillKeeps DEF OwnerInv
<1>9. OwnInv(m)'
  <2>1. /\ Delivered(m)' <=> Delivered(m)
        /\ \A a \in Actors : Runs(a, m)' => Has(a, m)
    BY <1>1 DEF Delivered, Has, InBox, Runs
  <2>2. RecordedInv(m)'
    BY <1>4 DEF RecordedInv
  <2>3. m \notin raced' => ApartInv(m)'
    BY <1>1, <1>2, <1>3, <2>1 DEF OwnInv, ApartInv, Early
  <2>4. m \notin damaged' => AckedInv(m)'
    BY <1>1, <1>3, <1>4, <2>1 DEF OwnInv, AckedInv, Serves
  <2>5. m \notin raced' => \A a \in Actors : ~Runs(a, m)'
    BY <1>1, <1>2, <1>3, <2>1 DEF OwnInv, ApartInv, Delivered
  <2> QED
    BY <2>2, <2>3, <2>4, <2>5 DEF OwnInv
<1> QED
  BY <1>6, <1>8, <1>9 DEF OwnerInv

LEMMA SubmitOwner ==
  ASSUME JournalInv, HomeInv, OwnerInv, NEW s \in Submitters, SubmitStep(s)
  PROVE  OwnerInv'
<1>1. JournalTypes /\ SubTypes
  BY DEF JournalInv, JournalTypes
<1>2. life # "opened" \/ sub[s].at = "idle"
  BY DEF OwnerInv, HandsInv
<1>3. ASSUME UNCHANGED <<mem, pending, mailbox, cur, acked, raced, shut, life,
                         done>>,
             damaged \subseteq damaged',
             \A t \in Submitters, m \in Msgs : Sends(t, m)' <=> Sends(t, m),
             sub[s].at # "idle",
             \A b \in Actors : \/ at'[b] = at[b]
                               \/ at[b] = "off" /\ at'[b] = "select"
      PROVE  OwnerInv'
  <2>1. \A b \in Actors : \/ at'[b] = at[b]
                          \/ cur[b] = None /\ at'[b] \in {"select", "exited"}
    BY <1>3 DEF OwnerInv, HandsInv
  <2>2. \A b \in Actors : at'[b] = "drain" => done'
    BY <1>3 DEF OwnerInv, HandsInv
  <2>3. /\ Early' => Early
        /\ Serves' => Serves
        /\ shut' => life' = "closed"
    BY <1>3 DEF Early, Serves, OwnerInv, HandsInv
  <2> QED
    BY <1>1, <1>2, <1>3, <2>1, <2>2, <2>3, QuietOwner
<1>4. CASE SubmitBounces(s)
  <2>1. /\ sub[s].at = "append" /\ sub' = [sub EXCEPT ![s].at = "leave"]
        /\ UNCHANGED <<mem, pending, mailbox, cur, acked, raced, shut, life,
                       done, at>>
        /\ damaged \subseteq damaged'
    BY <1>4 DEF SubmitBounces, AppendFails, processVars, journalVars, actorVars
  <2>2. "leave" \in SubPlaces \ {"idle"}
    BY DEF SubPlaces, Admitted
  <2>3. \A t \in Submitters, m \in Msgs : Sends(t, m)' <=> Sends(t, m)
    BY <1>1, <2>1, <2>2, SendsMoves DEF Sends
  <2> QED
    BY <1>3, <2>1, <2>3
<1>5. CASE SubmitRoutes(s)
  <2>1. /\ sub[s].msg \in Msgs /\ sub[s].at = "route"
        /\ \/ sub' = [sub EXCEPT ![s].at = "post"]
           \/ sub' = [sub EXCEPT ![s].at = "undo"]
        /\ UNCHANGED <<mem, pending, acked, raced, damaged, shut, life, done>>
    BY <1>1, <1>5 DEF SubmitRoutes, SubTypes, processVars, journalVars,
                      historyVars
  <2>2. /\ UNCHANGED <<cur, mailbox>>
        /\ \A b \in Actors : \/ at'[b] = at[b]
                             \/ at[b] = "off" /\ at'[b] = "select"
    <3>1. UNCHANGED actorVars \/ ActorStarts(ChatOf[sub[s].msg])
      BY <1>5 DEF SubmitRoutes
    <3> QED
      BY <1>1, <2>1, <3>1, StartedActor, GatewayAssumption DEF actorVars
  <2>3. {"post", "undo"} \subseteq SubPlaces \ {"idle"}
    BY DEF SubPlaces, Admitted
  <2>4. \A t \in Submitters, m \in Msgs : Sends(t, m)' <=> Sends(t, m)
    BY <1>1, <2>1, <2>3, SendsMoves DEF Sends
  <2> QED
    BY <1>3, <2>1, <2>2, <2>4
<1>6. CASE SubmitPosts(s)
  <2> DEFINE m == sub[s].msg
  <2>1. /\ m \in Msgs /\ sub[s].at = "post"
        /\ UNCHANGED <<mem, pending, damaged, raced, shut, at, cur, life, done>>
        /\ \/ /\ Queue(ChatOf[m], m) /\ sub' = [sub EXCEPT ![s] = Idle]
              /\ acked' = acked \cup {m}
           \/ /\ sub' = [sub EXCEPT ![s].at = "undo"]
              /\ UNCHANGED <<mailbox, acked>>
    BY <1>1, <1>6 DEF SubmitPosts, SubTypes, processVars, journalVars
  <2>2. CASE sub' = [sub EXCEPT ![s].at = "undo"] /\ UNCHANGED <<mailbox, acked>>
    <3>1. "undo" \in SubPlaces \ {"idle"}
      BY DEF SubPlaces, Admitted
    <3>2. \A t \in Submitters, n \in Msgs : Sends(t, n)' <=> Sends(t, n)
      BY <1>1, <2>1, <2>2, <3>1, SendsMoves DEF Sends
    <3> QED
      BY <1>3, <2>1, <2>2, <3>2
  <2> QED
    BY <2>1, <2>2, ReceiptOwner
<1>7. CASE SubmitEndsTurn(s)
  <2>1. /\ sub[s].at \in {"leave", "undo"}
        /\ \/ sub[s].at = "leave" /\ sub' = [sub EXCEPT ![s] = Idle]
           \/ sub[s].at = "undo" /\ sub' = [sub EXCEPT ![s].at = "mark"]
        /\ UNCHANGED <<mem, pending, mailbox, cur, acked, raced, damaged, shut,
                       life, done, at>>
    BY <1>1, <1>7 DEF SubmitEndsTurn, SubTypes, processVars, journalVars,
                      actorVars, historyVars
  <2>2. "mark" \in SubPlaces \ {"idle"}
    BY DEF SubPlaces
  <2>3. \A t \in Submitters, m \in Msgs : Sends(t, m)' <=> Sends(t, m)
    BY <1>1, <2>1, <2>2, SendsMoves, SendsEnds DEF Sends
  <2> QED
    BY <1>3, <2>1, <2>3
<1> QED
  BY <1>4, <1>5, <1>6, <1>7, AppendsOwner, CancelsOwner DEF SubmitStep

-----------------------------------------------------------------------------
(* The steps of an actor's goroutine                                       *)

LEMMA TakeOwner ==
  ASSUME JournalInv, OwnerInv, NEW a \in Actors, TakeMessage(a)
  PROVE  OwnerInv'
<1>1. JournalTypes /\ mailbox[a] # <<>>
      /\ mailbox' = [mailbox EXCEPT ![a] = Tail(@)]
  BY DEF TakeMessage, JournalInv
<1>2. PICK m \in Msgs : m = Head(mailbox[a])
  BY <1>1, TakeFirst
<1>3. /\ at[a] = "select" /\ cur' = [cur EXCEPT ![a] = m]
      /\ \/ at' = [at EXCEPT ![a] = "acquire"]
         \/ done /\ at' = [at EXCEPT ![a] = "drain"]
      /\ UNCHANGED <<mem, pending, sub, damaged, raced, acked, shut, life,
                     done>>
  BY <1>2 DEF TakeMessage, processVars, journalVars, submitVars, historyVars
<1>4. /\ InBox(a, m)
      /\ \A b \in Actors, n \in Msgs : InBox(b, n)' => InBox(b, n)
      /\ \A b \in Actors, n \in Msgs \ {m} : InBox(b, n) => InBox(b, n)'
  BY <1>1, <1>2, TakeFirst, TakeRest
<1>5. /\ cur[a] = None /\ cur'[a] = m
      /\ at'[a] \in {"acquire", "drain"} /\ (at'[a] = "drain" => done)
      /\ \A b \in Actors \ {a} : at'[b] = at[b] /\ cur'[b] = cur[b]
  BY <1>1, <1>3 DEF JournalTypes, OwnerInv, HandsInv
<1>6. HandsInv'
  <2>1. \A b \in Actors :
          /\ at'[b] \in InTurn \cup {"leaving"} => cur'[b] \in Msgs
          /\ at'[b] \in {"off", "select", "exited"} => cur'[b] = None
          /\ at'[b] = "drain" => done
    BY <1>5 DEF OwnerInv, HandsInv
  <2> QED
    BY <1>3, <2>1 DEF OwnerInv, HandsInv, Early
<1>7. Onward
  BY <1>3 DEF Onward, Early, Serves
<1>8. ASSUME NEW n \in Msgs, n # m PROVE OwnInv(n)'
  <2>1. Still(n)
    BY <1>3, <1>4, <1>5, <1>8, GatewayAssumption DEF Still, Has, Sends
  <2> QED
    BY <1>7, <2>1, StillKeeps DEF OwnerInv
<1>9. OwnInv(m)'
  <2>1. OwnInv(m)
    BY DEF OwnerInv
  <2>2. \A b \in Actors : Has(b, m)' => Has(b, m)
    BY <1>4, <1>5 DEF Has
  <2>3. Delivered(m) /\ Delivered(m)'
    BY <1>4, <1>5 DEF Delivered, Has
  <2>4. \A s \in Submitters : Sends(s, m)' <=> Sends(s, m)
    BY <1>3 DEF Sends
  <2>5. \A b \in Actors :
          at'[b] \in {"marked", "running", "leaving"} => at'[b] = at[b]
                                                  /\ cur'[b] = cur[b]
    BY <1>5
  <2>6. RecordedInv(m)' /\ (m \notin raced' => ApartInv(m)')
    BY <1>3, <2>1, <2>3, <2>4 DEF OwnInv, RecordedInv, ApartInv, Early
  <2>7. m \notin damaged' => AckedInv(m)'
    BY <1>3, <2>1, <2>3, <2>5 DEF OwnInv, AckedInv
  <2>8. \A b \in Actors : Runs(b, m)' => Runs(b, m)
    BY <2>5 DEF Runs
  <2> QED
    BY <1>3, <2>1, <2>6, <2>7, <2>8 DEF OwnInv
<1> QED
  BY <1>6, <1>8, <1>9 DEF OwnerInv

\* What is cancelled once the context is done is settled and gone.
LEMMA DrainOwner ==
  ASSUME JournalInv, OwnerInv, NEW a \in Actors, CancelMessage(a)
  PROVE  OwnerInv'
<1>1. JournalTypes
  BY DEF JournalInv
<1>2. PICK m \in Msgs :
        /\ Mark(m, "cancelled")
        /\ Has(a, m)
        /\ cur'[a] \in {cur[a], None} /\ (cur[a] # m => cur'[a] = cur[a])
        /\ \A b \in Actors \ {a} : cur'[b] = cur[b]
        /\ \A b \in Actors, n \in Msgs : InBox(b, n)' => InBox(b, n)
        /\ \A b \in Actors, n \in Msgs \ {m} : InBox(b, n) => InBox(b, n)'
  <2>1. CASE /\ cur[a] # None
             /\ Mark(cur[a], "cancelled")
             /\ cur' = [cur EXCEPT ![a] = None]
             /\ mailbox' = mailbox
    <3>1. cur[a] \in Msgs
      BY <1>1, <2>1 DEF JournalTypes
    <3> QED
      BY <1>1, <2>1, <3>1 DEF JournalTypes, InBox, Has
  <2>2. CASE /\ mailbox[a] # <<>>
             /\ Mark(Head(mailbox[a]), "cancelled")
             /\ mailbox' = [mailbox EXCEPT ![a] = Tail(@)]
             /\ cur' = cur
    BY <1>1, <2>2, TakeFirst, TakeRest DEF Has
  <2> QED
    BY <2>1, <2>2 DEF CancelMessage
<1>3. /\ at[a] = "drain" /\ done
      /\ UNCHANGED <<pending, sub, at, raced, acked, life, done>>
  BY DEF CancelMessage, processVars, OwnerInv, HandsInv
<1>4. OwnInv(m) /\ mem[m] # "none"
  BY <1>2 DEF OwnerInv, OwnInv, RecordedInv, Delivered
<1>5. /\ \A n \in Msgs \ {m} : mem'[n] = mem[n]
      /\ damaged \subseteq damaged' /\ shut' = shut
      /\ mem'[m] # "none"
      /\ m \notin damaged' /\ mem'[m] = "accepted" => mem[m] = "accepted"
  BY <1>1, <1>2, <1>4, MarkEffect, MarkOnward DEF Statuses, Terminal
<1>6. HandsInv'
  <2>1. \A b \in Actors :
          /\ at'[b] \in InTurn \cup {"leaving"} => cur'[b] \in Msgs
          /\ at'[b] \in {"off", "select", "exited"} => cur'[b] = None
          /\ at'[b] = "drain" => done
    BY <1>2, <1>3 DEF OwnerInv, HandsInv, InTurn
  <2> QED
    BY <1>3, <1>5, <2>1 DEF OwnerInv, HandsInv, Early
<1>7. Onward
  BY <1>3, <1>5 DEF Onward, Early, Serves
<1>8. ASSUME NEW n \in Msgs, n # m PROVE OwnInv(n)'
  <2>1. \A b \in Actors : /\ Has(b, n)' <=> Has(b, n)
                          /\ cur'[b] = n => cur[b] = n
    BY <1>2, <1>8, GatewayAssumption DEF Has
  <2>2. Still(n)
    BY <1>3, <1>5, <1>8, <2>1 DEF Still, Sends
  <2> QED
    BY <1>7, <2>2, StillKeeps DEF OwnerInv
<1>9. OwnInv(m)'
  <2>1. \A b \in Actors : /\ Has(b, m)' => Has(b, m)
                          /\ cur'[b] = m => cur[b] = m
    BY <1>2, GatewayAssumption DEF Has
  <2>2. /\ Delivered(m)' => Delivered(m)
        /\ \A s \in Submitters : Sends(s, m)' <=> Sends(s, m)
    BY <1>3, <2>1 DEF Delivered, Sends
  <2>3. RecordedInv(m)'
    BY <1>5 DEF RecordedInv
  <2>4. m \notin raced' => ApartInv(m)'
    BY <1>3, <1>4, <2>2 DEF OwnInv, ApartInv, Early
  <2>5. m \notin damaged' => AckedInv(m)'
    BY <1>3, <1>4, <1>5, <2>1 DEF OwnInv, AckedInv, Serves
  <2>6. \A b \in Actors : ~Runs(b, m)'
    <3>1. \A b \in Actors : Has(b, m) => b = a
      BY <1>2 DEF JournalInv, RoutedInv, Has
    <3> QED
      BY <1>3, <2>1, <3>1 DEF Runs, Has
  <2> QED
    BY <2>3, <2>4, <2>5, <2>6 DEF OwnInv
<1> QED
  BY <1>6, <1>8, <1>9 DEF OwnerInv

\* The turn marks its own message: nobody else has it.
LEMMA TurnMarkOwner ==
  ASSUME JournalInv, OwnerInv, NEW a \in Actors, NEW m \in Msgs, cur[a] = m,
         NEW p \in {"marked", "running", "leaving"},
         at' = [at EXCEPT ![a] = p],
         UNCHANGED <<pending, sub, mailbox, cur, raced, acked, shut, life,
                     done>>,
         damaged \subseteq damaged',
         \A n \in Msgs \ {m} : mem'[n] = mem[n],
         mem'[m] # "none",
         m \notin damaged' /\ ~shut => mem'[m] # "accepted",
         m \notin damaged' /\ mem'[m] = "accepted" => mem[m] = "accepted",
         p \in {"marked", "running"} /\ m \notin damaged' \cup raced
           => mem'[m] = "started"
  PROVE  OwnerInv'
<1>1. /\ at'[a] = p
      /\ \A b \in Actors \ {a} : at'[b] = at[b]
  BY DEF JournalInv, JournalTypes
<1>2. HandsInv'
  <2>1. \A b \in Actors :
          /\ at'[b] \in InTurn \cup {"leaving"} => cur'[b] \in Msgs
          /\ at'[b] \in {"off", "select", "exited"} => cur'[b] = None
          /\ at'[b] = "drain" => done
    BY <1>1 DEF OwnerInv, HandsInv
  <2> QED
    BY <2>1 DEF OwnerInv, HandsInv, Early
<1>3. Onward
  BY DEF Onward, Early, Serves
<1>4. ASSUME NEW n \in Msgs, n # m PROVE OwnInv(n)'
  <2>1. Still(n)
    BY <1>1, <1>4 DEF Still, Has, InBox, Sends
  <2> QED
    BY <1>3, <2>1, StillKeeps DEF OwnerInv
<1>5. OwnInv(m)'
  <2>1. /\ Delivered(m)' <=> Delivered(m)
        /\ \A s \in Submitters : Sends(s, m)' <=> Sends(s, m)
        /\ OwnInv(m)
    BY DEF Delivered, Has, InBox, Sends, OwnerInv
  <2>2. \A b \in Actors : cur'[b] = m => b = a
    BY DEF JournalInv, RoutedInv
  <2>3. RecordedInv(m)'
    BY DEF RecordedInv
  <2>4. m \notin raced' => ApartInv(m)'
    BY <2>1 DEF OwnInv, ApartInv, Early
  <2>5. m \notin damaged' => AckedInv(m)'
    BY <2>1 DEF OwnInv, AckedInv, Serves
  <2>6. m \notin raced' \cup damaged' =>
          \A b \in Actors : Runs(b, m)' => mem'[m] = "started"
    BY <1>1, <2>2 DEF Runs
  <2> QED
    BY <2>3, <2>4, <2>5, <2>6 DEF OwnInv
<1> QED
  BY <1>2, <1>4, <1>5 DEF OwnerInv

\* The turn is over: what it ran, or refused to run, is not "accepted" any more.
LEMMA TurnEndsOwner ==
  ASSUME JournalInv, OwnerInv, NEW a \in Actors, TurnEnds(a)
  PROVE  OwnerInv'
<1>1. /\ at[a] = "leaving" /\ cur[a] \in Msgs
      /\ at' = [at EXCEPT ![a] = "select"]
      /\ cur' = [cur EXCEPT ![a] = None]
      /\ UNCHANGED <<mem, pending, sub, mailbox, damaged, raced, acked, shut,
                     life, done>>
  BY DEF TurnEnds, OwnerInv, HandsInv, processVars, journalVars, historyVars
<1>2. PICK m \in Msgs : m = cur[a]
  BY <1>1
<1>3. /\ at'[a] = "select" /\ cur'[a] = None
      /\ \A b \in Actors \ {a} : at'[b] = at[b] /\ cur'[b] = cur[b]
  BY <1>1 DEF JournalInv, JournalTypes
<1>4. HandsInv'
  <2>1. \A b \in Actors :
          /\ at'[b] \in InTurn \cup {"leaving"} => cur'[b] \in Msgs
          /\ at'[b] \in {"off", "select", "exited"} => cur'[b] = None
          /\ at'[b] = "drain" => done
    BY <1>3 DEF OwnerInv, HandsInv, InTurn
  <2> QED
    BY <1>1, <2>1 DEF OwnerInv, HandsInv, Early
<1>5. Onward
  BY <1>1 DEF Onward, Early, Serves
<1>6. ASSUME NEW n \in Msgs, n # m PROVE OwnInv(n)'
  <2>1. Still(n)
    BY <1>1, <1>2, <1>3, <1>6, GatewayAssumption DEF Still, Has, InBox, Sends
  <2> QED
    BY <1>5, <2>1, StillKeeps DEF OwnerInv
<1>7. OwnInv(m)'
  <2>1. /\ \A b \in Actors : /\ Has(b, m)' => Has(b, m)
                             /\ cur'[b] = m => at'[b] = at[b] /\ cur[b] = m
        /\ \A s \in Submitters : Sends(s, m)' <=> Sends(s, m)
        /\ OwnInv(m)
    BY <1>1, <1>3, GatewayAssumption DEF Has, InBox, Sends, OwnerInv
  <2>2. Delivered(m)' => Delivered(m)
    BY <2>1 DEF Delivered
  <2>3. RecordedInv(m)' /\ (m \notin raced' => ApartInv(m)')
    BY <1>1, <2>1, <2>2 DEF OwnInv, RecordedInv, ApartInv, Early
  <2>4. m \notin damaged /\ ~shut => mem[m] # "accepted"
    BY <1>1, <1>2, <2>1 DEF OwnInv, AckedInv
  <2>5. Serves => ~shut
    BY DEF Serves, OwnerInv, HandsInv
  <2>6. m \notin damaged' => AckedInv(m)'
    BY <1>1, <2>1, <2>4, <2>5 DEF OwnInv, AckedInv, Serves
  <2>7. \A b \in Actors : Runs(b, m)' => Runs(b, m)
    BY <2>1 DEF Runs
  <2> QED
    BY <1>1, <2>1, <2>3, <2>6, <2>7 DEF OwnInv
<1> QED
  BY <1>4, <1>6, <1>7 DEF OwnerInv

LEMMA TurnOwner ==
  ASSUME JournalInv, OwnerInv, NEW a \in Actors, TurnStep(a)
  PROVE  OwnerInv'
<1>1. JournalTypes
  BY DEF JournalInv
\* What is known of the message in hand while the actor's turn marks it.
<1>2. ASSUME NEW m \in Msgs, cur[a] = m, NEW s \in Terminal, Mark(m, s),
             at' = [at EXCEPT ![a] = "leaving"],
             UNCHANGED <<pending, sub, mailbox, cur, raced, acked, life, done>>
      PROVE  OwnerInv'
  <2>1. mem[m] # "none"
    BY <1>2 DEF OwnerInv, OwnInv, RecordedInv, Delivered, Has
  <2>2. /\ \A n \in Msgs \ {m} : mem'[n] = mem[n]
        /\ damaged \subseteq damaged' /\ shut' = shut
    BY <1>1, <1>2, MarkEffect DEF Statuses
  <2>3. /\ mem'[m] # "none"
        /\ m \notin damaged' /\ ~shut => mem'[m] # "accepted"
        /\ m \notin damaged' /\ mem'[m] = "accepted" => mem[m] = "accepted"
    BY <1>1, <1>2, <2>1, MarkOnward
  <2> QED
    BY <1>2, <2>2, <2>3, TurnMarkOwner
<1>3. CASE TurnRefused(a)
  BY <1>1, <1>2, <1>3
     DEF TurnRefused, processVars, submitVars, Terminal, JournalTypes, InTurn
<1>4. CASE TurnOutcome(a)
  BY <1>1, <1>2, <1>4
     DEF TurnOutcome, processVars, submitVars, Terminal, JournalTypes, InTurn
<1>5. CASE TurnStarts(a)
  <2>1. PICK m \in Msgs, p \in {"marked", "leaving"} :
          /\ cur[a] = m
          /\ IF p = "marked" THEN MarkOk(m, "started") ELSE MarkErr(m, "started")
          /\ at' = [at EXCEPT ![a] = p]
          /\ UNCHANGED <<pending, sub, mailbox, cur, raced, acked, life, done>>
    <3>1. cur[a] \in Msgs
      BY <1>1, <1>5 DEF TurnStarts, JournalTypes, InTurn
    <3> QED
      BY <1>5, <3>1 DEF TurnStarts, processVars, submitVars
  <2>2. mem[m] # "none"
    BY <2>1 DEF OwnerInv, OwnInv, RecordedInv, Delivered, Has
  <2>3. /\ \A n \in Msgs \ {m} : mem'[n] = mem[n]
        /\ damaged \subseteq damaged' /\ shut' = shut
        /\ m \notin damaged' => Marked(m, "started")
    BY <1>1, <2>1, MarkEffect DEF Statuses, Mark
  <2>4. mem'[m] \in {mem[m], "started"}
    BY <1>1, <2>1 DEF MarkOk, MarkErr, AppendOk, AppendFails, JournalTypes
  <2>5. p = "marked" => mem'[m] = "started"
    BY <1>1, <2>1 DEF MarkOk, AppendOk, JournalTypes
  <2>6. m \notin damaged' /\ ~shut => mem'[m] # "accepted"
    <3>1. mem[m] = "accepted" => ValidTransition(mem[m], "started")
      BY DEF ValidTransition, Rank, Terminal
    <3> QED
      BY <2>2, <2>3, <3>1 DEF Marked
  <2> QED
    BY <2>1, <2>2, <2>3, <2>4, <2>5, <2>6, TurnMarkOwner
<1>6. CASE Run(a)
  <2>1. PICK m \in Msgs :
          /\ cur[a] = m /\ at[a] = "marked"
          /\ at' = [at EXCEPT ![a] = "running"]
          /\ UNCHANGED <<mem, pending, sub, mailbox, cur, raced, acked, damaged,
                         shut, life, done>>
    BY <1>1, <1>6
       DEF Run, JournalTypes, InTurn, processVars, journalVars, submitVars
  <2>2. OwnInv(m) /\ Runs(a, m) /\ Delivered(m)
    BY <2>1 DEF OwnerInv, Runs, Delivered, Has
  <2>3. /\ mem[m] # "none"
        /\ m \notin damaged /\ ~shut => mem[m] # "accepted"
        /\ m \notin damaged \cup raced => mem[m] = "started"
    BY <2>1, <2>2 DEF OwnInv, RecordedInv, AckedInv
  <2> QED
    BY <2>1, <2>3, TurnMarkOwner
<1>7. CASE SeeDone(a) \/ ActorExits(a) \/ Acquires(a) \/ Releases(a)
  <2>1. /\ UNCHANGED <<mem, pending, sub, mailbox, cur, acked, raced, damaged,
                       shut, life, done>>
        /\ \/ UNCHANGED at
           \/ /\ cur[a] = None
              /\ \/ done /\ at' = [at EXCEPT ![a] = "drain"]
                 \/ at' = [at EXCEPT ![a] = "exited"]
    <3>1. at[a] = "select" => cur[a] = None
      BY DEF OwnerInv, HandsInv
    <3> QED
      BY <1>7, <3>1
         DEF SeeDone, ActorExits, Acquires, Releases, processVars, journalVars,
             submitVars, actorVars, historyVars
  <2>2. \A b \in Actors :
          /\ \/ at'[b] = at[b]
             \/ cur[b] = None /\ at'[b] \in {"select", "exited"}
             \/ cur[b] = None /\ at'[b] = "drain"
          /\ at'[b] = "drain" => done
    BY <1>1, <2>1 DEF JournalTypes, OwnerInv, HandsInv
  <2>3. /\ Early' => Early
        /\ Serves' => Serves
        /\ shut' => life' = "closed"
        /\ \A s \in Submitters, m \in Msgs : Sends(s, m)' <=> Sends(s, m)
    BY <2>1 DEF Early, Serves, OwnerInv, HandsInv, Sends
  <2> QED
    BY <1>1, <2>1, <2>2, <2>3, QuietOwner
<1> QED
  BY <1>3, <1>4, <1>5, <1>6, <1>7, TakeOwner, DrainOwner, TurnEndsOwner
     DEF TurnStep

-----------------------------------------------------------------------------
(* The invariant holds always                                              *)

LEMMA OwnerStep ==
  JournalInv /\ HomeInv /\ OwnerInv /\ [Next]_vars => OwnerInv'
<1> SUFFICES ASSUME JournalInv, HomeInv, OwnerInv, [Next]_vars PROVE OwnerInv'
  OBVIOUS
<1>1. JournalTypes /\ SubTypes
  BY DEF JournalInv, JournalTypes
\* A step that moves no message and starts no actor but an idle one.
<1>2. ASSUME UNCHANGED <<mem, pending, mailbox, cur, acked, raced, damaged>>,
             shut => shut', shut' => life' = "closed",
             life' = "opened" => life = "opened" /\ sub' = sub,
             Early' => Early, Serves' => Serves, done => done',
             \A s \in Submitters, m \in Msgs : Sends(s, m)' <=> Sends(s, m),
             \A b \in Actors : \/ at'[b] = at[b]
                               \/ at[b] = "off" /\ at'[b] = "select"
      PROVE  OwnerInv'
  <2>1. \A b \in Actors : \/ at'[b] = at[b]
                          \/ cur[b] = None /\ at'[b] \in {"select", "exited"}
    BY <1>2 DEF OwnerInv, HandsInv
  <2>2. \A b \in Actors : at'[b] = "drain" => done'
    BY <1>2 DEF OwnerInv, HandsInv
  <2> QED
    BY <1>1, <1>2, <2>1, <2>2, QuietOwner
<1>3. CASE StartStep
  <2>1. CASE ResumeRoutes
    <3>1. PICK m \in Msgs : ActorStarts(ChatOf[m])
      BY <2>1 DEF ResumeRoutes
    <3>2. /\ UNCHANGED <<cur, mailbox>>
          /\ \A b \in Actors : \/ at'[b] = at[b]
                               \/ at[b] = "off" /\ at'[b] = "select"
      BY <1>1, <3>1, StartedActor, GatewayAssumption
    <3>3. /\ UNCHANGED <<mem, pending, acked, raced, damaged, shut, sub, life,
                         done>>
          /\ shut => life = "closed"
      BY <2>1 DEF ResumeRoutes, processVars, journalVars, submitVars,
                  historyVars, OwnerInv, HandsInv
    <3> QED
      BY <1>2, <3>2, <3>3 DEF Early, Serves, Sends
  <2>2. CASE StartBegins \/ StartRoutes \/ StartEnds
    <3>1. /\ UNCHANGED <<mem, mailbox, cur, at, acked, raced, damaged, shut,
                         sub, done, pending>>
          /\ \/ life = "opened" /\ life' = "started"
             \/ life = "started" /\ life' = "routed"
             \/ life = "resuming" /\ life' = "serving"
          /\ shut => life = "closed"
      BY <2>2 DEF StartBegins, StartRoutes, StartEnds, journalVars, submitVars,
                  actorVars, historyVars, OwnerInv, HandsInv
    <3>2. /\ Early' => Early
          /\ Serves' => Serves
          /\ \A s \in Submitters, m \in Msgs : Sends(s, m)' <=> Sends(s, m)
          /\ shut' => life' = "closed"
          /\ life' # "opened"
      BY <3>1 DEF Early, Serves, Sends
    <3> QED
      BY <1>2, <3>1, <3>2
  <2> QED
    BY <1>3, <2>1, <2>2, ReplaysOwner, ResumePostsOwner DEF StartStep
<1>4. ASSUME NEW s \in Submitters, SubmitStep(s) PROVE OwnerInv'
  BY <1>4, SubmitOwner
<1>5. ASSUME NEW a \in Actors, TurnStep(a) PROVE OwnerInv'
  BY <1>5, TurnOwner
<1>6. CASE ShutdownStep
  <2>1. /\ UNCHANGED <<mem, mailbox, cur, at, acked, raced, damaged, sub, done,
                       pending>>
        /\ \/ UNCHANGED <<life, shut>>
           \/ life = "serving" /\ done /\ life' = "stopping" /\ shut' = shut
           \/ life' = "closed" /\ shut'
        /\ shut => life = "closed"
    BY <1>6 DEF ShutdownStep, ShutdownBegins, StopActor, ShutdownEnds,
                processVars, journalVars, submitVars, actorVars, historyVars,
                OwnerInv, HandsInv
  <2>2. /\ Early' => Early
        /\ Serves' => Serves
        /\ \A s \in Submitters, m \in Msgs : Sends(s, m)' <=> Sends(s, m)
        /\ shut' => life' = "closed"
        /\ life' = "opened" => life = "opened"
        /\ shut => shut'
    BY <2>1 DEF Early, Serves, Sends
  <2> QED
    BY <1>2, <2>1, <2>2
<1>7. CASE Environment
  <2>1. ASSUME NEW s \in Submitters, NEW n \in Msgs, SubmitAdmits(s, n)
        PROVE  OwnerInv'
    <3>1. /\ sub[s] = Idle /\ life # "opened"
          /\ sub' = [sub EXCEPT ![s] = [at |-> "append", msg |-> n]]
          /\ UNCHANGED <<mem, mailbox, cur, at, acked, raced, damaged, shut,
                         life, done, pending>>
          /\ shut => life = "closed"
      BY <2>1 DEF SubmitAdmits, processVars, journalVars, actorVars,
                  historyVars, OwnerInv, HandsInv
    <3>2. \A t \in Submitters, m \in Msgs : Sends(t, m)' <=> Sends(t, m)
      BY <1>1, <3>1 DEF Sends, SubTypes, Idle
    <3> QED
      BY <1>2, <3>1, <3>2 DEF Early, Serves
  <2>2. ASSUME NEW a \in Actors, CancelTurn(a) PROVE OwnerInv'
    <3>1. /\ UNCHANGED <<mem, mailbox, cur, at, acked, raced, damaged, shut,
                         sub, life, done, pending>>
          /\ shut => life = "closed"
      BY <2>2 DEF CancelTurn, journalVars, submitVars, actorVars, historyVars,
                  OwnerInv, HandsInv
    <3> QED
      BY <1>2, <3>1 DEF Early, Serves, Sends
  <2>3. CASE StopSignal
    <3>1. /\ UNCHANGED <<mem, mailbox, cur, at, acked, raced, damaged, shut,
                         sub, life, pending>>
          /\ done'
          /\ shut => life = "closed"
      BY <2>3 DEF StopSignal, submitVars, actorVars, historyVars, OwnerInv,
                  HandsInv
    <3> QED
      BY <1>2, <3>1 DEF Early, Serves, Sends
  <2> QED
    BY <1>7, <2>1, <2>2, <2>3, NewLifeOwner DEF Environment
<1>8. CASE UNCHANGED vars
  <2>1. /\ UNCHANGED <<mem, mailbox, cur, at, acked, raced, damaged, shut,
                       sub, life, done, pending>>
        /\ shut => life = "closed"
    BY <1>8 DEF vars, processVars, journalVars, submitVars, actorVars,
                historyVars, OwnerInv, HandsInv
  <2> QED
    BY <1>2, <2>1 DEF Early, Serves, Sends
<1> QED
  BY <1>3, <1>4, <1>5, <1>6, <1>7, <1>8 DEF Next

LEMMA OwnerAlways == Spec => [](JournalInv /\ HomeInv /\ OwnerInv)
<1>1. Init => JournalInv /\ HomeInv /\ OwnerInv
  BY JournalInit, HomeInit, OwnerInit
<1>2. JournalInv /\ HomeInv /\ OwnerInv /\ [Next]_vars
        => JournalInv' /\ HomeInv' /\ OwnerInv'
  BY JournalStep, HomeStep, OwnerStep
<1> QED
  BY <1>1, <1>2, PTL DEF Spec

\* While a turn runs its record is "started", in memory and on disk, whoever
\* submits, replays, cancels or shuts down meanwhile (Actor.process; Submit's
\* and shutdown's MarkCancelled).
THEOREM TurnOwnsRecordCorrect == Spec => []TurnOwnsRecord
<1>1. JournalInv /\ OwnerInv => TurnOwnsRecord
  <2> SUFFICES ASSUME JournalInv, OwnerInv, NEW a \in Actors,
                      at[a] \in {"marked", "running"},
                      cur[a] \notin damaged \cup raced
               PROVE  mem[cur[a]] = "started" /\ disk[cur[a]] = "started"
    BY DEF TurnOwnsRecord
  <2>1. cur[a] \in Msgs /\ Runs(a, cur[a])
    BY DEF OwnerInv, HandsInv, InTurn, Runs
  <2>2. OwnInv(cur[a]) /\ RecordInv(cur[a])
    BY <2>1 DEF OwnerInv, JournalInv
  <2> QED
    BY <2>1, <2>2 DEF OwnInv, RecordInv
<1> QED
  BY <1>1, OwnerAlways, PTL

\* A message whose sender has a receipt is not forgotten while the gateway
\* serves: if it is only accepted, it waits in memory (Submit, resume,
\* Actor.run).
THEOREM AckedOwnedCorrect == Spec => []AckedOwned
<1>1. OwnerInv => AckedOwned
  <2> SUFFICES ASSUME OwnerInv, Serves, NEW m \in acked \ damaged,
                      mem[m] = "accepted"
               PROVE  InMemory(m)
    BY DEF AckedOwned, Serves
  <2>1. OwnInv(m)
    BY DEF OwnerInv, HandsInv
  <2> QED
    BY <2>1
       DEF OwnInv, AckedInv, Delivered, Has, InBox, InMemory, Contains
<1> QED
  BY <1>1, OwnerAlways, PTL

-----------------------------------------------------------------------------
(* The slots of the limiter                                                *)

\* What the limiter should count: the slots that somebody will give back.
Owed == Cardinality(Slots) + Cardinality(Held) + Cardinality(Queued)

SlotInv ==
  /\ active \in Nat
  /\ IsFiniteSet(Queued)
  /\ ~resumed => active = Owed

LEMMA OwedSets ==
  /\ IsFiniteSet(Slots) /\ IsFiniteSet(Held)
  /\ Cardinality(Slots) \in Nat /\ Cardinality(Held) \in Nat
<1>1. Slots \subseteq Submitters /\ Held \subseteq Actors
  BY DEF Slots, Held
<1> QED
  BY <1>1, GatewayAssumption, SchedulerAssumption, FS_Subset,
     FS_CardinalityType

\* One element more, or one less.
LEMMA OneMore ==
  ASSUME NEW S, IsFiniteSet(S), NEW x, x \notin S
  PROVE  /\ IsFiniteSet(S \cup {x})
         /\ Cardinality(S \cup {x}) = Cardinality(S) + 1
BY FS_AddElement

LEMMA OneLess ==
  ASSUME NEW S, IsFiniteSet(S), NEW x \in S
  PROVE  /\ IsFiniteSet(S \ {x})
         /\ Cardinality(S) \in Nat \ {0}
         /\ Cardinality(S \ {x}) = Cardinality(S) - 1
<1>1. S # {}
  OBVIOUS
<1> QED
  BY <1>1, FS_RemoveElement, FS_CardinalityType, FS_EmptySet

\* The messages in the mailboxes, by their places.
LEMMA QueuedPlaces ==
  ASSUME JournalTypes
  PROVE  \A x : x \in Queued <=>
           \E b \in Actors : \E i \in 1..Len(mailbox[b]) : x = <<b, i>>
BY DEF Queued

LEMMA QueuedMore ==
  ASSUME JournalTypes, IsFiniteSet(Queued), NEW a \in Actors, NEW m \in Msgs,
         Queue(a, m)
  PROVE  /\ IsFiniteSet(Queued')
         /\ Cardinality(Queued') = Cardinality(Queued) + 1
<1> DEFINE l == Len(mailbox[a])
           x == <<a, l + 1>>
<1>1. mailbox[a] \in Seq(Msgs) /\ mailbox'[a] = Append(mailbox[a], m)
  BY DEF JournalTypes, Queue
<1>2. l \in Nat /\ Len(mailbox'[a]) = l + 1
  BY <1>1, AppendProperties, LenProperties
<1>3. \A b \in Actors \ {a} : mailbox'[b] = mailbox[b]
  BY DEF Queue, JournalTypes
<1>4. 1..(l + 1) = (1..l) \cup {l + 1}
  BY <1>2
<1> HIDE DEF l
<1>5. \A y : y \in Queued' <=>
        \E b \in Actors : \E i \in 1..Len(mailbox'[b]) : y = <<b, i>>
  BY DEF Queued
<1>6. Queued' = Queued \cup {x}
  <2>1. ASSUME NEW y \in Queued' PROVE y \in Queued \cup {x}
    <3>1. PICK b \in Actors : \E i \in 1..Len(mailbox'[b]) : y = <<b, i>>
      BY <1>5
    <3> QED
      BY <1>2, <1>3, <1>4, <3>1, QueuedPlaces DEF l
  <2>2. ASSUME NEW y \in Queued PROVE y \in Queued'
    <3>1. PICK b \in Actors : \E i \in 1..Len(mailbox[b]) : y = <<b, i>>
      BY QueuedPlaces
    <3> QED
      BY <1>2, <1>3, <1>4, <1>5, <3>1 DEF l
  <2>3. x \in Queued'
    BY <1>2, <1>4, <1>5
  <2> QED
    BY <2>1, <2>2, <2>3
<1>7. x \notin Queued
  BY <1>2, QueuedPlaces DEF l
<1> QED
  BY <1>6, <1>7, OneMore

LEMMA QueuedLess ==
  ASSUME JournalTypes, IsFiniteSet(Queued), NEW a \in Actors,
         mailbox[a] # <<>>, mailbox' = [mailbox EXCEPT ![a] = Tail(@)]
  PROVE  /\ IsFiniteSet(Queued')
         /\ Cardinality(Queued) \in Nat \ {0}
         /\ Cardinality(Queued') = Cardinality(Queued) - 1
<1> DEFINE l == Len(mailbox[a])
           x == <<a, l>>
<1>1. mailbox[a] \in Seq(Msgs) /\ mailbox'[a] = Tail(mailbox[a])
  BY DEF JournalTypes
<1>2. l \in Nat \ {0} /\ Len(mailbox'[a]) = l - 1
  BY <1>1, HeadTailProperties, EmptySeq, LenProperties
<1>3. \A b \in Actors \ {a} : mailbox'[b] = mailbox[b]
  BY DEF JournalTypes
<1>4. 1..(l - 1) = (1..l) \ {l} /\ l \in 1..l
  BY <1>2
<1> HIDE DEF l
<1>5. \A y : y \in Queued' <=>
        \E b \in Actors : \E i \in 1..Len(mailbox'[b]) : y = <<b, i>>
  BY DEF Queued
<1>6. Queued' = Queued \ {x}
  <2>1. ASSUME NEW y \in Queued' PROVE y \in Queued \ {x}
    <3>1. PICK b \in Actors : \E i \in 1..Len(mailbox'[b]) : y = <<b, i>>
      BY <1>5
    <3> QED
      BY <1>2, <1>3, <1>4, <3>1, QueuedPlaces DEF l
  <2>2. ASSUME NEW y \in Queued \ {x} PROVE y \in Queued'
    <3>1. PICK b \in Actors : \E i \in 1..Len(mailbox[b]) : y = <<b, i>>
      BY QueuedPlaces
    <3> QED
      BY <1>2, <1>3, <1>4, <1>5, <3>1 DEF l
  <2> QED
    BY <2>1, <2>2
<1>7. x \in Queued
  BY <1>4, QueuedPlaces DEF l
<1> QED
  BY <1>6, <1>7, OneLess

\* The sets the limiter counts, before and after a step.
LEMMA SlotSteps ==
  ASSUME NEW s \in Submitters, NEW r,
         sub \in [Submitters -> [at : SubPlaces, msg : Msgs \cup {None}]],
         sub' = [sub EXCEPT ![s] = r]
  PROVE  Slots' = IF r.at \in Admitted THEN Slots \cup {s} ELSE Slots \ {s}
BY DEF Slots

LEMMA HeldSteps ==
  ASSUME JournalTypes, NEW a \in Actors, NEW v, cur' = [cur EXCEPT ![a] = v]
  PROVE  Held' = IF v # None THEN Held \cup {a} ELSE Held \ {a}
BY DEF JournalTypes, Held

\* EndTurn, where one slot is given back.
LEMMA GivesBack ==
  ASSUME SlotInv, EndTurn, IsFiniteSet(Queued'), resumed' = resumed,
         Owed \in Nat, Owed' = Owed - 1, Owed' \in Nat
  PROVE  SlotInv'
<1>1. ~resumed => active = Owed
  BY DEF SlotInv
<1>2. active' \in Nat /\ (active > 0 => active' = active - 1)
  BY DEF SlotInv, EndTurn
<1> QED
  BY <1>1, <1>2 DEF SlotInv

LEMMA SlotInit == Init => SlotInv
<1> SUFFICES ASSUME Init PROVE SlotInv
  OBVIOUS
<1>1. Slots = {} /\ Held = {}
  BY DEF Init, Slots, Held, Idle, Admitted
<1>2. Queued = {}
  BY DEF Init, Queued
<1> QED
  BY <1>1, <1>2, FS_EmptySet DEF Init, SlotInv, Owed

\* A step that neither takes nor gives a slot, nor moves a message.
LEMMA SlotsStay ==
  ASSUME SlotInv, active' = active, mailbox' = mailbox, Held' = Held,
         Slots' = Slots, resumed' = resumed
  PROVE  SlotInv'
<1>1. Queued' = Queued
  BY DEF Queued
<1> QED
  BY <1>1 DEF SlotInv, Owed

\* The steps of a submitter.
LEMMA SubmitSlots ==
  ASSUME JournalInv, SlotInv, NEW s \in Submitters, SubmitStep(s)
  PROVE  SlotInv'
<1>1. JournalTypes
      /\ sub \in [Submitters -> [at : SubPlaces, msg : Msgs \cup {None}]]
      /\ (sub[s].at # "idle" => sub[s].msg \in Msgs)
  BY DEF JournalInv, JournalTypes, SubTypes
<1>2. /\ Cardinality(Queued) \in Nat
      /\ Cardinality(Slots) \in Nat /\ Cardinality(Held) \in Nat
      /\ IsFiniteSet(Slots)
  BY OwedSets, FS_CardinalityType DEF SlotInv
<1>3. ASSUME NEW p \in SubPlaces, sub' = [sub EXCEPT ![s].at = p]
      PROVE  Slots' = IF p \in Admitted THEN Slots \cup {s} ELSE Slots \ {s}
  BY <1>1, <1>3 DEF Slots
<1>4. sub[s].at \in Admitted <=> s \in Slots
  BY DEF Slots
\* A submitter that keeps its slot.
<1>5. ASSUME sub[s].at \in Admitted, NEW p \in Admitted,
             sub' = [sub EXCEPT ![s].at = p],
             UNCHANGED <<active, mailbox, cur, resumed>>
      PROVE  SlotInv'
  <2>1. Slots' = Slots
    BY <1>3, <1>4, <1>5 DEF SubPlaces
  <2> QED
    BY <1>5, <2>1, SlotsStay DEF Held
<1>6. CASE SubmitAppends(s)
  BY <1>5, <1>6
     DEF SubmitAppends, actorVars, Admitted
<1>7. CASE SubmitBounces(s)
  BY <1>5, <1>7
     DEF SubmitBounces, actorVars, Admitted
<1>8. CASE SubmitRoutes(s)
  <2>1. /\ sub[s].at = "route"
        /\ \E p \in {"post", "undo"} : sub' = [sub EXCEPT ![s].at = p]
        /\ UNCHANGED <<active, mailbox, cur, resumed>>
    BY <1>8 DEF SubmitRoutes, actorVars, ActorStarts, historyVars
  <2> QED
    BY <1>5, <2>1 DEF Admitted
<1>9. CASE SubmitPosts(s)
  <2>1. CASE sub' = [sub EXCEPT ![s].at = "undo"] /\ mailbox' = mailbox
    BY <1>5, <1>9, <2>1 DEF SubmitPosts, Admitted
  <2>2. CASE /\ Queue(ChatOf[sub[s].msg], sub[s].msg)
             /\ sub' = [sub EXCEPT ![s] = Idle]
    <3>1. sub[s].at = "post" /\ UNCHANGED <<active, cur, resumed>>
      BY <1>9 DEF SubmitPosts
    <3>2. sub[s].msg \in Msgs /\ ChatOf[sub[s].msg] \in Actors
      BY <1>1, <3>1, GatewayAssumption
    <3>3. /\ IsFiniteSet(Queued')
          /\ Cardinality(Queued') = Cardinality(Queued) + 1
      BY <1>1, <2>2, <3>2, QueuedMore DEF SlotInv
    <3>4. Idle.at \notin Admitted
      BY DEF Idle, Admitted
    <3>5. Slots' = Slots \ {s}
      BY <1>1, <2>2, <3>4, SlotSteps
    <3>6. s \in Slots
      BY <3>1 DEF Slots, Admitted
    <3>7. /\ Cardinality(Slots') = Cardinality(Slots) - 1
          /\ Cardinality(Slots) \in Nat \ {0}
      BY <1>2, <3>5, <3>6, OneLess
    <3>8. Held' = Held
      BY <3>1 DEF Held
    <3>9. Owed' = Owed
      BY <1>2, <3>3, <3>7, <3>8 DEF Owed
    <3> QED
      BY <3>1, <3>3, <3>9 DEF SlotInv
  <2> QED
    BY <1>9, <2>1, <2>2 DEF SubmitPosts
<1>10. CASE SubmitEndsTurn(s)
  <2>1. /\ sub[s].at \in {"leave", "undo"} /\ EndTurn
        /\ UNCHANGED <<mailbox, cur, resumed>>
        /\ \/ sub' = [sub EXCEPT ![s] = Idle]
           \/ sub' = [sub EXCEPT ![s].at = "mark"]
    BY <1>1, <1>10 DEF SubmitEndsTurn, actorVars, historyVars
  <2>2. s \in Slots
    BY <2>1 DEF Slots, Admitted
  <2>3. Slots' = Slots \ {s}
    <3>1. CASE sub' = [sub EXCEPT ![s] = Idle]
      <4>1. Idle.at \notin Admitted
        BY DEF Idle, Admitted
      <4> QED
        BY <1>1, <3>1, <4>1, SlotSteps
    <3>2. CASE sub' = [sub EXCEPT ![s].at = "mark"]
      <4>1. "mark" \in SubPlaces \ Admitted
        BY DEF SubPlaces, Admitted
      <4> QED
        BY <1>3, <3>2, <4>1
    <3> QED
      BY <2>1, <3>1, <3>2
  <2>4. /\ Cardinality(Slots') = Cardinality(Slots) - 1
        /\ Cardinality(Slots) \in Nat \ {0}
    BY <1>2, <2>2, <2>3, OneLess
  <2>5. Held' = Held /\ Queued' = Queued
    BY <2>1 DEF Held, Queued
  <2>6. Owed \in Nat /\ Owed' = Owed - 1 /\ Owed' \in Nat
    BY <1>2, <2>4, <2>5 DEF Owed
  <2> QED
    BY <2>1, <2>5, <2>6, GivesBack DEF SlotInv
<1>11. CASE SubmitCancels(s)
  <2>1. /\ sub[s].at = "mark" /\ sub' = [sub EXCEPT ![s] = Idle]
        /\ UNCHANGED <<active, mailbox, cur, resumed>>
    BY <1>11 DEF SubmitCancels, actorVars
  <2>2. Idle.at \notin Admitted /\ s \notin Slots
    BY <2>1 DEF Idle, Admitted, Slots
  <2>3. Slots' = Slots
    <3>1. Slots' = Slots \ {s}
      BY <1>1, <2>1, <2>2, SlotSteps
    <3> QED
      BY <2>2, <3>1
  <2> QED
    BY <2>1, <2>3, SlotsStay DEF Held
<1> QED
  BY <1>6, <1>7, <1>8, <1>9, <1>10, <1>11 DEF SubmitStep

\* The steps of an actor's goroutine.
LEMMA TurnSlots ==
  ASSUME JournalInv, OwnerInv, SlotInv, NEW a \in Actors, TurnStep(a)
  PROVE  SlotInv'
<1>1. JournalTypes /\ (cur[a] # None <=> a \in Held)
  BY DEF JournalInv, Held
<1>2. /\ Cardinality(Queued) \in Nat
      /\ Cardinality(Slots) \in Nat /\ Cardinality(Held) \in Nat
      /\ IsFiniteSet(Held)
  BY OwedSets, FS_CardinalityType DEF SlotInv
\* A message is taken out of an actor's hands, and its slot given back.
<1>3. ASSUME cur[a] # None, cur' = [cur EXCEPT ![a] = None], EndTurn,
             UNCHANGED <<sub, mailbox, resumed>>
      PROVE  SlotInv'
  <2>1. Held' = Held \ {a}
    BY <1>1, <1>3, HeldSteps
  <2>2. /\ Cardinality(Held') = Cardinality(Held) - 1
        /\ Cardinality(Held) \in Nat \ {0}
    BY <1>1, <1>2, <1>3, <2>1, OneLess
  <2>3. Slots' = Slots /\ Queued' = Queued
    BY <1>3 DEF Slots, Queued
  <2>4. Owed \in Nat /\ Owed' = Owed - 1 /\ Owed' \in Nat
    BY <1>2, <2>2, <2>3 DEF Owed
  <2> QED
    BY <1>3, <2>3, <2>4, GivesBack DEF SlotInv
<1>4. CASE TakeMessage(a)
  <2>1. /\ mailbox[a] # <<>> /\ mailbox' = [mailbox EXCEPT ![a] = Tail(@)]
        /\ cur' = [cur EXCEPT ![a] = Head(mailbox[a])]
        /\ at[a] = "select"
        /\ UNCHANGED <<active, sub, resumed>>
    BY <1>4 DEF TakeMessage, submitVars, historyVars
  <2>2. Head(mailbox[a]) # None
    BY <1>1, <2>1, TakeFirst, GatewayAssumption
  <2>3. Held' = Held \cup {a} /\ a \notin Held
    <3>1. cur[a] = None
      BY <2>1 DEF OwnerInv, HandsInv
    <3> QED
      BY <1>1, <2>1, <2>2, <3>1, HeldSteps
  <2>4. Cardinality(Held') = Cardinality(Held) + 1
    BY <1>2, <2>3, OneMore
  <2>5. /\ IsFiniteSet(Queued') /\ Cardinality(Queued) \in Nat \ {0}
        /\ Cardinality(Queued') = Cardinality(Queued) - 1
    BY <1>1, <2>1, QueuedLess DEF SlotInv
  <2>6. Slots' = Slots
    BY <2>1 DEF Slots
  <2>7. Owed' = Owed
    BY <1>2, <2>4, <2>5, <2>6 DEF Owed
  <2> QED
    BY <2>1, <2>5, <2>7 DEF SlotInv
<1>5. CASE CancelMessage(a)
  <2>1. EndTurn /\ UNCHANGED <<sub, resumed>>
    BY <1>5 DEF CancelMessage
  <2>2. CASE cur[a] # None /\ cur' = [cur EXCEPT ![a] = None]
             /\ mailbox' = mailbox
    BY <1>3, <2>1, <2>2
  <2>3. CASE /\ mailbox[a] # <<>> /\ mailbox' = [mailbox EXCEPT ![a] = Tail(@)]
             /\ cur' = cur
    <3>1. /\ IsFiniteSet(Queued') /\ Cardinality(Queued) \in Nat \ {0}
          /\ Cardinality(Queued') = Cardinality(Queued) - 1
      BY <1>1, <2>3, QueuedLess DEF SlotInv
    <3>2. Slots' = Slots /\ Held' = Held
      BY <2>1, <2>3 DEF Slots, Held
    <3>3. Owed \in Nat /\ Owed' = Owed - 1 /\ Owed' \in Nat
      BY <1>2, <3>1, <3>2 DEF Owed
    <3> QED
      BY <2>1, <3>1, <3>3, GivesBack
  <2> QED
    BY <1>5, <2>2, <2>3 DEF CancelMessage
<1>6. CASE TurnEnds(a)
  <2>1. /\ at[a] = "leaving" /\ cur' = [cur EXCEPT ![a] = None] /\ EndTurn
        /\ UNCHANGED <<sub, mailbox, resumed>>
    BY <1>6 DEF TurnEnds, historyVars
  <2>2. cur[a] # None
    BY <2>1, GatewayAssumption DEF OwnerInv, HandsInv
  <2> QED
    BY <1>3, <2>1, <2>2
<1>7. CASE \/ SeeDone(a) \/ ActorExits(a) \/ Acquires(a) \/ TurnRefused(a)
           \/ TurnStarts(a) \/ Run(a) \/ TurnOutcome(a) \/ Releases(a)
  <2>1. UNCHANGED <<active, sub, mailbox, cur, resumed>>
    BY <1>7
       DEF SeeDone, ActorExits, Acquires, TurnRefused, TurnStarts, Run,
           TurnOutcome, Releases, submitVars, actorVars, historyVars
  <2> QED
    BY <2>1, SlotsStay DEF Held, Slots
<1> QED
  BY <1>4, <1>5, <1>6, <1>7 DEF TurnStep

\* A submission is admitted: the slot it takes is its own.
LEMMA AdmitSlots ==
  ASSUME JournalInv, SlotInv, NEW s \in Submitters, NEW m \in Msgs,
         SubmitAdmits(s, m)
  PROVE  SlotInv'
<1>1. /\ sub[s] = Idle /\ active' = active + 1
      /\ sub' = [sub EXCEPT ![s] = [at |-> "append", msg |-> m]]
      /\ UNCHANGED <<mailbox, cur, resumed>>
  BY DEF SubmitAdmits, actorVars
<1>2. s \notin Slots /\ Slots' = Slots \cup {s}
  <2>1. [at |-> "append", msg |-> m].at \in Admitted
    BY DEF Admitted
  <2>2. sub \in [Submitters -> [at : SubPlaces, msg : Msgs \cup {None}]]
    BY DEF JournalInv, JournalTypes, SubTypes
  <2>3. Slots' = Slots \cup {s}
    BY <1>1, <2>1, <2>2, SlotSteps
  <2> QED
    BY <1>1, <2>3 DEF Slots, Idle, Admitted
<1>3. Cardinality(Slots') = Cardinality(Slots) + 1
  BY <1>2, OneMore, OwedSets
<1>4. Held' = Held /\ Queued' = Queued
  BY <1>1 DEF Held, Queued
<1>5. /\ Cardinality(Queued) \in Nat
      /\ Cardinality(Slots) \in Nat /\ Cardinality(Held) \in Nat
  BY OwedSets, FS_CardinalityType DEF SlotInv
<1>6. Owed' = Owed + 1
  BY <1>3, <1>4, <1>5 DEF Owed
<1> QED
  BY <1>1, <1>4, <1>6 DEF SlotInv

\* A resumed message took no slot; from then on the count is not kept.
LEMMA ResumeSlots ==
  ASSUME JournalInv, SlotInv, ResumePosts
  PROVE  SlotInv'
<1>1. UNCHANGED <<active, sub, cur>>
  BY DEF ResumePosts, submitVars
<1>2. CASE UNCHANGED <<mailbox, resumed>>
  BY <1>1, <1>2, SlotsStay DEF Held, Slots
<1>3. CASE \E m \in Msgs : Queue(ChatOf[m], m) /\ resumed' = TRUE
  <2>1. IsFiniteSet(Queued')
    BY <1>3, QueuedMore, GatewayAssumption DEF SlotInv, JournalInv
  <2> QED
    BY <1>1, <1>3, <2>1 DEF SlotInv
<1> QED
  BY <1>2, <1>3 DEF ResumePosts

LEMMA SlotStep ==
  JournalInv /\ OwnerInv /\ SlotInv /\ [Next]_vars => SlotInv'
<1> SUFFICES ASSUME JournalInv, OwnerInv, SlotInv, [Next]_vars PROVE SlotInv'
  OBVIOUS
<1>1. ASSUME UNCHANGED <<active, sub, mailbox, cur, resumed>> PROVE SlotInv'
  BY <1>1, SlotsStay DEF Held, Slots
<1>2. CASE StartStep
  <2>1. CASE ResumeRoutes
    <3>1. UNCHANGED <<active, sub, mailbox, cur, resumed>>
      BY <2>1 DEF ResumeRoutes, ActorStarts, submitVars, historyVars
    <3> QED
      BY <1>1, <3>1
  <2>2. CASE StartBegins \/ StartRoutes \/ StartReplays \/ StartEnds
    BY <1>1, <2>2
       DEF StartBegins, StartRoutes, StartReplays, StartEnds, submitVars,
           actorVars, historyVars
  <2> QED
    BY <1>2, <2>1, <2>2, ResumeSlots DEF StartStep
<1>3. ASSUME NEW s \in Submitters, SubmitStep(s) PROVE SlotInv'
  BY <1>3, SubmitSlots
<1>4. ASSUME NEW a \in Actors, TurnStep(a) PROVE SlotInv'
  BY <1>4, TurnSlots
<1>5. CASE ShutdownStep
  BY <1>1, <1>5
     DEF ShutdownStep, ShutdownBegins, StopActor, ShutdownEnds, submitVars,
         actorVars, historyVars
<1>6. CASE Environment
  <2>1. CASE NewLife
    <3>1. active' = 0 /\ Slots' = {} /\ Held' = {}
      BY <2>1 DEF NewLife, Slots, Held, Idle, Admitted
    <3>2. Queued' = {}
      BY <2>1 DEF NewLife, Queued
    <3> QED
      BY <3>1, <3>2, FS_EmptySet DEF SlotInv, Owed
  <2>2. CASE StopSignal \/ \E a \in Actors : CancelTurn(a)
    BY <1>1, <2>2
       DEF StopSignal, CancelTurn, submitVars, actorVars, historyVars
  <2> QED
    BY <1>6, <2>1, <2>2, AdmitSlots DEF Environment
<1>7. CASE UNCHANGED vars
  BY <1>1, <1>7 DEF vars, submitVars, actorVars, historyVars
<1> QED
  BY <1>2, <1>3, <1>4, <1>5, <1>6, <1>7 DEF Next

\* Every admitted message gives its slot of the limiter back exactly once, on
\* every path through submissions, turns and cancellations, unless a message
\* was resumed in this life (TryBeginTurn, EndTurn).
THEOREM SlotsBalancedCorrect == Spec => []SlotsBalanced
<1>1. Init => SlotInv
  BY SlotInit
<1>2. SlotInv => SlotsBalanced
  BY DEF SlotInv, SlotsBalanced, Owed
<1> QED
  BY <1>1, <1>2, SlotStep, OwnerAlways, PTL DEF Spec
=============================================================================
