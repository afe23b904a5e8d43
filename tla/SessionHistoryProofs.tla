-------------------------- MODULE SessionHistoryProofs --------------------------
(***************************************************************************)
(* The three copies of a conversation agree, for any number of runners,    *)
(* turns, tools, deliveries and failures: the properties of                *)
(* SessionHistory, from one inductive invariant.                           *)
(***************************************************************************)
EXTENDS SessionHistory, FiniteSetTheorems, SequenceTheorems, TLAPS

-----------------------------------------------------------------------------
(* The projection of a log.                                                  *)

\* q has messages of the session l in their order.
InOrder(q, l) == Increasing(q) /\ \A i \in DOMAIN q : q[i] \in DOMAIN l

\* No error of l is among the messages of q.
Clean(q, l) == \A i \in DOMAIN q : q[i] \in Messages(l)

\* The projection of l has all its messages but the errors.
Complete(l) ==
  /\ Projection(l) \in Seq(Nat) /\ InOrder(Projection(l), l)
  /\ {Projection(l)[k] : k \in DOMAIN Projection(l)} = Messages(l)

\* The first k members of an increasing sequence are k.
LEMMA FirstMembers ==
  ASSUME NEW q \in Seq(Nat), Increasing(q), NEW k \in 0..Len(q)
  PROVE  /\ IsFiniteSet({q[m] : m \in 1..k})
         /\ Cardinality({q[m] : m \in 1..k}) = k
<1> DEFINE S == {q[m] : m \in 1..k}
           f == [m \in 1..k |-> q[m]]
<1>1. k \in Nat /\ 1..k \subseteq DOMAIN q /\ \A m \in 1..k : q[m] \in Nat
  OBVIOUS
<1>2. f \in [1..k -> S] /\ \A s \in S : \E m \in 1..k : f[m] = s
  OBVIOUS
<1>3. \A i, j \in 1..k : f[i] = f[j] => i = j
  <2> TAKE i, j \in 1..k
  <2>1. i \in DOMAIN q /\ j \in DOMAIN q /\ f[i] = q[i] /\ f[j] = q[j]
    BY <1>1
  <2>2. i < j => q[i] < q[j]
    BY <2>1 DEF Increasing
  <2>3. j < i => q[j] < q[i]
    BY <2>1 DEF Increasing
  <2> HIDE DEF f
  <2> QED
    BY <1>1, <2>1, <2>2, <2>3
<1> HIDE DEF f, S
<1>4. f \in Bijection(1..k, S)
  <2>1. f \in Injection(1..k, S)
    BY <1>2, <1>3 DEF Injection, IsInjective
  <2>2. f \in Surjection(1..k, S)
    BY <1>2 DEF Surjection
  <2> QED
    BY <2>1, <2>2 DEF Bijection
<1>5. ExistsBijection(1..k, S)
  BY <1>4 DEF ExistsBijection
<1> QED
  BY <1>1, <1>5, FS_CountingElements, FS_NatBijection DEF S

\* Messages are finitely many positions.
LEMMA MessagesFinite ==
  ASSUME NEW l \in Seq(Entry)
  PROVE  Messages(l) \subseteq 1..Len(l) /\ IsFiniteSet(Messages(l))
<1>1. Messages(l) \subseteq 1..Len(l)
  BY DEF Messages
<1>2. IsFiniteSet(1..Len(l))
  BY FS_Interval
<1> QED
  BY <1>1, <1>2, FS_Subset

\* The messages in their order are the projection.
LEMMA ProjectionIs ==
  ASSUME NEW l \in Seq(Entry), NEW q \in Seq(Nat), Increasing(q),
         {q[k] : k \in DOMAIN q} = Messages(l)
  PROVE  q = Projection(l)
<1> DEFINE M == Messages(l)
           Count(i) == Cardinality({j \in M : j <= i})
<1>0. /\ q \in [1..Len(q) -> Nat] /\ Len(q) \in Nat
      /\ \A k \in 1..Len(q) : q[k] \in M
      /\ \A i \in M : \E k \in 1..Len(q) : i = q[k]
  OBVIOUS
<1>1. Cardinality(M) = Len(q)
  <2>1. M = {q[m] : m \in 1..Len(q)}
    OBVIOUS
  <2>2. Cardinality({q[m] : m \in 1..Len(q)}) = Len(q)
    BY <1>0, FirstMembers, Len(q) \in 0..Len(q)
  <2> QED
    BY <2>1, <2>2
<1>2. \A k \in 1..Len(q) : Count(q[k]) = k
  <2> TAKE k \in 1..Len(q)
  <2>1. \A m \in 1..Len(q) : q[m] <= q[k] <=> m <= k
    <3> TAKE m \in 1..Len(q)
    <3>1. m < k => q[m] < q[k]
      BY DEF Increasing
    <3>2. k < m => q[k] < q[m]
      BY DEF Increasing
    <3> QED
      BY <3>1, <3>2, <1>0
  <2> HIDE DEF M
  <2>2. {j \in M : j <= q[k]} = {q[m] : m \in 1..k}
    <3>1. ASSUME NEW j \in M, j <= q[k] PROVE j \in {q[m] : m \in 1..k}
      <4>1. PICK m \in 1..Len(q) : j = q[m]
        BY <1>0
      <4>2. m <= k
        BY <2>1, <3>1, <4>1
      <4>3. m \in 1..k
        BY <1>0, <4>2
      <4> QED
        BY <4>1, <4>3
    <3>2. ASSUME NEW m \in 1..k PROVE q[m] \in M /\ q[m] <= q[k]
      <4>1. m \in 1..Len(q) /\ m <= k
        BY <1>0
      <4> QED
        BY <1>0, <2>1, <4>1
    <3> QED
      BY <3>1, <3>2
  <2>3. Cardinality({q[m] : m \in 1..k}) = k
    BY <1>0, FirstMembers, k \in 0..Len(q)
  <2> QED
    BY <2>2, <2>3
<1> HIDE DEF M
<1>3. \A k \in 1..Len(q) : (CHOOSE i \in M : Count(i) = k) = q[k]
  <2> TAKE k \in 1..Len(q)
  <2> HIDE DEF Count
  <2>1. \A i \in M : Count(i) = k => i = q[k]
    BY <1>0, <1>2
  <2>2. q[k] \in M /\ Count(q[k]) = k
    BY <1>0, <1>2
  <2> QED
    BY <2>1, <2>2
<1>4. Projection(l) = [k \in 1..Cardinality(M) |-> CHOOSE i \in M : Count(i) = k]
  BY DEF Projection, M
<1> HIDE DEF Count
<1> QED
  BY <1>0, <1>1, <1>3, <1>4

\* What an appended entry changes.
LEMMA EntryAppended ==
  ASSUME NEW l \in Seq(Entry), NEW e \in Entry
  PROVE  /\ Append(l, e) \in Seq(Entry) /\ Len(l) \in Nat
         /\ DOMAIN l = 1..Len(l) /\ DOMAIN Append(l, e) = 1..Len(l) + 1
         /\ Len(Append(l, e)) = Len(l) + 1
         /\ \A i \in 1..Len(l) : Append(l, e)[i] = l[i] /\ l[i] \in Entry
         /\ Append(l, e)[Len(l) + 1] = e
         /\ Messages(l) \subseteq 1..Len(l)
         /\ Messages(Append(l, e)) = IF e.kind = "error" THEN Messages(l)
                                     ELSE Messages(l) \cup {Len(l) + 1}
<1>1. /\ Append(l, e) \in Seq(Entry) /\ Len(l) \in Nat
      /\ DOMAIN l = 1..Len(l) /\ DOMAIN Append(l, e) = 1..Len(l) + 1
      /\ Len(Append(l, e)) = Len(l) + 1
      /\ \A i \in 1..Len(l) : Append(l, e)[i] = l[i] /\ l[i] \in Entry
      /\ Append(l, e)[Len(l) + 1] = e
  OBVIOUS
<1>2. 1..Len(l) + 1 = 1..Len(l) \cup {Len(l) + 1}
  BY <1>1
<1> DEFINE m == Append(l, e)
<1> HIDE DEF m
<1>3. Messages(m) = IF m[Len(l) + 1].kind = "error" THEN {i \in 1..Len(l) : m[i].kind # "error"}
                    ELSE {i \in 1..Len(l) : m[i].kind # "error"} \cup {Len(l) + 1}
  BY <1>1, <1>2 DEF Messages, m
<1>4. {i \in 1..Len(l) : m[i].kind # "error"} = Messages(l)
  BY <1>1 DEF Messages, m
<1> QED
  BY <1>1, <1>3, <1>4 DEF m, Messages

\* A copy stays in order when the session grows, with and without the new message.
LEMMA InOrderGrows ==
  ASSUME NEW l \in Seq(Entry), NEW e \in Entry, NEW q \in Seq(Nat), InOrder(q, l)
  PROVE  /\ InOrder(q, Append(l, e)) /\ Append(q, Len(l) + 1) \in Seq(Nat)
         /\ InOrder(Append(q, Len(l) + 1), Append(l, e))
<1> DEFINE m == Append(l, e)
           p == Append(q, Len(l) + 1)
<1>1. DOMAIN l = 1..Len(l) /\ DOMAIN m = 1..Len(l) + 1 /\ Len(l) \in Nat
  BY EntryAppended
<1>2. /\ p \in Seq(Nat) /\ DOMAIN q = 1..Len(q) /\ DOMAIN p = 1..Len(q) + 1 /\ Len(q) \in Nat
      /\ p[Len(q) + 1] = Len(l) + 1
      /\ \A i \in 1..Len(q) : p[i] = q[i] /\ q[i] \in Nat
  BY <1>1
<1> HIDE DEF m, p
<1>3. InOrder(q, m)
  BY <1>1, <1>2 DEF InOrder
<1>4. \A i \in 1..Len(q) : q[i] \in 1..Len(l)
  BY <1>1, <1>2 DEF InOrder
<1>5. Increasing(p)
  <2> SUFFICES ASSUME NEW i \in DOMAIN p, NEW j \in DOMAIN p, i < j PROVE p[i] < p[j]
    BY DEF Increasing
  <2>1. CASE j = Len(q) + 1
    <3>1. i \in 1..Len(q)
      BY <1>2, <2>1
    <3>2. p[i] \in 1..Len(l) /\ p[j] = Len(l) + 1
      BY <1>2, <1>4, <2>1, <3>1
    <3> QED
      BY <1>1, <3>2
  <2>2. CASE j # Len(q) + 1
    <3>1. i \in 1..Len(q) /\ j \in 1..Len(q)
      BY <1>2, <2>2
    <3>2. q[i] < q[j]
      BY <3>1, <1>2 DEF InOrder, Increasing
    <3> QED
      BY <3>1, <3>2, <1>2
  <2> QED
    BY <2>1, <2>2
<1>6. \A i \in DOMAIN p : p[i] \in DOMAIN m
  <2> TAKE i \in DOMAIN p
  <2>1. i \in 1..Len(q) \/ i = Len(q) + 1
    BY <1>2
  <2> QED
    BY <1>1, <1>2, <1>4, <2>1
<1> QED
  BY <1>2, <1>3, <1>5, <1>6 DEF InOrder, m, p

\* So does a copy without errors, with a message that is none.
LEMMA CleanGrows ==
  ASSUME NEW l \in Seq(Entry), NEW e \in Entry, NEW q \in Seq(Nat), Clean(q, l)
  PROVE  /\ Clean(q, Append(l, e))
         /\ e.kind # "error" => Clean(Append(q, Len(l) + 1), Append(l, e))
<1> DEFINE p == Append(q, Len(l) + 1)
<1>1. /\ DOMAIN q = 1..Len(q) /\ DOMAIN p = 1..Len(q) + 1 /\ Len(q) \in Nat
      /\ p[Len(q) + 1] = Len(l) + 1
      /\ \A i \in 1..Len(q) : p[i] = q[i] /\ q[i] \in Nat
  OBVIOUS
<1>2. /\ Messages(l) \subseteq Messages(Append(l, e))
      /\ e.kind # "error" => Len(l) + 1 \in Messages(Append(l, e))
  BY EntryAppended
<1> HIDE DEF p
<1> QED
  BY <1>1, <1>2 DEF Clean, p

\* The projection grows with the session, by what is not an error.
LEMMA ProjectionGrows ==
  ASSUME NEW l \in Seq(Entry), NEW e \in Entry, Complete(l)
  PROVE  /\ Complete(Append(l, e))
         /\ Projection(Append(l, e)) = IF e.kind = "error" THEN Projection(l)
                                       ELSE Append(Projection(l), Len(l) + 1)
<1> DEFINE m == Append(l, e)
           q == IF e.kind = "error" THEN Projection(l) ELSE Append(Projection(l), Len(l) + 1)
<1>0. Projection(l) \in Seq(Nat) /\ InOrder(Projection(l), l) /\ m \in Seq(Entry)
  BY EntryAppended DEF Complete
<1>1. q \in Seq(Nat) /\ InOrder(q, m)
  BY <1>0, InOrderGrows
<1>2. {q[k] : k \in DOMAIN q} = Messages(m)
  <2>1. CASE e.kind = "error"
    BY <2>1, EntryAppended DEF Complete
  <2>2. CASE e.kind # "error"
    <3> DEFINE v == Projection(l)
               p == Append(v, Len(l) + 1)
    <3>1. /\ DOMAIN p = DOMAIN v \cup {Len(v) + 1} /\ p[Len(v) + 1] = Len(l) + 1
          /\ \A k \in DOMAIN v : p[k] = v[k]
      BY <1>0
    <3>2. {v[k] : k \in DOMAIN v} = Messages(l)
      BY DEF Complete
    <3>3. Messages(m) = Messages(l) \cup {Len(l) + 1}
      BY <2>2, EntryAppended
    <3> HIDE DEF v, p, m
    <3>4. {p[k] : k \in DOMAIN p} = {v[k] : k \in DOMAIN v} \cup {Len(l) + 1}
      BY <3>1
    <3> QED
      BY <2>2, <3>2, <3>3, <3>4 DEF v, p
  <2> QED
    BY <2>1, <2>2
<1>3. q = Projection(m)
  BY <1>0, <1>1, <1>2, ProjectionIs DEF InOrder
<1> HIDE DEF m, q
<1> QED
  BY <1>1, <1>2, <1>3 DEF Complete, m, q

\* A history without errors that is as long as the projection is the projection.
LEMMA AlignedIsProjection ==
  ASSUME NEW l \in Seq(Entry), NEW q \in Seq(Nat), InOrder(q, l), Clean(q, l),
         Complete(l), Len(q) = Len(Projection(l))
  PROVE  q = Projection(l)
<1> DEFINE v == Projection(l)
           R == {q[k] : k \in DOMAIN q}
<1>0. v \in Seq(Nat) /\ Increasing(v) /\ Increasing(q) /\ Len(q) \in Nat
  BY DEF Complete, InOrder
<1>1. Cardinality(Messages(l)) = Len(v)
  <2>1. Messages(l) = {v[k] : k \in DOMAIN v} /\ DOMAIN v = 1..Len(v) /\ Len(v) \in Nat
    BY <1>0 DEF Complete
  <2> HIDE DEF v
  <2>2. Cardinality({v[m] : m \in 1..Len(v)}) = Len(v)
    BY <1>0, <2>1, FirstMembers, Len(v) \in 0..Len(v)
  <2> QED
    BY <2>1, <2>2
<1>2. Cardinality(R) = Len(q)
  <2>1. R = {q[m] : m \in 1..Len(q)}
    OBVIOUS
  <2>2. Cardinality({q[m] : m \in 1..Len(q)}) = Len(q)
    BY <1>0, FirstMembers, Len(q) \in 0..Len(q)
  <2> QED
    BY <2>1, <2>2
<1>3. R \subseteq Messages(l)
  BY DEF Clean
<1>4. R = Messages(l)
  BY <1>1, <1>2, <1>3, MessagesFinite, FS_Subset
<1> QED
  BY <1>0, <1>4, ProjectionIs

-----------------------------------------------------------------------------
(* Calls and their results.                                                  *)

\* The results of entry i, and whether it has all.
Results(l, i)  == {j \in DOMAIN l : l[j].of = i}
Answered(l, i) == Cardinality(Results(l, i)) = l[i].calls

\* Results come after what they answer.
Backward(l) == \A j \in DOMAIN l : l[j].of < j

\* Entry a is the last one with calls.
LastCalls(l, a) ==
  /\ a \in DOMAIN l /\ l[a].kind = "calls"
  /\ \A j \in DOMAIN l : l[j].kind = "calls" => j <= a

\* Results are finitely many.
LEMMA ResultsFinite ==
  ASSUME NEW l \in Seq(Entry), NEW i
  PROVE  IsFiniteSet(Results(l, i)) /\ Cardinality(Results(l, i)) \in Nat
<1>1. Results(l, i) \subseteq 1..Len(l)
  BY DEF Results
<1>2. IsFiniteSet(1..Len(l))
  BY FS_Interval
<1> QED
  BY <1>1, <1>2, FS_Subset, FS_CardinalityType

\* An entry gives the one it answers one result more, and has none itself.
LEMMA ResultsGrow ==
  ASSUME NEW l \in Seq(Entry), NEW e \in Entry, Backward(l), e.of <= Len(l)
  PROVE  /\ Backward(Append(l, e))
         /\ Cardinality(Results(Append(l, e), Len(l) + 1)) = 0
         /\ \A i \in DOMAIN l :
              Cardinality(Results(Append(l, e), i)) =
                IF e.of = i THEN Cardinality(Results(l, i)) + 1 ELSE Cardinality(Results(l, i))
<1> DEFINE m == Append(l, e)
           n == Len(l) + 1
<1>0. /\ DOMAIN l = 1..Len(l) /\ DOMAIN m = 1..n /\ Len(l) \in Nat
      /\ \A i \in 1..Len(l) : m[i] = l[i] /\ l[i] \in Entry
      /\ m[n] = e
  BY EntryAppended
<1>1. \A j \in 1..n : j \in 1..Len(l) \/ j = n
  BY <1>0
<1> HIDE DEF m
<1>2. \A j \in 1..n : m[j].of < j
  <2> TAKE j \in 1..n
  <2>1. CASE j \in 1..Len(l)
    BY <2>1, <1>0 DEF Backward
  <2>2. CASE j = n
    BY <2>2, <1>0 DEF Entry
  <2> QED
    BY <1>1, <2>1, <2>2
<1>3. Results(m, n) = {}
  BY <1>0, <1>2 DEF Results, Entry
<1>4. ASSUME NEW i \in DOMAIN l
      PROVE  Results(m, i) = IF e.of = i THEN Results(l, i) \cup {n} ELSE Results(l, i)
  BY <1>0, <1>1 DEF Results
<1>5. \A i : n \notin Results(l, i)
  BY <1>0 DEF Results
<1> HIDE DEF n
<1>6. ASSUME NEW i \in DOMAIN l
      PROVE  Cardinality(Results(m, i)) = IF e.of = i THEN Cardinality(Results(l, i)) + 1
                                          ELSE Cardinality(Results(l, i))
  BY <1>4, <1>5, <1>6, ResultsFinite, FS_AddElement
<1> QED
  BY <1>0, <1>2, <1>3, <1>6, FS_EmptySet DEF Backward, m, n

\* An entry without calls that is no result leaves a paired log paired.
LEMMA PairedGrows ==
  ASSUME NEW l \in Seq(Entry), NEW e \in Entry, Backward(l), e.of = 0, e.calls = 0, Paired(l)
  PROVE  Paired(Append(l, e))
<1> DEFINE m == Append(l, e)
<1>0. /\ DOMAIN l = 1..Len(l) /\ DOMAIN m = 1..Len(l) + 1 /\ Len(l) \in Nat
      /\ \A i \in 1..Len(l) : m[i] = l[i]
      /\ m[Len(l) + 1] = e
  BY EntryAppended
<1>1. /\ Cardinality(Results(m, Len(l) + 1)) = 0
      /\ \A i \in DOMAIN l : Cardinality(Results(m, i)) = Cardinality(Results(l, i))
  BY <1>0, ResultsGrow
<1>2. \A i \in DOMAIN l : Answered(l, i)
  BY DEF Paired, Answered, Results
<1>3. \A i \in DOMAIN m : i \in DOMAIN l \/ i = Len(l) + 1
  BY <1>0
<1> HIDE DEF m
<1>4. \A i \in DOMAIN m : Answered(m, i)
  BY <1>0, <1>1, <1>2, <1>3 DEF Answered
<1> QED
  BY <1>4 DEF Paired, Answered, Results, m

-----------------------------------------------------------------------------
(* The inductive invariant.                                                  *)

Labels == LoopPhases \cup {"idle", "loaded", "reloaded", "waiting", "after", "exited"}

\* From beginTurn to endTurn.
ActivePhases == LoopPhases \ {"snapshot", "set", "drain"}

HistoryTypes ==
  /\ driver \in {"tui", "line"}
  /\ log \in Seq(Entry) /\ host \in Seq(Nat)
  /\ hist \in [Runners -> Seq(Nat)]
  /\ pc \in [Runners -> Labels]
  /\ todo \in Nat
  /\ checked \in [Runners -> BOOLEAN] /\ failed \in [Runners -> BOOLEAN]
  /\ retried \in BOOLEAN /\ turnActive \in BOOLEAN /\ raced \in BOOLEAN
  /\ persist \in [by : Runners \cup {"none", "sender"},
                  phase : {"free", "committed", "loaded"}, view : Seq(Nat)]
  /\ queued \in Nat /\ deferred \in Nat
  /\ turns \in Nat /\ sends \in Nat /\ faults \in Nat
  /\ mishaps \subseteq {"cut", "block", "hook"}

\* One runner is in the loop; while a turn is active nobody else writes to the session; who
\* persists outside a turn is in its drain, or a sender.  In the TUI only the prompter
\* moves and its requests are checked.
Held ==
  /\ \A r, s \in Runners : pc[r] \in LoopPhases /\ pc[s] \in LoopPhases => r = s
  /\ \A r \in Runners : pc[r] \in ActivePhases => turnActive /\ persist.by = "none"
  /\ persist.by \in Runners => pc[persist.by] = "drain"
  /\ persist.phase = "free" <=> persist.by = "none"
  /\ Tui => \A r \in Runners : checked[r] /\ (r # Prompter => pc[r] = "idle")

\* The projection is complete, every copy has messages in order, and what a delivery has
\* loaded is the session as it still is.
Ordered ==
  /\ Complete(log) /\ InOrder(host, log) /\ InOrder(persist.view, log)
  /\ \A r \in Runners : InOrder(hist[r], log)
  /\ persist.phase = "loaded" => persist.view = View

\* Before a request the history has no error, nor has the host when it is taken over.
CleanPhases == {"loaded", "waiting", "snapshot", "set", "prompt", "poll", "refresh", "request",
                "tools", "warned", "stop"}
Requesting ==
  /\ pc[Prompter] \in CleanPhases => Clean(hist[Prompter], log)
  /\ pc[Prompter] = "waiting" => Clean(host, log)
  /\ pc[Prompter] = "request" => hist[Prompter] = View
Requests == Tui => Requesting

\* At rest the host shows a session that can be loaded, or will when the delivery is done.
Following ==
  /\ Loads /\ ~raced /\ persist.by = "none" /\ pc[Prompter] = "idle" => host = View
  /\ ~raced /\ pc[Prompter] = "reloaded" => hist[Prompter] = View
Follows == Tui => Following

\* A batch that runs lacks as many results as it has calls to do, and is the last one.
Batches ==
  /\ Backward(log)
  /\ mishaps = {} /\ (\A r \in Runners : pc[r] # "tools") => Paired(log)
  /\ \A r \in Runners : pc[r] = "tools" =>
       /\ todo > 0
       /\ \E a \in DOMAIN log :
            /\ LastCalls(log, a)
            /\ mishaps = {} =>
                 /\ Cardinality(Results(log, a)) + todo = log[a].calls
                 /\ \A i \in DOMAIN log \ {a} : Answered(log, i)

HistoryInv == HistoryTypes /\ Held /\ Ordered /\ Requests /\ Follows /\ Batches

-----------------------------------------------------------------------------
(* Who may be where.                                                         *)

\* A runner in an active turn that goes on with it leaves the others where they are.
LEMMA TurnGoesOn ==
  ASSUME HistoryTypes, Held, NEW r \in Runners, pc[r] \in ActivePhases,
         NEW label \in ActivePhases, GoTo(r, label),
         UNCHANGED <<turnActive, persist, driver>>,
         \/ checked' = checked
         \/ checked' = [checked EXCEPT ![r] = TRUE]
  PROVE  Held'
<1>1. \A s \in Runners : pc'[s] = IF s = r THEN label ELSE pc[s]
  BY DEF HistoryTypes, GoTo
<1>2. pc[r] \in LoopPhases /\ label \in LoopPhases /\ pc[r] # "drain"
  BY DEF ActivePhases, LoopPhases
<1>3. Tui => r = Prompter
  BY <1>2 DEF Held, LoopPhases, Tui
<1>4. \A s \in Runners : checked[s] => checked'[s]
  BY DEF HistoryTypes
<1>5. \A s, t \in Runners : pc'[s] \in LoopPhases /\ pc'[t] \in LoopPhases => s = t
  BY <1>1, <1>2 DEF Held
<1>6. \A s \in Runners : pc'[s] \in ActivePhases => turnActive' /\ persist'.by = "none"
  BY <1>1 DEF Held
<1>7. persist'.by \in Runners => pc'[persist'.by] = "drain"
  BY <1>1, <1>2 DEF Held
<1>8. persist'.phase = "free" <=> persist'.by = "none"
  BY DEF Held
<1>9. Tui' => \A s \in Runners : checked'[s] /\ (s # Prompter => pc'[s] = "idle")
  BY <1>1, <1>3, <1>4 DEF Held, Tui
<1> HIDE DEF ActivePhases
<1> QED
  BY <1>5, <1>6, <1>7, <1>8, <1>9 DEF Held

\* So the loop keeps the phases apart.
LEMMA LoopHeld ==
  ASSUME HistoryTypes, Held, driver' = driver, NEW r \in Runners, Loop(r)
  PROVE  Held'
<1> USE DEF At, GoTo, LoopPhases, ActivePhases
<1>1. ASSUME Poll(r) PROVE Held'
  <2>1. pc[r] \in ActivePhases /\ \E label \in ActivePhases : GoTo(r, label)
    BY <1>1 DEF Poll, Deliver, DeliveryFails
  <2>2. /\ UNCHANGED <<turnActive, persist>>
        /\ checked' = checked \/ checked' = [checked EXCEPT ![r] = TRUE]
    BY <1>1 DEF Poll, Deliver, DeliveryFails
  <2> QED
    BY <2>1, <2>2, TurnGoesOn
<1>2. ASSUME Cancel(r) PROVE Held'
  <2>1. pc[r] \in ActivePhases /\ \E label \in ActivePhases : GoTo(r, label)
    BY <1>2 DEF Cancel
  <2>2. /\ UNCHANGED <<turnActive, persist>>
        /\ checked' = checked \/ checked' = [checked EXCEPT ![r] = TRUE]
    BY <1>2 DEF Cancel
  <2> QED
    BY <2>1, <2>2, TurnGoesOn
<1>3. ASSUME Refresh(r) PROVE Held'
  <2>1. pc[r] \in ActivePhases /\ \E label \in ActivePhases : GoTo(r, label)
    BY <1>3 DEF Refresh
  <2>2. /\ UNCHANGED <<turnActive, persist>>
        /\ checked' = checked \/ checked' = [checked EXCEPT ![r] = TRUE]
    BY <1>3 DEF Refresh
  <2> QED
    BY <2>1, <2>2, TurnGoesOn
<1>4. ASSUME Stop(r) PROVE Held'
  <2>1. pc[r] \in ActivePhases /\ \E label \in ActivePhases : GoTo(r, label)
    BY <1>4 DEF Stop, Deliver, DeliveryFails
  <2>2. /\ UNCHANGED <<turnActive, persist>>
        /\ checked' = checked \/ checked' = [checked EXCEPT ![r] = TRUE]
    BY <1>4 DEF Stop, Deliver, DeliveryFails
  <2> QED
    BY <2>1, <2>2, TurnGoesOn
<1>5. ASSUME Stops(r) PROVE Held'
  <2>1. pc[r] \in ActivePhases /\ \E label \in ActivePhases : GoTo(r, label)
    BY <1>5 DEF Stops, AtRequest
  <2>2. /\ UNCHANGED <<turnActive, persist>>
        /\ checked' = checked \/ checked' = [checked EXCEPT ![r] = TRUE]
    BY <1>5 DEF Stops, AtRequest
  <2> QED
    BY <2>1, <2>2, TurnGoesOn
<1>6. ASSUME UsesTools(r) PROVE Held'
  <2>1. pc[r] \in ActivePhases /\ \E label \in ActivePhases : GoTo(r, label)
    BY <1>6 DEF UsesTools, AtRequest
  <2>2. /\ UNCHANGED <<turnActive, persist>>
        /\ checked' = checked \/ checked' = [checked EXCEPT ![r] = TRUE]
    BY <1>6 DEF UsesTools, AtRequest
  <2> QED
    BY <2>1, <2>2, TurnGoesOn
<1>7. ASSUME CutWithCalls(r) PROVE Held'
  <2>1. pc[r] \in ActivePhases /\ \E label \in ActivePhases : GoTo(r, label)
    BY <1>7 DEF CutWithCalls, AtRequest
  <2>2. /\ UNCHANGED <<turnActive, persist>>
        /\ checked' = checked \/ checked' = [checked EXCEPT ![r] = TRUE]
    BY <1>7 DEF CutWithCalls, AtRequest
  <2> QED
    BY <2>1, <2>2, TurnGoesOn
<1>8. ASSUME ProviderError(r) PROVE Held'
  <2>1. pc[r] \in ActivePhases /\ \E label \in ActivePhases : GoTo(r, label)
    BY <1>8 DEF ProviderError, AtRequest
  <2>2. /\ UNCHANGED <<turnActive, persist>>
        /\ checked' = checked \/ checked' = [checked EXCEPT ![r] = TRUE]
    BY <1>8 DEF ProviderError, AtRequest
  <2> QED
    BY <2>1, <2>2, TurnGoesOn
<1>9. ASSUME StreamFails(r) PROVE Held'
  <2>1. pc[r] \in ActivePhases /\ \E label \in ActivePhases : GoTo(r, label)
    BY <1>9 DEF StreamFails, AtRequest
  <2>2. /\ UNCHANGED <<turnActive, persist>>
        /\ checked' = checked \/ checked' = [checked EXCEPT ![r] = TRUE]
    BY <1>9 DEF StreamFails, AtRequest
  <2> QED
    BY <2>1, <2>2, TurnGoesOn
<1>10. ASSUME Overflows(r) PROVE Held'
  <2>1. pc[r] \in ActivePhases /\ \E label \in ActivePhases : GoTo(r, label)
    BY <1>10 DEF Overflows, AtRequest
  <2>2. /\ UNCHANGED <<turnActive, persist>>
        /\ checked' = checked \/ checked' = [checked EXCEPT ![r] = TRUE]
    BY <1>10 DEF Overflows, AtRequest
  <2> QED
    BY <2>1, <2>2, TurnGoesOn
<1>11. ASSUME ContinueTurn(r) PROVE Held'
  <2>1. pc[r] \in ActivePhases /\ \E label \in ActivePhases : GoTo(r, label)
    BY <1>11 DEF ContinueTurn
  <2>2. /\ UNCHANGED <<turnActive, persist>>
        /\ checked' = checked \/ checked' = [checked EXCEPT ![r] = TRUE]
    BY <1>11 DEF ContinueTurn
  <2> QED
    BY <2>1, <2>2, TurnGoesOn
<1>12. ASSUME ToolResult(r) PROVE Held'
  <2>1. pc[r] \in ActivePhases /\ \E label \in ActivePhases : GoTo(r, label)
    BY <1>12 DEF ToolResult, AtTools, NextCall
  <2>2. /\ UNCHANGED <<turnActive, persist>>
        /\ checked' = checked \/ checked' = [checked EXCEPT ![r] = TRUE]
    BY <1>12 DEF ToolResult, AtTools, NextCall
  <2> QED
    BY <2>1, <2>2, TurnGoesOn
<1>13. ASSUME ToolBlocked(r) PROVE Held'
  <2>1. pc[r] \in ActivePhases /\ \E label \in ActivePhases : GoTo(r, label)
    BY <1>13 DEF ToolBlocked, AtTools
  <2>2. /\ UNCHANGED <<turnActive, persist>>
        /\ checked' = checked \/ checked' = [checked EXCEPT ![r] = TRUE]
    BY <1>13 DEF ToolBlocked, AtTools
  <2> QED
    BY <2>1, <2>2, TurnGoesOn
<1>14. ASSUME ToolFails(r) PROVE Held'
  <2>1. pc[r] \in ActivePhases /\ \E label \in ActivePhases : GoTo(r, label)
    BY <1>14 DEF ToolFails, AtTools
  <2>2. /\ UNCHANGED <<turnActive, persist>>
        /\ checked' = checked \/ checked' = [checked EXCEPT ![r] = TRUE]
    BY <1>14 DEF ToolFails, AtTools
  <2> QED
    BY <2>1, <2>2, TurnGoesOn
<1>15. ASSUME Warns(r) PROVE Held'
  <2>1. pc[r] \in ActivePhases /\ \E label \in ActivePhases : GoTo(r, label)
    BY <1>15 DEF Warns
  <2>2. /\ UNCHANGED <<turnActive, persist>>
        /\ checked' = checked \/ checked' = [checked EXCEPT ![r] = TRUE]
    BY <1>15 DEF Warns
  <2> QED
    BY <2>1, <2>2, TurnGoesOn
<1> QED
  BY <1>1, <1>2, <1>3, <1>4, <1>5, <1>6, <1>7, <1>8, <1>9, <1>10, <1>11, <1>12, <1>13, <1>14,
     <1>15 DEF Loop

\* Who begins or ends to persist is in its drain, or a sender while no turn is active.
LEMMA PersistsHeld ==
  ASSUME HistoryTypes, Held, NEW by, persist'.by = by,
         persist'.phase = "free" <=> by = "none",
         by = "none" \/ \A s \in Runners : pc[s] \notin ActivePhases,
         by \in Runners => pc'[by] = "drain",
         \A s \in Runners : pc'[s] = pc[s] \/ (pc[s] = "drain" /\ pc'[s] = "after"),
         UNCHANGED <<driver, checked, turnActive>>
  PROVE  Held'
<1>0. \A s \in Runners : pc'[s] \in LoopPhases => pc'[s] = pc[s]
  BY DEF LoopPhases
<1>1. \A s, t \in Runners : pc'[s] \in LoopPhases /\ pc'[t] \in LoopPhases => s = t
  BY <1>0 DEF Held
<1>2. \A s \in Runners : pc'[s] \in ActivePhases => turnActive' /\ persist'.by = "none"
  <2> TAKE s \in Runners
  <2>1. pc'[s] \in ActivePhases => pc'[s] = pc[s]
    BY <1>0 DEF ActivePhases
  <2> HIDE DEF ActivePhases
  <2> QED
    BY <2>1 DEF Held
<1>3. Tui' => \A s \in Runners : checked'[s] /\ (s # Prompter => pc'[s] = "idle")
  BY DEF Held, Tui
<1> QED
  BY <1>1, <1>2, <1>3 DEF Held

\* So do the steps outside of the loop.
LEMMA SetsOutHeld ==
  ASSUME HistoryTypes, Held, driver' = driver, NEW r \in Runners, SetsOut(r) \/ Ends(r)
  PROVE  Held'
<1> USE DEF At, GoTo, Tui, LoopPhases, ActivePhases, Labels
<1>1. ASSUME Load(r) PROVE Held'
  <2>1. CASE pc' = pc
    BY <1>1, <2>1 DEF Load, HistoryTypes, Held
  <2>2. CASE GoTo(r, "loaded")
    BY <1>1, <2>2 DEF Load, HistoryTypes, Held
  <2> QED
    BY <1>1, <2>1, <2>2 DEF Load
<1>2. ASSUME Sync(r) PROVE Held'
  BY <1>2 DEF Sync, SyncHost, HistoryTypes, Held
<1>3. ASSUME LineTurn(r) PROVE Held'
  BY <1>3 DEF LineTurn, HistoryTypes, Held
<1>4. ASSUME StaleJob(r) PROVE Held'
  BY <1>4 DEF StaleJob, LoopFree, HistoryTypes, Held
<1>5. ASSUME Snapshot(r) PROVE Held'
  BY <1>5 DEF Snapshot, LoopFree, HistoryTypes, Held
<1>6. ASSUME SetMessages(r) PROVE Held'
  BY <1>6 DEF SetMessages, HistoryTypes, Held
<1>7. ASSUME BeginTurn(r) PROVE Held'
  BY <1>7 DEF BeginTurn, HistoryTypes, Held
<1>8. ASSUME EndTurn(r) PROVE Held'
  BY <1>8 DEF EndTurn, HistoryTypes, Held
<1>9. ASSUME EndCanceled(r) PROVE Held'
  BY <1>9 DEF EndCanceled, HistoryTypes, Held
<1>10. ASSUME DrainPops(r) PROVE Held'
  <2>0. pc[r] = "drain" /\ persist.by = "none" /\ r \notin {"none", "sender"}
    BY <1>10, HistoryAssumption DEF DrainPops
  <2>1. CASE PersistCommits(r)
    <3>1. \A s \in Runners : pc[s] \notin ActivePhases
      BY <2>0 DEF Held
    <3>2. pc' = pc
      BY <1>10, <2>1, <2>0 DEF DrainPops, PersistCommits
    <3> QED
      BY <1>10, <2>0, <2>1, <3>1, <3>2, PersistsHeld DEF DrainPops, PersistCommits
  <2>2. CASE persist' = persist
    <3>1. pc' = [pc EXCEPT ![r] = "after"]
      BY <1>10, <2>0, <2>2 DEF DrainPops, PersistCommits
    <3>2. \A s \in Runners : pc'[s] = pc[s] \/ (pc[s] = "drain" /\ pc'[s] = "after")
      BY <2>0, <3>1 DEF HistoryTypes
    <3>3. persist'.phase = "free" /\ persist'.by = "none"
      BY <2>0, <2>2 DEF Held
    <3> QED
      BY <1>10, <2>0, <3>2, <3>3, PersistsHeld, HistoryAssumption DEF DrainPops
  <2> QED
    BY <1>10, <2>1, <2>2 DEF DrainPops
<1>11. ASSUME DrainEnds(r) PROVE Held'
  BY <1>11 DEF DrainEnds, HistoryTypes, Held
<1>12. ASSUME GiveBack(r) PROVE Held'
  <2>1. CASE GoTo(r, "exited")
    BY <1>12, <2>1 DEF GiveBack, HistoryTypes, Held
  <2>2. CASE GoTo(r, "idle")
    BY <1>12, <2>2 DEF GiveBack, HistoryTypes, Held
  <2> QED
    BY <1>12, <2>1, <2>2 DEF GiveBack
<1>13. ASSUME Reload(r) PROVE Held'
  <2>1. CASE GoTo(r, "reloaded")
    BY <1>13, <2>1 DEF Reload, HistoryTypes, Held
  <2>2. CASE GoTo(r, "idle")
    BY <1>13, <2>2 DEF Reload, HistoryTypes, Held
  <2> QED
    BY <1>13, <2>1, <2>2 DEF Reload
<1>14. ASSUME RecordPrompt(r) PROVE Held'
  <2>1. pc[r] \in ActivePhases /\ \E label \in ActivePhases : GoTo(r, label)
    BY <1>14 DEF RecordPrompt
  <2>2. UNCHANGED <<turnActive, persist, checked>>
    BY <1>14 DEF RecordPrompt
  <2> QED
    BY <2>1, <2>2, TurnGoesOn
<1> QED
  BY <1>1, <1>2, <1>3, <1>4, <1>5, <1>6, <1>7, <1>8, <1>9, <1>10, <1>11, <1>12, <1>13,
     <1>14 DEF SetsOut, Ends

\* And those of whoever persists a delivery.
LEMMA PersistHeld ==
  ASSUME HistoryTypes, Held, driver' = driver, PersistLoads \/ PersistSets \/ Send
  PROVE  Held'
<1> USE DEF At, GoTo, Tui, LoopPhases, ActivePhases, Labels
<1>0. ASSUME persist.phase # "free"
      PROVE  \A s \in Runners : pc[s] \notin ActivePhases
  BY <1>0 DEF Held
<1>1. ASSUME PersistLoads PROVE Held'
  <2>0. persist.phase = "committed" /\ persist.by # "none"
    BY <1>1 DEF PersistLoads, Held
  <2>1. CASE Loads
    <3>1. persist'.phase = "loaded" /\ persist'.by = persist.by /\ pc' = pc
      BY <1>1, <2>1 DEF PersistLoads, HistoryTypes
    <3>2. persist.by \in Runners => pc[persist.by] = "drain"
      BY DEF Held
    <3> QED
      BY <1>0, <1>1, <2>0, <3>1, <3>2, PersistsHeld DEF PersistLoads
  <2>2. CASE ~Loads
    <3>1. persist'.phase = "free" /\ persist'.by = "none"
      BY <1>1, <2>2 DEF PersistLoads, Free
    <3>2. \A s \in Runners : pc'[s] = pc[s] \/ (pc[s] = "drain" /\ pc'[s] = "after")
      <4>1. CASE persist.by \in Runners
        BY <1>1, <2>2, <4>1 DEF PersistLoads, HistoryTypes, Held
      <4>2. CASE persist.by \notin Runners
        BY <1>1, <2>2, <4>2 DEF PersistLoads
      <4> QED
        BY <4>1, <4>2
    <3> QED
      BY <1>1, <3>1, <3>2, PersistsHeld, HistoryAssumption DEF PersistLoads
  <2> QED
    BY <2>1, <2>2
<1>2. ASSUME PersistSets PROVE Held'
  <2>1. persist'.phase = "free" /\ persist'.by = "none"
    BY <1>2 DEF PersistSets, Free
  <2>2. UNCHANGED <<pc, driver, checked, turnActive>>
    BY <1>2 DEF PersistSets
  <2> QED
    BY <2>1, <2>2, PersistsHeld, HistoryAssumption
<1>3. ASSUME Send PROVE Held'
  <2>0. UNCHANGED <<pc, driver, checked, turnActive>>
    BY <1>3 DEF Send
  <2>1. CASE ~turnActive /\ PersistCommits("sender")
    <3>1. \A s \in Runners : pc[s] \notin ActivePhases
      BY <2>1 DEF Held
    <3>2. persist'.phase = "committed" /\ persist'.by = "sender"
      BY <2>1 DEF PersistCommits
    <3> QED
      BY <2>0, <3>1, <3>2, PersistsHeld, HistoryAssumption
  <2>2. CASE persist' = persist
    BY <2>0, <2>2 DEF Held
  <2> QED
    BY <1>3, <2>1, <2>2 DEF Send
<1> QED
  BY <1>1, <1>2, <1>3

-----------------------------------------------------------------------------
(* The copies.                                                               *)

\* The log and its copies: their types, and what Ordered says.
Copied ==
  /\ log \in Seq(Entry) /\ host \in Seq(Nat) /\ hist \in [Runners -> Seq(Nat)]
  /\ persist.view \in Seq(Nat) /\ Ordered

\* The entries a step may record.
LEMMA EntriesAre ==
  /\ Plain \in Entry /\ Failure \in Entry
  /\ \A n \in Nat : Asks(n) \in Entry /\ Answers(n) \in Entry
  /\ Plain.of = 0 /\ Failure.of = 0 /\ Plain.calls = 0 /\ Failure.calls = 0
  /\ Plain.kind = "message" /\ Failure.kind = "error"
  /\ \A n \in Nat : /\ Asks(n).of = 0 /\ Asks(n).calls = n /\ Asks(n).kind = "calls"
                    /\ Answers(n).of = n /\ Answers(n).calls = 0 /\ Answers(n).kind = "result"
BY DEF Entry, Plain, Failure, Asks, Answers

\* A batch that runs is the last answer with calls.
LEMMA AskerIs ==
  ASSUME NEW l \in Seq(Entry), NEW a, LastCalls(l, a), l = log
  PROVE  Asker = a /\ Asker \in 1..Len(l)
<1>1. a \in 1..Len(l) /\ Len(l) \in Nat
  BY DEF LastCalls
<1>2. \A i \in DOMAIN l : LastCalls(l, i) => i = a
  BY <1>1 DEF LastCalls
<1>3. Asker = CHOOSE i \in DOMAIN l : LastCalls(l, i)
  BY DEF Asker, LastCalls
<1>4. a \in DOMAIN l
  BY DEF LastCalls
<1> QED
  BY <1>1, <1>2, <1>3, <1>4

\* Nothing is in order.
LEMMA NothingInOrder == ASSUME NEW l PROVE <<>> \in Seq(Nat) /\ InOrder(<<>>, l)
BY DEF InOrder, Increasing

\* A recorder keeps the copies in order.
LEMMA RecordCopies ==
  ASSUME Copied, NEW r \in Runners, NEW e \in Entry, Record(r, e),
         persist' = persist, persist.phase # "loaded"
  PROVE  Copied'
<1>1. /\ log' = Append(log, e) /\ host' = Append(host, Len(log) + 1)
      /\ hist' = [hist EXCEPT ![r] = Append(hist[r], Len(log) + 1)]
  BY DEF Record
<1>2. log' \in Seq(Entry) /\ Complete(log')
  BY <1>1, EntryAppended, ProjectionGrows DEF Copied, Ordered
<1>3. host' \in Seq(Nat) /\ InOrder(host', log')
  BY <1>1, InOrderGrows DEF Copied, Ordered
<1>4. \A s \in Runners : /\ hist[s] \in Seq(Nat) /\ InOrder(hist[s], log')
                         /\ Append(hist[s], Len(log) + 1) \in Seq(Nat)
                         /\ InOrder(Append(hist[s], Len(log) + 1), log')
  BY <1>1, InOrderGrows DEF Copied, Ordered
<1>5. hist' \in [Runners -> Seq(Nat)] /\ \A s \in Runners : InOrder(hist'[s], log')
  BY <1>1, <1>4 DEF Copied
<1>6. persist'.view \in Seq(Nat) /\ InOrder(persist'.view, log')
  BY <1>1, InOrderGrows DEF Copied, Ordered
<1> QED
  BY <1>2, <1>3, <1>5, <1>6 DEF Copied, Ordered

\* So does a delivery, whose projection takes the place of the copies or of none.
LEMMA DeliverCopies ==
  ASSUME Copied, log' = Append(log, Plain),
         host' = host \/ host' = Projection(log'),
         \/ hist' = hist
         \/ \E r \in Runners : hist' = [hist EXCEPT ![r] = Projection(log')],
         persist'.phase # "loaded", persist'.view = persist.view \/ persist'.view = <<>>
  PROVE  Copied'
<1>1. log' \in Seq(Entry) /\ Complete(log')
  BY EntriesAre, EntryAppended, ProjectionGrows DEF Copied, Ordered
<1>2. Projection(log') \in Seq(Nat) /\ InOrder(Projection(log'), log')
  BY <1>1 DEF Complete
<1>3. host' \in Seq(Nat) /\ InOrder(host', log')
  BY <1>2, InOrderGrows, EntriesAre DEF Copied, Ordered
<1>4. \A s \in Runners : hist[s] \in Seq(Nat) /\ InOrder(hist[s], log')
  BY InOrderGrows, EntriesAre DEF Copied, Ordered
<1>5. hist' \in [Runners -> Seq(Nat)] /\ \A s \in Runners : InOrder(hist'[s], log')
  BY <1>2, <1>4 DEF Copied
<1>6. persist'.view \in Seq(Nat) /\ InOrder(persist'.view, log')
  BY InOrderGrows, EntriesAre, NothingInOrder DEF Copied, Ordered
<1> QED
  BY <1>1, <1>3, <1>5, <1>6 DEF Copied, Ordered

\* And copying one of them to another.
LEMMA CopyCopies ==
  ASSUME Copied, log' = log,
         host' \in {host, View, persist.view} \/ \E r \in Runners : host' = hist[r],
         \/ hist' = hist
         \/ \E r \in Runners, q \in {host, View, <<>>} : hist' = [hist EXCEPT ![r] = q],
         \/ persist' = persist
         \/ persist'.phase # "loaded" /\ persist'.view = <<>>
         \/ persist'.view = View
  PROVE  Copied'
<1>1. log' \in Seq(Entry) /\ Complete(log') /\ View' = View
  BY DEF Copied, Ordered, View
<1>2. View \in Seq(Nat) /\ InOrder(View, log)
  BY <1>1 DEF Complete, View
<1>3. host' \in Seq(Nat) /\ InOrder(host', log')
  BY <1>2 DEF Copied, Ordered
<1>4. \A s \in Runners : hist[s] \in Seq(Nat) /\ InOrder(hist[s], log')
  BY DEF Copied, Ordered
<1>5. hist' \in [Runners -> Seq(Nat)] /\ \A s \in Runners : InOrder(hist'[s], log')
  <2>1. CASE hist' = hist
    BY <1>4, <2>1 DEF Copied
  <2>2. ASSUME NEW r \in Runners, NEW q \in {host, View, <<>>}, hist' = [hist EXCEPT ![r] = q]
        PROVE  hist' \in [Runners -> Seq(Nat)] /\ \A s \in Runners : InOrder(hist'[s], log')
    <3>1. q \in Seq(Nat) /\ InOrder(q, log')
      BY <1>2, NothingInOrder DEF Copied, Ordered
    <3> QED
      BY <1>4, <2>2, <3>1 DEF Copied
  <2> QED
    BY <2>1, <2>2
<1>6. /\ persist'.view \in Seq(Nat) /\ InOrder(persist'.view, log')
      /\ persist'.phase = "loaded" => persist'.view = View'
  BY <1>1, <1>2, NothingInOrder DEF Copied, Ordered
<1> QED
  BY <1>1, <1>3, <1>5, <1>6 DEF Copied, Ordered

\* Where nobody persists a runner may record.
LEMMA ActiveAlone ==
  ASSUME Held, NEW r \in Runners, pc[r] \in ActivePhases
  PROVE  persist.by = "none" /\ persist.phase = "free" /\ pc[r] # "drain"
BY DEF Held, ActivePhases

\* In an active turn a delivery or a failure keeps the copies.
LEMMA BoundaryCopies ==
  ASSUME Copied, NEW r \in Runners, NEW label, Deliver(r, label) \/ DeliveryFails(r),
         persist' = persist, persist.phase = "free"
  PROVE  Copied'
<1>1. CASE Deliver(r, label)
  <2>1. CASE Paired(Append(log, Plain))
    <3>1. /\ log' = Append(log, Plain) /\ host' = Projection(log')
          /\ hist' = [hist EXCEPT ![r] = Projection(log')]
      BY <1>1, <2>1 DEF Deliver, Delivered
    <3> QED
      BY <3>1, DeliverCopies
  <2>2. CASE ~Paired(Append(log, Plain))
    <3>1. log' = Append(log, Plain) /\ host' = host /\ hist' = hist
      BY <1>1, <2>2 DEF Deliver
    <3> QED
      BY <3>1, DeliverCopies
  <2> QED
    BY <2>1, <2>2
<1>2. CASE DeliveryFails(r)
  <2>1. UNCHANGED <<log, host, hist>>
    BY <1>2 DEF DeliveryFails
  <2> QED
    BY <2>1, CopyCopies DEF Copied
<1> QED
  BY <1>1, <1>2

\* Every step keeps the copies in order.
LEMMA CopiedStep == ASSUME HistoryInv, Next PROVE Copied'
<1> USE DEF At, GoTo
<1>0. Copied /\ Held /\ HistoryTypes
  BY DEF HistoryInv, HistoryTypes, Copied
<1>a. ASSUME UNCHANGED <<log, host, hist, persist>> PROVE Copied'
  BY <1>0, <1>a DEF Copied, Ordered, View
<1>b. ASSUME NEW r \in Runners, pc[r] \in ActivePhases, NEW e \in Entry, Record(r, e),
             persist' = persist
      PROVE  Copied'
  BY <1>0, <1>b, ActiveAlone, RecordCopies
<1>c. ASSUME NEW r \in Runners, pc[r] = "tools" PROVE Answers(Asker) \in Entry
  <2>1. \E a \in DOMAIN log : LastCalls(log, a)
    BY <1>c DEF HistoryInv, Batches
  <2>2. Asker \in 1..Len(log)
    BY <1>0, <2>1, AskerIs DEF HistoryTypes
  <2> QED
    BY <2>2, EntriesAre, <1>0 DEF HistoryTypes
<1> USE DEF ActivePhases, LoopPhases
<1>1. ASSUME NEW r \in Runners, SetsOut(r) PROVE Copied'
  <2>1. CASE Load(r)
    <3>1. /\ log' = log /\ host' = host /\ persist' = persist
          /\ hist' = hist \/ hist' = [hist EXCEPT ![r] = View]
      BY <2>1 DEF Load
    <3> QED
      BY <1>0, <3>1, CopyCopies
  <2>2. CASE Sync(r) \/ SetMessages(r)
    <3>1. UNCHANGED <<log, hist, persist>> /\ host' = hist[r]
      BY <2>2 DEF Sync, SetMessages, SyncHost
    <3> QED
      BY <1>0, <3>1, CopyCopies
  <2>3. CASE LineTurn(r) \/ Snapshot(r)
    <3>1. /\ log' = log /\ host' = host /\ persist' = persist
          /\ hist' = hist \/ hist' = [hist EXCEPT ![r] = host]
      BY <2>3 DEF LineTurn, Snapshot
    <3> QED
      BY <1>0, <3>1, CopyCopies
  <2>4. CASE StaleJob(r) \/ BeginTurn(r)
    BY <2>4, <1>a DEF StaleJob, BeginTurn
  <2>5. CASE RecordPrompt(r)
    <3>1. pc[r] \in ActivePhases /\ persist' = persist
      BY <2>5 DEF RecordPrompt
    <3>2. Record(r, Plain) \/ UNCHANGED <<log, host, hist>>
      BY <2>5 DEF RecordPrompt
    <3> QED
      BY <3>1, <3>2, <1>a, <1>b, EntriesAre
  <2> QED
    BY <1>1, <2>1, <2>2, <2>3, <2>4, <2>5 DEF SetsOut
<1>2. ASSUME NEW r \in Runners, Loop(r) PROVE Copied'
  <2>1. CASE Poll(r) \/ Stop(r)
    <3>1. pc[r] \in ActivePhases /\ persist' = persist
      BY <2>1 DEF Poll, Stop
    <3>2. \/ \E label : Deliver(r, label) \/ DeliveryFails(r)
          \/ UNCHANGED <<log, host, hist>>
      BY <2>1 DEF Poll, Stop
    <3> QED
      BY <1>0, <3>1, <3>2, <1>a, ActiveAlone, BoundaryCopies
  <2>2. CASE Cancel(r) \/ StreamFails(r) \/ ToolFails(r)
    BY <2>2, <1>a DEF Cancel, StreamFails, ToolFails, AtRequest, AtTools
  <2>3. CASE Refresh(r)
    <3>1. UNCHANGED <<log, hist, persist>> /\ host' \in {host, View}
      BY <2>3 DEF Refresh
    <3> QED
      BY <1>0, <3>1, CopyCopies
  <2>4. CASE ContinueTurn(r)
    <3>1. /\ UNCHANGED <<log, host, persist>>
          /\ hist' = [hist EXCEPT ![r] = View] \/ hist' = [hist EXCEPT ![r] = <<>>]
      BY <2>4 DEF ContinueTurn
    <3> QED
      BY <1>0, <3>1, CopyCopies
  <2>5. CASE Stops(r) \/ ProviderError(r) \/ Overflows(r) \/ Warns(r)
    <3>1. pc[r] \in ActivePhases /\ persist' = persist
      BY <2>5 DEF Stops, ProviderError, Overflows, Warns, AtRequest
    <3>2. Record(r, Plain) \/ Record(r, Failure) \/ UNCHANGED <<log, host, hist>>
      BY <2>5 DEF Stops, ProviderError, Overflows, Warns
    <3> QED
      BY <3>1, <3>2, <1>a, <1>b, EntriesAre
  <2>6. CASE UsesTools(r) \/ CutWithCalls(r)
    <3>1. pc[r] \in ActivePhases /\ persist' = persist
      BY <2>6 DEF UsesTools, CutWithCalls, AtRequest
    <3>2. \E n \in 0..MaxBatch : Record(r, Asks(n))
      BY <2>6, HistoryAssumption DEF UsesTools, CutWithCalls
    <3>3. \A n \in 0..MaxBatch : Asks(n) \in Entry
      BY EntriesAre, HistoryAssumption
    <3> QED
      BY <3>1, <3>2, <3>3, <1>b
  <2>7. CASE ToolResult(r) \/ ToolBlocked(r)
    <3>1. pc[r] = "tools" /\ persist' = persist /\ Record(r, Answers(Asker))
      BY <2>7 DEF ToolResult, ToolBlocked, AtTools
    <3> QED
      BY <3>1, <1>b, <1>c
  <2> QED
    BY <1>2, <2>1, <2>2, <2>3, <2>4, <2>5, <2>6, <2>7 DEF Loop
<1>3. ASSUME NEW r \in Runners, Ends(r) PROVE Copied'
  <2>1. CASE EndTurn(r) \/ EndCanceled(r) \/ DrainEnds(r)
    BY <2>1, <1>a DEF EndTurn, EndCanceled, DrainEnds
  <2>2. CASE DrainPops(r)
    <3>1. \/ /\ log' = Append(log, Plain) /\ UNCHANGED <<host, hist>>
             /\ persist'.phase = "committed" /\ persist'.view = <<>>
          \/ UNCHANGED <<log, host, hist, persist>>
      BY <2>2 DEF DrainPops, PersistCommits
    <3> QED
      BY <1>0, <3>1, <1>a, DeliverCopies
  <2>3. CASE GiveBack(r)
    <3>1. UNCHANGED <<log, hist, persist>> /\ (host' = host \/ host' = hist[r])
      BY <2>3 DEF GiveBack
    <3> QED
      BY <1>0, <3>1, CopyCopies
  <2>4. CASE Reload(r)
    <3>1. /\ UNCHANGED <<log, host, persist>>
          /\ hist' = hist \/ hist' = [hist EXCEPT ![r] = View]
      BY <2>4 DEF Reload
    <3> QED
      BY <1>0, <3>1, CopyCopies
  <2> QED
    BY <1>3, <2>1, <2>2, <2>3, <2>4 DEF Ends
<1>4. ASSUME PersistLoads PROVE Copied'
  <2>1. /\ UNCHANGED <<log, host, hist>>
        /\ persist'.view = View \/ (persist'.phase # "loaded" /\ persist'.view = <<>>)
    <3>1. CASE Loads
      BY <1>0, <1>4, <3>1 DEF PersistLoads, HistoryTypes
    <3>2. CASE ~Loads
      BY <1>4, <3>2 DEF PersistLoads, Free
    <3> QED
      BY <3>1, <3>2, <1>4 DEF PersistLoads
  <2> QED
    BY <1>0, <2>1, CopyCopies
<1>5. ASSUME PersistSets PROVE Copied'
  <2>1. /\ UNCHANGED <<log, hist>> /\ host' = persist.view
        /\ persist'.phase # "loaded" /\ persist'.view = <<>>
    BY <1>5 DEF PersistSets, Free
  <2> QED
    BY <1>0, <2>1, CopyCopies
<1>6. ASSUME Send PROVE Copied'
  <2>1. \/ /\ log' = Append(log, Plain) /\ UNCHANGED <<host, hist>>
           /\ persist'.phase = "committed" /\ persist'.view = <<>>
        \/ UNCHANGED <<log, host, hist, persist>>
    BY <1>6 DEF Send, PersistCommits
  <2> QED
    BY <1>0, <2>1, <1>a, DeliverCopies
<1> QED
  BY <1>1, <1>2, <1>3, <1>4, <1>5, <1>6 DEF Next

-----------------------------------------------------------------------------
(* Types.                                                                    *)

\* The types of what the other lemmas say nothing of.
Plainly ==
  /\ pc \in [Runners -> Labels] /\ todo \in Nat
  /\ checked \in [Runners -> BOOLEAN] /\ failed \in [Runners -> BOOLEAN]
  /\ retried \in BOOLEAN /\ turnActive \in BOOLEAN /\ raced \in BOOLEAN
  /\ persist.by \in Runners \cup {"none", "sender"}
  /\ persist.phase \in {"free", "committed", "loaded"}
  /\ queued \in Nat /\ deferred \in Nat
  /\ turns \in Nat /\ sends \in Nat /\ faults \in Nat
  /\ mishaps \subseteq {"cut", "block", "hook"}

\* persist stays a record.
LEMMA PersistIsRecord ==
  ASSUME HistoryInv, Next
  PROVE  persist' = [by |-> persist'.by, phase |-> persist'.phase, view |-> persist'.view]
<1>0. persist = [by |-> persist.by, phase |-> persist.phase, view |-> persist.view]
  BY DEF HistoryInv, HistoryTypes
<1>1. CASE persist' = persist
  BY <1>0, <1>1
<1>2. CASE \E b : PersistCommits(b)
  BY <1>2 DEF PersistCommits
<1>3. CASE PersistLoads \/ PersistSets
  BY <1>0, <1>3 DEF PersistLoads, PersistSets, Free
<1>4. ASSUME NEW r \in Runners, SetsOut(r) PROVE persist' = persist
  BY <1>4 DEF SetsOut, Load, Sync, LineTurn, StaleJob, Snapshot, SetMessages, BeginTurn,
              RecordPrompt
<1>5. ASSUME NEW r \in Runners, Loop(r) PROVE persist' = persist
  BY <1>5 DEF Loop, Poll, Cancel, Refresh, Stop, Stops, UsesTools, CutWithCalls, ProviderError,
              StreamFails, Overflows, ContinueTurn, ToolResult, ToolBlocked, ToolFails, Warns,
              AtRequest, AtTools
<1>6. ASSUME NEW r \in Runners, Ends(r) PROVE persist' = persist \/ PersistCommits(r)
  BY <1>6 DEF Ends, EndTurn, EndCanceled, DrainPops, DrainEnds, GiveBack, Reload
<1>7. ASSUME Send PROVE persist' = persist \/ PersistCommits("sender")
  BY <1>7 DEF Send
<1> QED
  BY <1>1, <1>2, <1>3, <1>4, <1>5, <1>6, <1>7 DEF Next

\* Every step keeps them.
LEMMA TypesStep == ASSUME HistoryInv, Next PROVE HistoryTypes'
<1> USE HistoryAssumption
<1> USE DEF At, GoTo, LoopPhases, Labels, Plainly, HistoryTypes, Fault, NoFault, Fails, tools,
            waiting, bounds
<1>0. HistoryTypes /\ driver' = driver
  BY DEF HistoryInv, Next
<1>w. \A r \in Runners : pc[r] = "tools" => todo > 0
  BY DEF HistoryInv, Batches
<1>1. ASSUME NEW r \in Runners, Load(r) PROVE Plainly'
  <2>1. pc' \in [Runners -> Labels]
    BY <1>0, <1>1 DEF Load
  <2>2. failed' \in [Runners -> BOOLEAN] /\ checked' \in [Runners -> BOOLEAN]
    BY <1>0, <1>1 DEF Load
  <2>3. turns' \in Nat /\ sends' \in Nat /\ faults' \in Nat
    BY <1>0, <1>1 DEF Load
  <2>4. queued' \in Nat /\ deferred' \in Nat /\ todo' \in Nat
    BY <1>0, <1>1 DEF Load
  <2>5. /\ turnActive' \in BOOLEAN /\ retried' \in BOOLEAN /\ raced' \in BOOLEAN
        /\ mishaps' \subseteq {"cut", "block", "hook"}
    BY <1>0, <1>1 DEF Load
  <2>6. /\ persist'.by \in Runners \cup {"none", "sender"}
        /\ persist'.phase \in {"free", "committed", "loaded"}
    BY <1>0, <1>1 DEF Load
  <2> QED
    BY <2>1, <2>2, <2>3, <2>4, <2>5, <2>6
<1>2. ASSUME NEW r \in Runners, Sync(r) PROVE Plainly'
  BY <1>0, <1>2 DEF Sync, SyncHost
<1>3. ASSUME NEW r \in Runners, LineTurn(r) PROVE Plainly'
  BY <1>0, <1>3 DEF LineTurn
<1>4. ASSUME NEW r \in Runners, StaleJob(r) PROVE Plainly'
  BY <1>0, <1>4 DEF StaleJob, LoopFree
<1>5. ASSUME NEW r \in Runners, Snapshot(r) PROVE Plainly'
  BY <1>0, <1>5 DEF Snapshot, LoopFree
<1>6. ASSUME NEW r \in Runners, SetMessages(r) PROVE Plainly'
  BY <1>0, <1>6 DEF SetMessages
<1>7. ASSUME NEW r \in Runners, BeginTurn(r) PROVE Plainly'
  BY <1>0, <1>7 DEF BeginTurn
<1>8. ASSUME NEW r \in Runners, RecordPrompt(r) PROVE Plainly'
  <2>1. pc' \in [Runners -> Labels]
    BY <1>0, <1>8 DEF RecordPrompt
  <2>2. failed' \in [Runners -> BOOLEAN] /\ checked' \in [Runners -> BOOLEAN]
    BY <1>0, <1>8 DEF RecordPrompt
  <2>3. turns' \in Nat /\ sends' \in Nat /\ faults' \in Nat
    BY <1>0, <1>8 DEF RecordPrompt
  <2>4. queued' \in Nat /\ deferred' \in Nat /\ todo' \in Nat
    BY <1>0, <1>8 DEF RecordPrompt
  <2>5. /\ turnActive' \in BOOLEAN /\ retried' \in BOOLEAN /\ raced' \in BOOLEAN
        /\ mishaps' \subseteq {"cut", "block", "hook"}
    BY <1>0, <1>8 DEF RecordPrompt
  <2>6. /\ persist'.by \in Runners \cup {"none", "sender"}
        /\ persist'.phase \in {"free", "committed", "loaded"}
    BY <1>0, <1>8 DEF RecordPrompt
  <2> QED
    BY <2>1, <2>2, <2>3, <2>4, <2>5, <2>6
<1>9. ASSUME NEW r \in Runners, Poll(r) PROVE Plainly'
  <2>1. pc' \in [Runners -> Labels]
    BY <1>0, <1>9 DEF Poll, Deliver, DeliveryFails
  <2>2. failed' \in [Runners -> BOOLEAN] /\ checked' \in [Runners -> BOOLEAN]
    BY <1>0, <1>9 DEF Poll, Deliver, DeliveryFails
  <2>3. turns' \in Nat /\ sends' \in Nat /\ faults' \in Nat
    BY <1>0, <1>9 DEF Poll, Deliver, DeliveryFails
  <2>4. queued' \in Nat /\ deferred' \in Nat /\ todo' \in Nat
    BY <1>0, <1>9 DEF Poll, Deliver, DeliveryFails
  <2>5. /\ turnActive' \in BOOLEAN /\ retried' \in BOOLEAN /\ raced' \in BOOLEAN
        /\ mishaps' \subseteq {"cut", "block", "hook"}
    BY <1>0, <1>9 DEF Poll, Deliver, DeliveryFails
  <2>6. /\ persist'.by \in Runners \cup {"none", "sender"}
        /\ persist'.phase \in {"free", "committed", "loaded"}
    BY <1>0, <1>9 DEF Poll, Deliver, DeliveryFails
  <2> QED
    BY <2>1, <2>2, <2>3, <2>4, <2>5, <2>6
<1>10. ASSUME NEW r \in Runners, Cancel(r) PROVE Plainly'
  BY <1>0, <1>10 DEF Cancel
<1>11. ASSUME NEW r \in Runners, Refresh(r) PROVE Plainly'
  <2>1. pc' \in [Runners -> Labels]
    BY <1>0, <1>11 DEF Refresh
  <2>2. failed' \in [Runners -> BOOLEAN] /\ checked' \in [Runners -> BOOLEAN]
    BY <1>0, <1>11 DEF Refresh
  <2>3. turns' \in Nat /\ sends' \in Nat /\ faults' \in Nat
    BY <1>0, <1>11 DEF Refresh
  <2>4. queued' \in Nat /\ deferred' \in Nat /\ todo' \in Nat
    BY <1>0, <1>11 DEF Refresh
  <2>5. /\ turnActive' \in BOOLEAN /\ retried' \in BOOLEAN /\ raced' \in BOOLEAN
        /\ mishaps' \subseteq {"cut", "block", "hook"}
    BY <1>0, <1>11 DEF Refresh
  <2>6. /\ persist'.by \in Runners \cup {"none", "sender"}
        /\ persist'.phase \in {"free", "committed", "loaded"}
    BY <1>0, <1>11 DEF Refresh
  <2> QED
    BY <2>1, <2>2, <2>3, <2>4, <2>5, <2>6
<1>12. ASSUME NEW r \in Runners, Stop(r) PROVE Plainly'
  <2>1. pc' \in [Runners -> Labels]
    BY <1>0, <1>12 DEF Stop, Deliver, DeliveryFails
  <2>2. failed' \in [Runners -> BOOLEAN] /\ checked' \in [Runners -> BOOLEAN]
    BY <1>0, <1>12 DEF Stop, Deliver, DeliveryFails
  <2>3. turns' \in Nat /\ sends' \in Nat /\ faults' \in Nat
    BY <1>0, <1>12 DEF Stop, Deliver, DeliveryFails
  <2>4. queued' \in Nat /\ deferred' \in Nat /\ todo' \in Nat
    BY <1>0, <1>12 DEF Stop, Deliver, DeliveryFails
  <2>5. /\ turnActive' \in BOOLEAN /\ retried' \in BOOLEAN /\ raced' \in BOOLEAN
        /\ mishaps' \subseteq {"cut", "block", "hook"}
    BY <1>0, <1>12 DEF Stop, Deliver, DeliveryFails
  <2>6. /\ persist'.by \in Runners \cup {"none", "sender"}
        /\ persist'.phase \in {"free", "committed", "loaded"}
    BY <1>0, <1>12 DEF Stop, Deliver, DeliveryFails
  <2> QED
    BY <2>1, <2>2, <2>3, <2>4, <2>5, <2>6
<1>13. ASSUME NEW r \in Runners, Stops(r) PROVE Plainly'
  BY <1>0, <1>13 DEF Stops, AtRequest
<1>14. ASSUME NEW r \in Runners, UsesTools(r) PROVE Plainly'
  BY <1>0, <1>14 DEF UsesTools, AtRequest
<1>15. ASSUME NEW r \in Runners, CutWithCalls(r) PROVE Plainly'
  BY <1>0, <1>15 DEF CutWithCalls, AtRequest
<1>16. ASSUME NEW r \in Runners, ProviderError(r) PROVE Plainly'
  BY <1>0, <1>16 DEF ProviderError, AtRequest
<1>17. ASSUME NEW r \in Runners, StreamFails(r) PROVE Plainly'
  BY <1>0, <1>17 DEF StreamFails, AtRequest
<1>18. ASSUME NEW r \in Runners, Overflows(r) PROVE Plainly'
  <2>1. pc' \in [Runners -> Labels]
    BY <1>0, <1>18 DEF Overflows, AtRequest
  <2>2. failed' \in [Runners -> BOOLEAN] /\ checked' \in [Runners -> BOOLEAN]
    BY <1>0, <1>18 DEF Overflows, AtRequest
  <2>3. turns' \in Nat /\ sends' \in Nat /\ faults' \in Nat
    BY <1>0, <1>18 DEF Overflows, AtRequest
  <2>4. queued' \in Nat /\ deferred' \in Nat /\ todo' \in Nat
    BY <1>0, <1>18 DEF Overflows, AtRequest
  <2>5. /\ turnActive' \in BOOLEAN /\ retried' \in BOOLEAN /\ raced' \in BOOLEAN
        /\ mishaps' \subseteq {"cut", "block", "hook"}
    BY <1>0, <1>18 DEF Overflows, AtRequest
  <2>6. /\ persist'.by \in Runners \cup {"none", "sender"}
        /\ persist'.phase \in {"free", "committed", "loaded"}
    BY <1>0, <1>18 DEF Overflows, AtRequest
  <2> QED
    BY <2>1, <2>2, <2>3, <2>4, <2>5, <2>6
<1>19. ASSUME NEW r \in Runners, ContinueTurn(r) PROVE Plainly'
  BY <1>0, <1>19 DEF ContinueTurn
<1>20. ASSUME NEW r \in Runners, ToolResult(r) PROVE Plainly'
  BY <1>0, <1>w, <1>20 DEF ToolResult, AtTools, NextCall
<1>21. ASSUME NEW r \in Runners, ToolBlocked(r) PROVE Plainly'
  BY <1>0, <1>21 DEF ToolBlocked, AtTools
<1>22. ASSUME NEW r \in Runners, ToolFails(r) PROVE Plainly'
  BY <1>0, <1>22 DEF ToolFails, AtTools
<1>23. ASSUME NEW r \in Runners, Warns(r) PROVE Plainly'
  BY <1>0, <1>23 DEF Warns
<1>24. ASSUME NEW r \in Runners, EndTurn(r) PROVE Plainly'
  BY <1>0, <1>24 DEF EndTurn
<1>25. ASSUME NEW r \in Runners, EndCanceled(r) PROVE Plainly'
  <2>1. pc' \in [Runners -> Labels]
    BY <1>0, <1>25 DEF EndCanceled
  <2>2. failed' \in [Runners -> BOOLEAN] /\ checked' \in [Runners -> BOOLEAN]
    BY <1>0, <1>25 DEF EndCanceled
  <2>3. turns' \in Nat /\ sends' \in Nat /\ faults' \in Nat
    BY <1>0, <1>25 DEF EndCanceled
  <2>4. queued' \in Nat /\ deferred' \in Nat /\ todo' \in Nat
    BY <1>0, <1>25 DEF EndCanceled
  <2>5. /\ turnActive' \in BOOLEAN /\ retried' \in BOOLEAN /\ raced' \in BOOLEAN
        /\ mishaps' \subseteq {"cut", "block", "hook"}
    BY <1>0, <1>25 DEF EndCanceled
  <2>6. /\ persist'.by \in Runners \cup {"none", "sender"}
        /\ persist'.phase \in {"free", "committed", "loaded"}
    BY <1>0, <1>25 DEF EndCanceled
  <2> QED
    BY <2>1, <2>2, <2>3, <2>4, <2>5, <2>6
<1>26. ASSUME NEW r \in Runners, DrainPops(r) PROVE Plainly'
  <2>1. pc' \in [Runners -> Labels]
    BY <1>0, <1>26 DEF DrainPops, PersistCommits
  <2>2. failed' \in [Runners -> BOOLEAN] /\ checked' \in [Runners -> BOOLEAN]
    BY <1>0, <1>26 DEF DrainPops, PersistCommits
  <2>3. turns' \in Nat /\ sends' \in Nat /\ faults' \in Nat
    BY <1>0, <1>26 DEF DrainPops, PersistCommits
  <2>4. queued' \in Nat /\ deferred' \in Nat /\ todo' \in Nat
    BY <1>0, <1>26 DEF DrainPops, PersistCommits
  <2>5. /\ turnActive' \in BOOLEAN /\ retried' \in BOOLEAN /\ raced' \in BOOLEAN
        /\ mishaps' \subseteq {"cut", "block", "hook"}
    BY <1>0, <1>26 DEF DrainPops, PersistCommits
  <2>6. /\ persist'.by \in Runners \cup {"none", "sender"}
        /\ persist'.phase \in {"free", "committed", "loaded"}
    BY <1>0, <1>26 DEF DrainPops, PersistCommits
  <2> QED
    BY <2>1, <2>2, <2>3, <2>4, <2>5, <2>6
<1>27. ASSUME NEW r \in Runners, DrainEnds(r) PROVE Plainly'
  BY <1>0, <1>27 DEF DrainEnds
<1>28. ASSUME NEW r \in Runners, GiveBack(r) PROVE Plainly'
  BY <1>0, <1>28 DEF GiveBack
<1>29. ASSUME NEW r \in Runners, Reload(r) PROVE Plainly'
  BY <1>0, <1>29 DEF Reload
<1>30. ASSUME PersistLoads PROVE Plainly'
  <2>1. pc' \in [Runners -> Labels]
    BY <1>0, <1>30 DEF PersistLoads, Free
  <2>2. failed' \in [Runners -> BOOLEAN] /\ checked' \in [Runners -> BOOLEAN]
    BY <1>0, <1>30 DEF PersistLoads, Free
  <2>3. turns' \in Nat /\ sends' \in Nat /\ faults' \in Nat
    BY <1>0, <1>30 DEF PersistLoads, Free
  <2>4. queued' \in Nat /\ deferred' \in Nat /\ todo' \in Nat
    BY <1>0, <1>30 DEF PersistLoads, Free
  <2>5. /\ turnActive' \in BOOLEAN /\ retried' \in BOOLEAN /\ raced' \in BOOLEAN
        /\ mishaps' \subseteq {"cut", "block", "hook"}
    BY <1>0, <1>30 DEF PersistLoads, Free
  <2>6. /\ persist'.by \in Runners \cup {"none", "sender"}
        /\ persist'.phase \in {"free", "committed", "loaded"}
    <3>1. CASE Loads
      <4>1. persist' = [persist EXCEPT !.phase = "loaded", !.view = View]
        BY <1>30, <3>1 DEF PersistLoads
      <4>2. persist'.by = persist.by /\ persist'.phase = "loaded"
        BY <1>0, <4>1
      <4> HIDE DEF HistoryTypes
      <4>3. persist.by \in Runners \cup {"none", "sender"}
        BY <1>0 DEF HistoryTypes
      <4> QED
        BY <4>2, <4>3
    <3>2. CASE ~Loads
      BY <1>30, <3>2 DEF PersistLoads, Free
    <3> QED
      BY <3>1, <3>2
  <2> QED
    BY <2>1, <2>2, <2>3, <2>4, <2>5, <2>6
<1>31. ASSUME PersistSets PROVE Plainly'
  BY <1>0, <1>31 DEF PersistSets, Free
<1>32. ASSUME Send PROVE Plainly'
  <2>1. pc' \in [Runners -> Labels]
    BY <1>0, <1>32 DEF Send, PersistCommits
  <2>2. failed' \in [Runners -> BOOLEAN] /\ checked' \in [Runners -> BOOLEAN]
    BY <1>0, <1>32 DEF Send, PersistCommits
  <2>3. turns' \in Nat /\ sends' \in Nat /\ faults' \in Nat
    BY <1>0, <1>32 DEF Send, PersistCommits
  <2>4. queued' \in Nat /\ deferred' \in Nat /\ todo' \in Nat
    BY <1>0, <1>32 DEF Send, PersistCommits
  <2>5. /\ turnActive' \in BOOLEAN /\ retried' \in BOOLEAN /\ raced' \in BOOLEAN
        /\ mishaps' \subseteq {"cut", "block", "hook"}
    BY <1>0, <1>32 DEF Send, PersistCommits
  <2>6. /\ persist'.by \in Runners \cup {"none", "sender"}
        /\ persist'.phase \in {"free", "committed", "loaded"}
    BY <1>0, <1>32 DEF Send, PersistCommits
  <2> QED
    BY <2>1, <2>2, <2>3, <2>4, <2>5, <2>6
<1> HIDE HistoryAssumption
<1>33. Plainly'
  BY <1>1, <1>2, <1>3, <1>4, <1>5, <1>6, <1>7, <1>8, <1>9, <1>10, <1>11, <1>12, <1>13, <1>14,
     <1>15, <1>16, <1>17, <1>18, <1>19, <1>20, <1>21, <1>22, <1>23, <1>24, <1>25, <1>26, <1>27,
     <1>28, <1>29, <1>30, <1>31, <1>32 DEF Next, SetsOut, Loop, Ends
<1>34. Copied'
  BY CopiedStep
<1>35. persist' = [by |-> persist'.by, phase |-> persist'.phase, view |-> persist'.view]
  BY <1>0, PersistIsRecord
<1> QED
  BY <1>0, <1>33, <1>34, <1>35 DEF Copied

-----------------------------------------------------------------------------
(* What a request sends.                                                     *)

\* In the TUI the prompter is the one that moves.
LEMMA PrompterMoves ==
  ASSUME HistoryInv, Tui, NEW r \in Runners, SetsOut(r) \/ Loop(r) \/ Ends(r)
  PROVE  r = Prompter
<1>1. ~Load(r) /\ ~LineTurn(r) => pc[r] # "idle"
  BY DEF SetsOut, Load, Sync, LineTurn, StaleJob, Snapshot, SetMessages, BeginTurn, RecordPrompt,
         Loop, Poll, Cancel, Refresh, Stop, Stops, UsesTools, CutWithCalls, ProviderError,
         StreamFails, Overflows, ContinueTurn, ToolResult, ToolBlocked, ToolFails, Warns,
         AtRequest, AtTools, Ends, EndTurn, EndCanceled, DrainPops, DrainEnds, GiveBack, Reload,
             At
<1>2. Load(r) => r = Prompter
  BY DEF Load
<1>3. ~LineTurn(r)
  BY DEF LineTurn
<1> QED
  BY <1>1, <1>2, <1>3 DEF HistoryInv, Held

\* A step keeps what is said of requests when it ends the turn, leaves the history, adds a
\* message to it, or takes the projection.
LEMMA RequestingKept ==
  ASSUME Copied, Copied', Requesting, Prompter \in Runners,
         pc'[Prompter] \in CleanPhases => pc'[Prompter] \notin {"waiting", "request"},
         \/ pc'[Prompter] \notin CleanPhases
         \/ /\ pc[Prompter] \in CleanPhases /\ log' = log
            /\ hist'[Prompter] = hist[Prompter]
         \/ /\ pc[Prompter] \in CleanPhases
            /\ \E e \in Entry : Record(Prompter, e) /\ e.kind # "error"
         \/ hist'[Prompter] = Projection(log')
  PROVE  Requesting'
<1>1. pc'[Prompter] # "waiting" /\ pc'[Prompter] # "request"
  BY DEF CleanPhases
<1>2. ASSUME pc'[Prompter] \in CleanPhases PROVE Clean(hist'[Prompter], log')
  <2>1. CASE /\ pc[Prompter] \in CleanPhases /\ log' = log
             /\ hist'[Prompter] = hist[Prompter]
    BY <2>1 DEF Requesting
  <2>2. CASE /\ pc[Prompter] \in CleanPhases
             /\ \E e \in Entry : Record(Prompter, e) /\ e.kind # "error"
    <3>1. PICK e \in Entry : Record(Prompter, e) /\ e.kind # "error"
      BY <2>2
    <3>2. log' = Append(log, e) /\ hist'[Prompter] = Append(hist[Prompter], Len(log) + 1)
      BY <3>1 DEF Record, Copied
    <3>3. log \in Seq(Entry) /\ hist[Prompter] \in Seq(Nat) /\ Clean(hist[Prompter], log)
      BY <2>2 DEF Copied, Requesting
    <3> QED
      BY <3>1, <3>2, <3>3, CleanGrows
  <2>3. CASE hist'[Prompter] = Projection(log')
    BY <2>3 DEF Copied, Ordered, Complete, Clean
  <2> QED
    BY <1>2, <2>1, <2>2, <2>3
<1> QED
  BY <1>1, <1>2 DEF Requesting

\* So before every request the history is the session.
LEMMA RequestsStep == ASSUME HistoryInv, Next PROVE Requests'
<1> USE DEF At, GoTo
<1> SUFFICES ASSUME Tui PROVE Requesting'
  BY DEF Requests, Next, Tui
<1>0. /\ Copied /\ Copied' /\ HistoryTypes /\ Held /\ Requesting /\ Prompter \in Runners
      /\ HistoryTypes'
  BY CopiedStep, TypesStep, HistoryAssumption DEF HistoryInv, HistoryTypes, Copied, Requests
<1>1. View' = Projection(log')
  BY DEF View
<1>2. ASSUME SetsOut(Prompter) PROVE Requesting'
  <2>1. CASE Load(Prompter)
    <3>1. CASE Loads
      <4>1. pc'[Prompter] = "loaded" /\ hist'[Prompter] = Projection(log')
        BY <1>0, <2>1, <3>1 DEF Load, View, HistoryTypes
      <4> QED
        BY <1>0, <4>1, RequestingKept
    <3>2. CASE ~Loads
      BY <1>0, <2>1, <3>2 DEF Load, Requesting, CleanPhases
    <3> QED
      BY <3>1, <3>2
  <2>2. CASE Sync(Prompter)
    <3>1. CASE pc[Prompter] = "loaded"
      <4>1. /\ pc'[Prompter] = "waiting" /\ UNCHANGED <<log, hist>> /\ host' = hist[Prompter]
        BY <1>0, <2>2, <3>1 DEF Sync, SyncHost, HistoryTypes
      <4> QED
        BY <1>0, <3>1, <4>1 DEF Requesting, CleanPhases
    <3>2. CASE pc[Prompter] # "loaded"
      <4>1. pc'[Prompter] = "idle"
        BY <1>0, <2>2, <3>2 DEF Sync, HistoryTypes
      <4> QED
        BY <4>1 DEF Requesting, CleanPhases
    <3> QED
      BY <3>1, <3>2
  <2>3. CASE StaleJob(Prompter)
    <3>1. pc'[Prompter] = "after"
      BY <1>0, <2>3 DEF StaleJob, HistoryTypes
    <3> QED
      BY <3>1 DEF Requesting, CleanPhases
  <2>4. CASE Snapshot(Prompter)
    <3>1. /\ pc[Prompter] = "waiting" /\ pc'[Prompter] = "snapshot" /\ log' = log
          /\ hist'[Prompter] \in {host, hist[Prompter]}
      BY <1>0, <2>4 DEF Snapshot, HistoryTypes
    <3> QED
      BY <3>1, <1>0 DEF Requesting, CleanPhases
  <2>5. CASE SetMessages(Prompter) \/ BeginTurn(Prompter)
    <3>1. /\ pc[Prompter] \in {"snapshot", "set"} /\ pc'[Prompter] \in {"set", "prompt", "poll"}
          /\ UNCHANGED <<log, hist>>
      BY <1>0, <2>5 DEF SetMessages, BeginTurn, HistoryTypes
    <3> QED
      BY <3>1, <1>0, RequestingKept DEF CleanPhases
  <2>6. CASE RecordPrompt(Prompter)
    <3>1. /\ pc[Prompter] = "prompt"
          /\ \/ Record(Prompter, Plain) /\ pc'[Prompter] = "poll"
             \/ pc'[Prompter] = "end"
      BY <1>0, <2>6 DEF RecordPrompt, HistoryTypes
    <3> QED
      BY <3>1, <1>0, RequestingKept, EntriesAre DEF CleanPhases
  <2>7. ~LineTurn(Prompter)
    BY DEF LineTurn
  <2> QED
    BY <1>2, <2>1, <2>2, <2>3, <2>4, <2>5, <2>6, <2>7 DEF SetsOut
<1>3. ASSUME Loop(Prompter) PROVE Requesting'
  <2>1. CASE Poll(Prompter) \/ Stop(Prompter)
    <3>1. pc[Prompter] \in {"poll", "stop"}
      BY <2>1 DEF Poll, Stop
    <3>2. \/ \E label \in {"poll", "refresh", "stop", "end"} : Deliver(Prompter, label)
          \/ DeliveryFails(Prompter)
          \/ UNCHANGED <<log, hist>> /\ pc'[Prompter] \in {"refresh", "end"}
      BY <1>0, <2>1 DEF Poll, Stop, HistoryTypes
    <3>3. ASSUME NEW label \in {"poll", "refresh", "stop", "end"}, Deliver(Prompter, label)
          PROVE  \/ pc'[Prompter] = label /\ hist'[Prompter] = Projection(log')
                 \/ pc'[Prompter] = "end"
      BY <1>0, <3>3 DEF Deliver, Delivered, HistoryTypes
    <3>4. DeliveryFails(Prompter) => pc'[Prompter] = "end"
      BY <1>0 DEF DeliveryFails, HistoryTypes
    <3>5. \/ pc'[Prompter] = "end"
          \/ pc'[Prompter] \in {"poll", "refresh", "stop"} /\ hist'[Prompter] = Projection(log')
          \/ UNCHANGED <<log, hist>> /\ pc'[Prompter] = "refresh"
      BY <3>2, <3>3, <3>4
    <3> QED
      BY <3>1, <3>5, <1>0, RequestingKept DEF CleanPhases
  <2>2. CASE \/ Cancel(Prompter) \/ StreamFails(Prompter) \/ ToolFails(Prompter)
             \/ ProviderError(Prompter) \/ Overflows(Prompter) \/ ToolBlocked(Prompter)
    <3>1. pc'[Prompter] \in {"canceled", "end", "retry"}
      BY <1>0, <2>2 DEF Cancel, StreamFails, ToolFails, ProviderError, Overflows, ToolBlocked,
                        HistoryTypes
    <3> QED
      BY <3>1, <1>0, RequestingKept DEF CleanPhases
  <2>3. CASE Refresh(Prompter)
    <3>1. UNCHANGED <<log, hist>> /\ pc[Prompter] = "refresh" /\ checked[Prompter]
      BY <1>0, <2>3 DEF Refresh, Held
    <3>2. CASE Loads /\ Aligned(Prompter)
      <4>1. pc'[Prompter] = "request"
        BY <1>0, <2>3, <3>2 DEF Refresh, HistoryTypes
      <4>2. hist[Prompter] = View
        BY <1>0, <3>1, <3>2, AlignedIsProjection
           DEF Aligned, View, Requesting, CleanPhases, Copied, Ordered
      <4> QED
        BY <1>0, <3>1, <4>1, <4>2 DEF Requesting, CleanPhases, View
    <3>3. CASE ~(Loads /\ Aligned(Prompter))
      <4>1. pc'[Prompter] = "end"
        BY <1>0, <2>3, <3>1, <3>3 DEF Refresh, HistoryTypes
      <4> QED
        BY <4>1 DEF Requesting, CleanPhases
    <3> QED
      BY <3>2, <3>3
  <2>4. CASE ContinueTurn(Prompter)
    <3>1. \/ pc'[Prompter] = "poll" /\ hist'[Prompter] = Projection(log')
          \/ pc'[Prompter] = "end"
      BY <1>0, <2>4 DEF ContinueTurn, HistoryTypes, View
    <3> QED
      BY <3>1, <1>0, RequestingKept DEF CleanPhases
  <2>5. CASE Stops(Prompter) \/ Warns(Prompter)
    <3>1. /\ pc[Prompter] \in {"request", "warned"} /\ pc'[Prompter] \in {"stop", "poll"}
          /\ Record(Prompter, Plain) \/ UNCHANGED <<log, hist>>
      BY <1>0, <2>5 DEF Stops, Warns, AtRequest, HistoryTypes
    <3> QED
      BY <3>1, <1>0, RequestingKept, EntriesAre DEF CleanPhases
  <2>6. CASE UsesTools(Prompter) \/ CutWithCalls(Prompter)
    <3>1. /\ pc[Prompter] = "request" /\ pc'[Prompter] \in {"stop", "tools", "end"}
          /\ \E n \in 0..MaxBatch : Record(Prompter, Asks(n))
      BY <1>0, <2>6, HistoryAssumption DEF UsesTools, CutWithCalls, AtRequest, HistoryTypes
    <3>2. \A n \in 0..MaxBatch : Asks(n) \in Entry /\ Asks(n).kind # "error"
      BY EntriesAre, HistoryAssumption
    <3> QED
      BY <3>1, <3>2, <1>0, RequestingKept DEF CleanPhases
  <2>7. CASE ToolResult(Prompter)
    <3>1. /\ pc[Prompter] = "tools" /\ pc'[Prompter] \in {"warned", "tools"}
          /\ Record(Prompter, Answers(Asker))
      BY <1>0, <2>7 DEF ToolResult, AtTools, NextCall, HistoryTypes
    <3>2. \E a \in DOMAIN log : LastCalls(log, a)
      BY <3>1, <1>0 DEF HistoryInv, Batches
    <3>3. Asker \in Nat
      BY <3>2, <1>0, AskerIs DEF HistoryTypes
    <3> QED
      BY <3>1, <3>3, <1>0, RequestingKept, EntriesAre DEF CleanPhases
  <2> QED
    BY <1>3, <2>1, <2>2, <2>3, <2>4, <2>5, <2>6, <2>7 DEF Loop
<1>4. ASSUME Ends(Prompter) PROVE Requesting'
  <2>1. pc'[Prompter] \in {"drain", "after", "reloaded", "idle"}
    BY <1>0, <1>4 DEF Ends, EndTurn, EndCanceled, DrainPops, DrainEnds, GiveBack, Reload,
                      HistoryTypes, PersistCommits
  <2> QED
    BY <2>1 DEF Requesting, CleanPhases
<1>5. ASSUME PersistLoads \/ PersistSets \/ Send PROVE Requesting'
  <2>1. hist' = hist /\ pc'[Prompter] \in {pc[Prompter], "after"}
    BY <1>0, <1>5 DEF PersistLoads, PersistSets, Send, HistoryTypes
  <2>2. CASE log' = log
    <3>1. host' \in {host, View}
      BY <1>0, <1>5 DEF PersistLoads, PersistSets, Send, Copied, Ordered
    <3>2. Clean(View, log) /\ View' = View
      BY <1>0, <2>2 DEF Copied, Ordered, Complete, Clean, View
    <3> QED
      BY <1>0, <2>1, <2>2, <3>1, <3>2 DEF Requesting, CleanPhases
  <2>3. CASE log' # log
    <3>1. ~turnActive /\ log' = Append(log, Plain) /\ host' = host /\ pc' = pc
      BY <1>5, <2>3 DEF PersistLoads, PersistSets, Send, PersistCommits
    <3>2. pc[Prompter] # "request"
      BY <1>0, <3>1 DEF Held, ActivePhases, LoopPhases
    <3>3. Clean(hist[Prompter], log) => Clean(hist[Prompter], log')
      BY <1>0, <3>1, CleanGrows, EntriesAre DEF Copied
    <3>4. Clean(host, log) => Clean(host, log')
      BY <1>0, <3>1, CleanGrows, EntriesAre DEF Copied
    <3> QED
      BY <1>0, <2>1, <3>1, <3>2, <3>3, <3>4 DEF Requesting
  <2> QED
    BY <2>2, <2>3
<1> QED
  BY <1>2, <1>3, <1>4, <1>5, PrompterMoves DEF Next

-----------------------------------------------------------------------------
(* What the host shows at rest.                                              *)

\* A host at rest is brought up to date by whoever made it rest, or by who persists.
LEMMA FollowsStep == ASSUME HistoryInv, Next PROVE Follows'
<1> USE DEF At, GoTo
<1> SUFFICES ASSUME Tui PROVE Following'
  BY DEF Follows, Next, Tui
<1>0. /\ Copied /\ HistoryTypes /\ Held /\ Following /\ Prompter \in Runners
  BY HistoryAssumption DEF HistoryInv, HistoryTypes, Copied, Follows
<1>1. log' = log => View' = View /\ Loads' = Loads
  BY DEF View, Loads
<1>2. ASSUME NEW r \in Runners, r = Prompter, SetsOut(r) \/ Loop(r) \/ Ends(r) PROVE Following'
  <2>1. CASE Load(r)
    <3>1. /\ log' = log
          /\ \/ pc'[r] = "loaded"
             \/ ~Loads /\ pc'[r] = "idle"
      BY <1>0, <2>1 DEF Load, HistoryTypes
    <3> QED
      BY <1>1, <1>2, <3>1 DEF Following
  <2>2. CASE Sync(r)
    <3>1. /\ log' = log /\ raced' = raced
          /\ \/ pc'[r] = "waiting"
             \/ pc[r] = "reloaded" /\ pc'[r] = "idle" /\ host' = hist[r]
      BY <1>0, <2>2 DEF Sync, SyncHost, HistoryTypes
    <3> QED
      BY <1>0, <1>1, <1>2, <3>1 DEF Following
  <2>3. CASE Reload(r)
    <3>1. /\ log' = log
          /\ \/ pc'[r] = "reloaded" /\ hist'[r] = View
             \/ ~Loads /\ pc'[r] = "idle"
      BY <1>0, <2>3 DEF Reload, HistoryTypes
    <3> QED
      BY <1>1, <1>2, <3>1 DEF Following
  <2>4. CASE \/ StaleJob(r) \/ Snapshot(r) \/ SetMessages(r) \/ BeginTurn(r) \/ RecordPrompt(r)
             \/ EndTurn(r) \/ EndCanceled(r) \/ DrainPops(r) \/ DrainEnds(r)
    <3>1. pc'[r] # "idle" /\ pc'[r] # "reloaded"
      BY <1>0, <2>4 DEF StaleJob, Snapshot, SetMessages, BeginTurn, RecordPrompt, EndTurn,
                        EndCanceled, DrainPops, DrainEnds, PersistCommits, HistoryTypes
    <3> QED
      BY <1>2, <3>1 DEF Following
  <2>5. CASE Loop(r)
    <3>1. CASE \/ Poll(r) \/ Cancel(r) \/ Refresh(r) \/ Stop(r) \/ Stops(r) \/ UsesTools(r)
               \/ CutWithCalls(r) \/ ProviderError(r)
      BY <1>0, <1>2, <3>1
         DEF Poll, Cancel, Refresh, Stop, Stops, UsesTools, CutWithCalls, ProviderError,
             Deliver, DeliveryFails, HistoryTypes, Following
    <3>2. CASE \/ StreamFails(r) \/ Overflows(r) \/ ContinueTurn(r) \/ ToolResult(r)
               \/ ToolBlocked(r) \/ ToolFails(r) \/ Warns(r)
      BY <1>0, <1>2, <3>2
         DEF StreamFails, Overflows, ContinueTurn, ToolResult, ToolBlocked, ToolFails, Warns,
             NextCall, HistoryTypes, Following
    <3> QED
      BY <2>5, <3>1, <3>2 DEF Loop
  <2>6. ~LineTurn(r) /\ ~GiveBack(r)
    BY DEF LineTurn, GiveBack
  <2> QED
    BY <1>2, <2>1, <2>2, <2>3, <2>4, <2>5, <2>6 DEF SetsOut, Ends
<1>3. ASSUME PersistLoads PROVE Following'
  <2>1. /\ UNCHANGED <<log, host, hist, raced>> /\ persist.phase = "committed"
        /\ pc'[Prompter] \in {pc[Prompter], "after"}
    BY <1>0, <1>3 DEF PersistLoads, HistoryTypes
  <2>2. Loads => persist'.by = persist.by /\ persist.by # "none"
    BY <1>0, <1>3 DEF PersistLoads, HistoryTypes, Held
  <2> QED
    BY <1>0, <1>1, <2>1, <2>2 DEF Following
<1>4. ASSUME PersistSets PROVE Following'
  <2>1. UNCHANGED <<log, hist, pc, raced>> /\ host' = View
    BY <1>0, <1>4 DEF PersistSets, Copied, Ordered
  <2> QED
    BY <1>0, <1>1, <2>1 DEF Following
<1>5. ASSUME Send PROVE Following'
  <2>1. CASE /\ PersistCommits("sender")
             /\ raced' = (raced \/ \E r \in Runners : pc[r] # "idle")
    <3>1. persist'.by = "sender" /\ UNCHANGED <<hist, pc>>
      BY <1>5, <2>1 DEF Send, PersistCommits
    <3>2. pc[Prompter] = "reloaded" => raced'
      BY <1>0, <2>1
    <3> QED
      BY <3>1, <3>2 DEF Following
  <2>2. CASE UNCHANGED <<log, persist, raced>>
    BY <1>0, <1>1, <1>5, <2>2 DEF Send, Following
  <2> QED
    BY <1>5, <2>1, <2>2 DEF Send
<1> QED
  BY <1>2, <1>3, <1>4, <1>5, PrompterMoves DEF Next

-----------------------------------------------------------------------------
(* Calls and results in the session.                                         *)

\* Nobody else is at its tools when a runner is in the loop, and stays so.
LEMMA NobodyElse ==
  ASSUME HistoryTypes, Held, NEW r \in Runners, pc[r] \in LoopPhases, NEW label,
         pc' = [pc EXCEPT ![r] = label]
  PROVE  /\ \A s \in Runners : s # r => pc[s] # "tools" /\ pc'[s] # "tools"
         /\ pc'[r] = label
BY DEF HistoryTypes, Held, LoopPhases

\* Batches, when nobody is at its tools: an entry without calls that is no result is added,
\* or nothing is, or nothing is claimed.
LEMMA BatchesOver ==
  ASSUME HistoryTypes, Batches, \A s \in Runners : pc'[s] # "tools",
         NEW e \in Entry, e.of <= Len(log), log' \in {log, Append(log, e)},
         \/ mishaps' # {}
         \/ /\ \A s \in Runners : pc[s] # "tools"
            /\ mishaps' = mishaps /\ e.of = 0 /\ e.calls = 0
  PROVE  Batches'
<1>0. log \in Seq(Entry) /\ Backward(log)
  BY DEF Batches, HistoryTypes
<1>1. Backward(log')
  BY <1>0, ResultsGrow
<1>2. ASSUME mishaps' = {} PROVE Paired(log')
  BY <1>0, <1>2, PairedGrows DEF Batches
<1> QED
  BY <1>1, <1>2 DEF Batches

\* The entries a step may add outside of the tools, in the loop.
LEMMA BatchesStay ==
  ASSUME HistoryTypes, Held, Batches, NEW r \in Runners, pc[r] \in LoopPhases, pc[r] # "tools",
         NEW label, pc' = [pc EXCEPT ![r] = label], label # "tools",
         mishaps' = mishaps,
         NEW e \in Entry, e.of = 0, e.calls = 0, log' \in {log, Append(log, e)}
  PROVE  Batches'
<1>1. \A s \in Runners : pc[s] # "tools" /\ pc'[s] # "tools"
  BY NobodyElse
<1>2. 0 <= Len(log)
  BY DEF HistoryTypes
<1> QED
  BY <1>1, <1>2, BatchesOver

\* A step that neither writes nor has to do with tools changes nothing.
LEMMA BatchesSame ==
  ASSUME Batches, UNCHANGED <<log, todo, mishaps>>,
         \A s \in Runners : pc'[s] = "tools" <=> pc[s] = "tools"
  PROVE  Batches'
BY DEF Batches

\* An answer with calls is a batch of which nothing has run.
LEMMA UsesToolsBatch ==
  ASSUME HistoryTypes, Held, Batches, NEW r \in Runners, UsesTools(r)
  PROVE  Batches'
<1>1. PICK n \in 0..MaxBatch : /\ log' = Append(log, Asks(n)) /\ todo' = n
                               /\ pc' = [pc EXCEPT ![r] = IF n = 0 THEN "end" ELSE "tools"]
  BY DEF UsesTools, Record, GoTo
<1>2. /\ Asks(n) \in Entry /\ Asks(n).of = 0 /\ Asks(n).calls = n /\ Asks(n).kind = "calls"
      /\ n \in Nat
  BY EntriesAre, HistoryAssumption
<1>3. pc[r] = "request" /\ pc[r] \in LoopPhases /\ mishaps' = mishaps
  BY DEF UsesTools, AtRequest, At, LoopPhases
<1>4. CASE n = 0
  BY <1>1, <1>2, <1>3, <1>4, BatchesStay
<1>5. CASE n > 0
  <2> DEFINE a == Len(log) + 1
  <2>1. /\ \A s \in Runners : pc[s] # "tools"
        /\ \A s \in Runners : pc'[s] = "tools" <=> s = r
    <3>1. pc' = [pc EXCEPT ![r] = "tools"]
      <4>1. n # 0
        BY <1>5
      <4> QED
        BY <1>1, <4>1
    <3> QED
      BY <1>3, <3>1, NobodyElse
  <2>2. /\ log \in Seq(Entry) /\ Backward(log) /\ Len(log) \in Nat
        /\ DOMAIN log' = 1..a /\ DOMAIN log = 1..Len(log) /\ a \in DOMAIN log'
        /\ log'[a] = Asks(n) /\ \A i \in 1..Len(log) : log'[i] = log[i]
    BY <1>1, <1>2, EntryAppended DEF HistoryTypes, Batches
  <2>3. /\ Backward(log') /\ Cardinality(Results(log', a)) = 0
        /\ \A i \in DOMAIN log : Cardinality(Results(log', i)) = Cardinality(Results(log, i))
    BY <1>1, <1>2, <2>2, ResultsGrow
  <2>4. LastCalls(log', a)
    BY <1>2, <2>2 DEF LastCalls
  <2>5. ASSUME mishaps' = {} PROVE \A i \in DOMAIN log' \ {a} : Answered(log', i)
    <3>1. Paired(log)
      BY <1>3, <2>1, <2>5 DEF Batches
    <3>2. \A i \in DOMAIN log : Answered(log, i)
      BY <3>1 DEF Paired, Answered, Results
    <3>3. DOMAIN log' \ {a} = DOMAIN log
      BY <2>2
    <3> HIDE DEF a
    <3> QED
      BY <2>2, <2>3, <3>2, <3>3 DEF Answered
  <2>6. Cardinality(Results(log', a)) + todo' = log'[a].calls
    BY <1>1, <1>2, <2>2, <2>3
  <2> HIDE DEF a
  <2> QED
    BY <1>1, <1>2, <1>5, <2>1, <2>2, <2>3, <2>4, <2>5, <2>6 DEF Batches
<1> QED
  BY <1>2, <1>4, <1>5

\* A result is one for the last batch, which then has one call less to do.
LEMMA ResultBatch ==
  ASSUME HistoryTypes, Held, Batches, NEW r \in Runners, ToolResult(r) \/ ToolBlocked(r)
  PROVE  Batches'
<1>1. pc[r] = "tools" /\ pc[r] \in LoopPhases /\ log' = Append(log, Answers(Asker))
  BY DEF ToolResult, ToolBlocked, AtTools, At, Record, LoopPhases
<1>2. PICK a \in DOMAIN log :
        /\ LastCalls(log, a)
        /\ mishaps = {} => /\ Cardinality(Results(log, a)) + todo = log[a].calls
                           /\ \A i \in DOMAIN log \ {a} : Answered(log, i)
  BY <1>1 DEF Batches
<1>3. /\ log \in Seq(Entry) /\ Backward(log) /\ Len(log) \in Nat /\ todo \in Nat /\ todo > 0
      /\ Asker = a /\ a \in 1..Len(log)
  BY <1>1, <1>2, AskerIs DEF HistoryTypes, Batches
<1> DEFINE e == Answers(a)
           n == Len(log) + 1
<1>4. e \in Entry /\ e.of = a /\ e.calls = 0 /\ e.kind = "result" /\ e.of <= Len(log)
  BY <1>3, EntriesAre
<1> HIDE DEF e
<1>5. /\ log' = Append(log, e) /\ DOMAIN log' = 1..n /\ DOMAIN log = 1..Len(log)
      /\ log'[n] = e /\ \A i \in 1..Len(log) : log'[i] = log[i] /\ log[i].calls \in Nat
  <2>1. log' = Append(log, e)
    BY <1>1, <1>3 DEF e
  <2>2. \A i \in 1..Len(log) : log[i] \in Entry
    BY <1>3, <1>4, EntryAppended
  <2>3. \A i \in 1..Len(log) : log[i].calls \in Nat
    BY <2>2 DEF Entry
  <2> QED
    BY <1>3, <1>4, <2>1, <2>3, EntryAppended
<1>6. /\ Backward(log') /\ Cardinality(Results(log', n)) = 0
      /\ \A i \in DOMAIN log :
           Cardinality(Results(log', i)) = IF i = a THEN Cardinality(Results(log, i)) + 1
                                           ELSE Cardinality(Results(log, i))
  BY <1>3, <1>4, <1>5, ResultsGrow
<1>7. \A i \in DOMAIN log' : i \in DOMAIN log \/ i = n
  BY <1>3, <1>5
<1>8. /\ a \in DOMAIN log' /\ log'[a] = log[a] /\ LastCalls(log', a) /\ n # a
      /\ Cardinality(Results(log, a)) \in Nat
  BY <1>2, <1>3, <1>4, <1>5, <1>7, ResultsFinite DEF LastCalls
<1> HIDE DEF n
<1>9. ASSUME mishaps = {} PROVE \A i \in DOMAIN log' \ {a} : Answered(log', i)
  BY <1>2, <1>4, <1>5, <1>6, <1>7, <1>9 DEF Answered
<1>10. ASSUME mishaps = {}
       PROVE  Cardinality(Results(log', a)) + (todo - 1) = log'[a].calls
  BY <1>2, <1>3, <1>5, <1>6, <1>8, <1>10
<1>11. ASSUME mishaps = {}, todo = 1 PROVE Paired(log')
  <2>0. Cardinality(Results(log', a)) \in Nat
    BY <1>3, <1>6, <1>8
  <2>1. Answered(log', a)
    BY <1>10, <1>11, <2>0 DEF Answered
  <2>2. \A i \in DOMAIN log' : Answered(log', i)
    BY <1>9, <1>11, <2>1
  <2> QED
    BY <2>2 DEF Paired, Answered, Results
<1>12. CASE ToolResult(r)
  <2>1. /\ todo' = todo - 1 /\ mishaps' = mishaps
        /\ pc' = [pc EXCEPT ![r] = IF todo = 1 THEN "warned" ELSE "tools"]
    BY <1>12 DEF ToolResult, NextCall, GoTo
  <2>2. \A s \in Runners : pc'[s] = "tools" <=> s = r /\ todo # 1
    BY <1>1, <2>1, NobodyElse
  <2>4. CASE todo = 1
    BY <1>6, <1>11, <2>1, <2>2, <2>4 DEF Batches
  <2>5. CASE todo # 1
    <3>1. todo' > 0
      BY <1>3, <2>1, <2>5
    <3> QED
      BY <1>6, <1>8, <1>9, <1>10, <2>1, <2>2, <2>5, <3>1 DEF Batches
  <2> QED
    BY <2>4, <2>5
<1>13. CASE ToolBlocked(r)
  <2>1. /\ mishaps' = IF todo > 1 THEN mishaps \cup {"block"} ELSE mishaps
        /\ pc' = [pc EXCEPT ![r] = "end"]
    BY <1>13 DEF ToolBlocked, GoTo
  <2>2. \A s \in Runners : pc'[s] # "tools"
    BY <1>1, <2>1, NobodyElse
  <2>3. todo > 1 => mishaps' = mishaps \cup {"block"}
    BY <2>1
  <2>4. ~(todo > 1) => mishaps' = mishaps /\ todo = 1
    BY <1>3, <2>1
  <2>5. mishaps \cup {"block"} # {}
    OBVIOUS
  <2>6. mishaps' = {} => mishaps = {} /\ todo = 1
    BY <2>3, <2>4, <2>5
  <2> QED
    BY <1>6, <1>11, <2>2, <2>6 DEF Batches
<1> QED
  BY <1>12, <1>13

\* So every step keeps calls and results.
LEMMA BatchesStep == ASSUME HistoryInv, Next PROVE Batches'
<1> USE DEF At, GoTo
<1>0. HistoryTypes /\ Held /\ Batches
  BY DEF HistoryInv
<1>e. Plain \in Entry /\ Failure \in Entry /\ Plain.of = 0 /\ Plain.calls = 0
      /\ Failure.of = 0 /\ Failure.calls = 0
  BY EntriesAre
<1>1. ASSUME NEW r \in Runners, NEW label, pc[r] # "tools", label # "tools",
             pc' = [pc EXCEPT ![r] = label] \/ pc' = pc, UNCHANGED <<log, todo, mishaps>>
      PROVE  Batches'
  <2>1. \A s \in Runners : pc'[s] = "tools" <=> pc[s] = "tools"
    BY <1>0, <1>1 DEF HistoryTypes
  <2> QED
    BY <1>0, <1>1, <2>1, BatchesSame
<1>2. ASSUME NEW r \in Runners, pc[r] \in LoopPhases, pc[r] # "tools",
             NEW label, pc' = [pc EXCEPT ![r] = label], label # "tools", mishaps' = mishaps,
             \/ log' = log
             \/ log' = Append(log, Plain)
             \/ log' = Append(log, Failure)
      PROVE  Batches'
  BY <1>0, <1>e, <1>2, BatchesStay
<1>3. ASSUME NEW r \in Runners, SetsOut(r) PROVE Batches'
  <2>1. CASE RecordPrompt(r)
    BY <1>2, <2>1 DEF RecordPrompt, Record, tools, LoopPhases
  <2>2. CASE Load(r)
    BY <1>1, <2>2 DEF Load, tools
  <2>3. CASE Sync(r) \/ LineTurn(r) \/ StaleJob(r) \/ Snapshot(r)
    BY <1>1, <2>3 DEF Sync, LineTurn, StaleJob, Snapshot, tools
  <2>4. CASE SetMessages(r) \/ BeginTurn(r)
    BY <1>1, <2>4 DEF SetMessages, BeginTurn, tools
  <2> QED
    BY <1>3, <2>1, <2>2, <2>3, <2>4 DEF SetsOut
<1>4. ASSUME NEW r \in Runners, Loop(r) PROVE Batches'
  <2> USE DEF LoopPhases
  <2>1. CASE Poll(r) \/ Stop(r)
    <3>1. mishaps' = mishaps /\ pc[r] \in {"poll", "stop"}
      BY <2>1 DEF Poll, Stop, tools
    <3>2. \/ \E label \in {"poll", "refresh", "stop", "end"} : Deliver(r, label)
          \/ DeliveryFails(r)
          \/ log' = log /\ \E label \in {"refresh", "end"} : pc' = [pc EXCEPT ![r] = label]
      BY <2>1 DEF Poll, Stop
    <3>3. ASSUME NEW label \in {"poll", "refresh", "stop", "end"}, Deliver(r, label)
          PROVE  /\ log' = Append(log, Plain)
                 /\ \E k \in {label, "end"} : pc' = [pc EXCEPT ![r] = k]
      BY <3>3 DEF Deliver
    <3>4. DeliveryFails(r) => log' = log /\ pc' = [pc EXCEPT ![r] = "end"]
      BY DEF DeliveryFails
    <3>5. /\ log' \in {log, Append(log, Plain)}
          /\ \E label \in {"poll", "refresh", "stop", "end"} : pc' = [pc EXCEPT ![r] = label]
      BY <3>2, <3>3, <3>4
    <3> QED
      BY <1>2, <3>1, <3>5
  <2>2. CASE Cancel(r) \/ StreamFails(r)
    BY <1>2, <2>2 DEF Cancel, StreamFails, AtRequest, tools
  <2>3. CASE Refresh(r) \/ ContinueTurn(r)
    <3>1. mishaps' = mishaps /\ pc[r] \in {"refresh", "retry"} /\ log' = log
      BY <2>3 DEF Refresh, ContinueTurn, tools
    <3>2. \E label \in {"request", "end", "poll"} : pc' = [pc EXCEPT ![r] = label]
      BY <2>3 DEF Refresh, ContinueTurn
    <3> QED
      BY <1>2, <3>1, <3>2
  <2>4. CASE Stops(r) \/ ProviderError(r) \/ Overflows(r) \/ Warns(r)
    <3>1. mishaps' = mishaps /\ pc[r] \in {"request", "warned"}
      BY <2>4 DEF Stops, ProviderError, Overflows, Warns, AtRequest, tools
    <3>2. log' \in {log, Append(log, Plain), Append(log, Failure)}
      BY <2>4 DEF Stops, ProviderError, Overflows, Warns, Record
    <3>3. \E label \in {"stop", "end", "retry", "poll"} : pc' = [pc EXCEPT ![r] = label]
      BY <2>4 DEF Stops, ProviderError, Overflows, Warns
    <3> QED
      BY <1>2, <3>1, <3>2, <3>3
  <2>5. CASE UsesTools(r)
    BY <1>0, <2>5, UsesToolsBatch
  <2>6. CASE CutWithCalls(r)
    <3>1. PICK n \in 1..MaxBatch : log' = Append(log, Asks(n))
      BY <2>6 DEF CutWithCalls, Record
    <3>2. Asks(n) \in Entry /\ Asks(n).of = 0 /\ mishaps' # {}
      BY <2>6, EntriesAre, HistoryAssumption DEF CutWithCalls
    <3>3. \A s \in Runners : pc'[s] # "tools"
      BY <1>0, <2>6, NobodyElse DEF CutWithCalls, AtRequest
    <3>4. 0 <= Len(log)
      BY <1>0 DEF HistoryTypes
    <3> QED
      BY <1>0, <3>1, <3>2, <3>3, <3>4, BatchesOver
  <2>7. CASE ToolResult(r) \/ ToolBlocked(r)
    BY <1>0, <2>7, ResultBatch
  <2>8. CASE ToolFails(r)
    <3>1. \A s \in Runners : pc'[s] # "tools"
      BY <1>0, <2>8, NobodyElse DEF ToolFails, AtTools
    <3>2. mishaps' # {} /\ log' = log /\ 0 <= Len(log)
      BY <1>0, <2>8 DEF ToolFails, HistoryTypes
    <3> QED
      BY <1>0, <1>e, <3>1, <3>2, BatchesOver
  <2> QED
    BY <1>4, <2>1, <2>2, <2>3, <2>4, <2>5, <2>6, <2>7, <2>8 DEF Loop
<1>5. ASSUME NEW r \in Runners, Ends(r) PROVE Batches'
  <2>1. CASE DrainPops(r)
    <3>1. /\ pc[r] = "drain" /\ mishaps' = mishaps /\ log' \in {log, Append(log, Plain)}
          /\ pc' = pc \/ pc' = [pc EXCEPT ![r] = "after"]
      BY <2>1 DEF DrainPops, PersistCommits, tools
    <3>2. pc = [pc EXCEPT ![r] = "drain"]
      BY <1>0, <3>1 DEF HistoryTypes
    <3> QED
      BY <1>2, <3>1, <3>2 DEF LoopPhases
  <2>2. CASE EndTurn(r) \/ EndCanceled(r) \/ DrainEnds(r)
    BY <1>1, <2>2 DEF EndTurn, EndCanceled, DrainEnds, tools
  <2>3. CASE GiveBack(r) \/ Reload(r)
    <3>1. pc[r] = "after" /\ UNCHANGED <<log, todo, mishaps>>
      BY <2>3 DEF GiveBack, Reload, tools
    <3>2. \E label \in {"exited", "idle", "reloaded"} : pc' = [pc EXCEPT ![r] = label]
      BY <2>3 DEF GiveBack, Reload
    <3> QED
      BY <1>1, <3>1, <3>2
  <2> QED
    BY <1>5, <2>1, <2>2, <2>3 DEF Ends
<1>6. ASSUME PersistLoads \/ PersistSets PROVE Batches'
  <2>1. UNCHANGED <<log, todo, mishaps>>
    BY <1>6 DEF PersistLoads, PersistSets, tools
  <2>2. \A s \in Runners : pc'[s] = pc[s] \/ (pc[s] = "drain" /\ pc'[s] = "after")
    BY <1>0, <1>6 DEF PersistLoads, PersistSets, HistoryTypes, Held
  <2> QED
    BY <1>0, <2>1, <2>2, BatchesSame
<1>7. ASSUME Send PROVE Batches'
  <2>1. CASE ~turnActive /\ PersistCommits("sender")
    <3>1. \A s \in Runners : pc[s] # "tools" /\ pc'[s] # "tools"
      BY <1>0, <1>7, <2>1 DEF Send, Held, ActivePhases, LoopPhases
    <3>2. log' = Append(log, Plain) /\ mishaps' = mishaps /\ 0 <= Len(log)
      BY <1>0, <1>7, <2>1 DEF Send, PersistCommits, tools, HistoryTypes
    <3> QED
      BY <1>0, <1>e, <3>1, <3>2, BatchesOver
  <2>2. CASE log' = log
    BY <1>0, <1>7, <2>2, BatchesSame DEF Send, tools
  <2> QED
    BY <1>7, <2>1, <2>2 DEF Send
<1> QED
  BY <1>3, <1>4, <1>5, <1>6, <1>7 DEF Next

-----------------------------------------------------------------------------
(* The theorems.                                                             *)

\* The invariant holds of an empty session.
LEMMA HistoryInit == ASSUME Init PROVE HistoryInv
<1> USE HistoryAssumption DEF Init
<1>0. log = <<>> /\ log \in Seq(Entry) /\ DOMAIN log = {} /\ Messages(log) = {} /\ Len(log) = 0
  BY DEF Messages
<1>1. HistoryTypes
  <2>1. pc \in [Runners -> Labels] /\ failed \in [Runners -> BOOLEAN]
    BY DEF Labels
  <2>2. checked \in [Runners -> BOOLEAN]
    BY DEF Tui
  <2>3. /\ driver \in {"tui", "line"} /\ host \in Seq(Nat)
        /\ hist \in [Runners -> Seq(Nat)]
        /\ persist \in [by : Runners \cup {"none", "sender"},
                        phase : {"free", "committed", "loaded"}, view : Seq(Nat)]
    BY NothingInOrder
  <2> QED
    BY <1>0, <2>1, <2>2, <2>3 DEF HistoryTypes
<1>2. Held
  BY DEF Held, ActivePhases, LoopPhases, Tui
<1>3. View = <<>>
  <2>1. <<>> \in Seq(Nat) /\ Increasing(<<>>)
    BY NothingInOrder DEF InOrder
  <2>2. {<<>>[k] : k \in DOMAIN <<>>} = Messages(log)
    BY <1>0
  <2> QED
    BY <1>0, <2>1, <2>2, ProjectionIs DEF View
<1>4. Ordered
  BY <1>0, <1>3, NothingInOrder DEF Ordered, View, Complete
<1>5. Requests /\ Follows
  BY <1>3 DEF Requests, Follows, Requesting, Following, CleanPhases
<1>6. Batches
  BY <1>0 DEF Batches, Backward, Paired
<1> QED
  BY <1>1, <1>2, <1>4, <1>5, <1>6 DEF HistoryInv

\* Every step keeps it.
LEMMA HistoryStep == ASSUME HistoryInv, [Next]_vars PROVE HistoryInv'
<1>1. CASE Next
  <2>1. Held'
    <3>1. HistoryTypes /\ Held /\ driver' = driver
      BY <1>1 DEF HistoryInv, Next
    <3> QED
      BY <1>1, <3>1, LoopHeld, SetsOutHeld, PersistHeld DEF Next
  <2> QED
    BY <1>1, <2>1, CopiedStep, TypesStep, RequestsStep, FollowsStep, BatchesStep
       DEF HistoryInv, Copied
<1>2. CASE UNCHANGED vars
  <2>1. HistoryTypes' /\ Held'
    BY <1>2 DEF vars, HistoryInv, HistoryTypes, Held, Tui
  <2>2. Ordered' /\ Requests' /\ Follows'
    BY <1>2 DEF vars, HistoryInv, Ordered, Requests, Requesting, Follows, Following, Tui, View,
                Loads
  <2>3. Batches'
    BY <1>2 DEF vars, HistoryInv, Batches
  <2> QED
    BY <2>1, <2>2, <2>3 DEF HistoryInv
<1> QED
  BY <1>1, <1>2

\* The inductive invariant holds in every behaviour.
THEOREM HistoryInvariant == Spec => []HistoryInv
<1>1. Init => HistoryInv
  BY HistoryInit
<1>2. HistoryInv /\ [Next]_vars => HistoryInv'
  BY HistoryStep
<1> QED
  BY <1>1, <1>2, PTL DEF Spec

\* No copy of a conversation holds a message twice, out of order, or one that the session
\* does not hold, in both modes and for any number of jobs, deliveries and failures
\* (internal/agent/loop.go, internal/cli/host_mailbox.go, session_projection.go).
THEOREM HistoriesInOrderCorrect == Spec => []HistoriesInOrder
<1>1. HistoryInv => HistoriesInOrder
  BY DEF HistoryInv, Ordered, InOrder, HistoriesInOrder
<1> QED
  BY <1>1, HistoryInvariant, PTL

\* In the TUI a request sends exactly the messages of the session without the errors: the
\* number of ids that refreshProjectedEntryIDs compares tells any difference there can be
\* (internal/cli/chat.go, tui_bridge.go).
THEOREM RequestMatchesSessionCorrect == Spec => []RequestMatchesSession
<1>1. HistoryInv => RequestMatchesSession
  <2> SUFFICES ASSUME HistoryInv, Tui, NEW r \in Runners, At(r, "request")
               PROVE  hist[r] = View
    BY DEF RequestMatchesSession, RequestsAlign
  <2>1. r = Prompter
    BY DEF HistoryInv, Held, At
  <2> QED
    BY <2>1 DEF HistoryInv, Requests, Requesting, At
<1> QED
  BY <1>1, HistoryInvariant, PTL

\* When the TUI is at rest the host shows the session, however the last turn ended, unless a
\* delivery came in while it was ending (internal/cli/tui_bridge.go, host_runtime.go).
THEOREM HostFollowsSessionCorrect == Spec => []HostFollowsSession
<1>1. HistoryInv => HostFollowsSession
  BY HistoryAssumption DEF HistoryInv, Follows, Following, HostFollowsSession, At
<1> QED
  BY <1>1, HistoryInvariant, PTL

\* Outside of a running batch every call has its result, unless the turn was cut, blocked or
\* failed within one (internal/agent/loop.go, validateModelHistoryTools).
THEOREM PairsStayTogetherCorrect == Spec => []PairsStayTogether
<1>1. HistoryInv => PairsStayTogether
  BY DEF HistoryInv, Batches, PairsStayTogether, At
<1> QED
  BY <1>1, HistoryInvariant, PTL
=================================================================================
