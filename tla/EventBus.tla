------------------------------- MODULE EventBus -------------------------------
(***************************************************************************)
(* The bus of custom events between extensions (internal/extensions,       *)
(* events.go).  Any goroutine emits, handlers included.  The one that      *)
(* finds no drain under way drains the queue itself: it calls the          *)
(* subscribers of one event after the other, outside the lock.  Close      *)
(* refuses what comes later and drops what is queued; Wait joins the       *)
(* drain.  One event name stands for all.                                  *)
(***************************************************************************)
EXTENDS Naturals, Sequences, FiniteSets

CONSTANTS
  Emits,      \* the calls of Emit, each by a goroutine of its own or a handler
  Subs,       \* the subscriptions that may be made
  QueueLimit  \* customEventQueueLimit

VARIABLES
  subs,       \* subscriptions in the order they were made
  queue,      \* accepted events
  draining, nested, closed,
  drainDone,  \* the emit whose drain the channel belongs to, or "none"
  done,       \* the drains whose channel is closed
  drain,      \* of each drain: where it stands, its event, the subscribers left
  fate,       \* of each emit: "none", "queued", "refused", "taken", "dropped"
  due,        \* of each event taken: the subscribers it is for
  calls,      \* the calls of handlers, in order: event and subscriber
  subscribed, \* subscriptions made so far
  waiter      \* Wait after Close: "none", the drain it joins, or "joined"

vars == <<subs, queue, draining, nested, closed, drainDone, done, drain, fate, due, calls,
          subscribed, waiter>>

Stopped == [at |-> "none", event |-> "none", left |-> <<>>]
Running == {e \in Emits : drain[e].at = "handler"}

Subscribe(s) ==
  /\ ~closed /\ s \notin subscribed
  /\ subscribed' = subscribed \union {s} /\ subs' = Append(subs, s)
  /\ UNCHANGED <<queue, draining, nested, closed, drainDone, done, drain, fate, due, calls,
                 waiter>>

\* The unsubscribe function of a subscription.
Remove(s) ==
  /\ \E i \in DOMAIN subs :
       subs[i] = s /\ subs' = SubSeq(subs, 1, i - 1) \o SubSeq(subs, i + 1, Len(subs))
  /\ UNCHANGED <<queue, draining, nested, closed, drainDone, done, drain, fate, due, calls,
                 subscribed, waiter>>

\* MUTANT of Emit: each emit drains the queue itself.
MutantEmit(e) ==
  /\ fate[e] = "none" /\ ~closed
  /\ fate' = [fate EXCEPT ![e] = "queued"]
  /\ queue' = Append(queue, e)
  /\ draining' = TRUE /\ drainDone' = e /\ drain' = [drain EXCEPT ![e].at = "next"]
  /\ UNCHANGED <<subs, nested, closed, done, due, calls, subscribed, waiter>>

Emit(e) ==
  /\ fate[e] = "none"
  /\ IF closed \/ (draining /\ nested >= QueueLimit)
       THEN /\ fate' = [fate EXCEPT ![e] = "refused"]
            /\ UNCHANGED <<queue, draining, nested, drainDone, drain>>
       ELSE /\ fate' = [fate EXCEPT ![e] = "queued"]
            /\ queue' = Append(queue, e)
            /\ IF draining
                 THEN nested' = nested + 1 /\ UNCHANGED <<draining, drainDone, drain>>
                 ELSE /\ draining' = TRUE /\ nested' = 0 /\ drainDone' = e
                      /\ drain' = [drain EXCEPT ![e].at = "next"]
  /\ UNCHANGED <<subs, closed, done, due, calls, subscribed, waiter>>

\* drain: the next event is taken with its subscribers, or the drain ends.
Take(e) ==
  /\ drain[e].at = "next"
  /\ IF closed \/ queue = <<>>
       THEN /\ queue' = <<>> /\ draining' = FALSE /\ nested' = 0
            /\ done' = done \union {drainDone}
            /\ drain' = [drain EXCEPT ![e] = Stopped]
            /\ UNCHANGED <<fate, due>>
       ELSE /\ queue' = Tail(queue)
            /\ drain' = [drain EXCEPT ![e] = [at |-> "check", event |-> Head(queue),
                                              left |-> subs]]
            /\ fate' = [fate EXCEPT ![Head(queue)] = "taken"]
            /\ due' = [due EXCEPT ![Head(queue)] = subs]
            /\ UNCHANGED <<draining, nested, done>>
  /\ UNCHANGED <<subs, closed, drainDone, calls, subscribed, waiter>>

\* The bus is looked at once more before each handler.
Check(e) ==
  /\ drain[e].at = "check"
  /\ IF closed \/ drain[e].left = <<>>
       THEN drain' = [drain EXCEPT ![e].at = "next"] /\ UNCHANGED calls
       ELSE /\ drain' = [drain EXCEPT ![e].at = "handler", ![e].left = Tail(@)]
            /\ calls' = Append(calls, <<drain[e].event, Head(drain[e].left)>>)
  /\ UNCHANGED <<subs, queue, draining, nested, closed, drainDone, done, fate, due,
                 subscribed, waiter>>

\* A handler returns, fails or panics: the drain goes on.
HandlerEnds(e) ==
  /\ drain[e].at = "handler"
  /\ drain' = [drain EXCEPT ![e].at = "check"]
  /\ UNCHANGED <<subs, queue, draining, nested, closed, drainDone, done, fate, due, calls,
                 subscribed, waiter>>

Close ==
  /\ ~closed /\ closed' = TRUE
  /\ queue' = <<>> /\ subs' = <<>>
  /\ fate' = [e \in Emits |-> IF fate[e] = "queued" THEN "dropped" ELSE fate[e]]
  /\ UNCHANGED <<draining, nested, drainDone, done, drain, due, calls, subscribed, waiter>>

\* Wait, as the teardown calls it after Close.
Wait ==
  /\ closed
  /\ \/ waiter = "none" /\ waiter' = IF drainDone = "none" THEN "joined" ELSE drainDone
     \/ waiter \in done /\ waiter' = "joined"
  /\ UNCHANGED <<subs, queue, draining, nested, closed, drainDone, done, drain, fate, due,
                 calls, subscribed>>

Init ==
  /\ subs = <<>> /\ queue = <<>> /\ draining = FALSE /\ nested = 0 /\ closed = FALSE
  /\ drainDone = "none" /\ done = {} /\ drain = [e \in Emits |-> Stopped]
  /\ fate = [e \in Emits |-> "none"] /\ due = [e \in Emits |-> <<>>] /\ calls = <<>>
  /\ subscribed = {} /\ waiter = "none"

Next ==
  \/ \E s \in Subs : Subscribe(s) \/ Remove(s)
  \/ \E e \in Emits : Emit(e) \/ Take(e) \/ Check(e) \/ HandlerEnds(e)
  \/ Close \/ Wait

Spec == Init /\ [][Next]_vars
-----------------------------------------------------------------------------
\* How many of the first k calls deliver event e.
Made(e, k) == Cardinality({j \in 1..k : calls[j][1] = e})

\* The rules of docs/sdk-runtime.md.  Handlers run one at a time.  An event goes
\* to its subscribers in the order they registered, to each once, and all its
\* calls come before those of the next; it misses a subscriber only while it is
\* being delivered, or because the bus was closed.
CallsInOrder ==
  /\ Cardinality(Running) <= 1
  /\ \A k \in DOMAIN calls :
       LET e == calls[k][1]
       IN Made(e, k) <= Len(due[e]) /\ calls[k][2] = due[e][Made(e, k)]
  /\ \A e \in Emits :
       fate[e] = "taken" /\ Made(e, Len(calls)) < Len(due[e]) =>
         closed \/ \E d \in Emits : drain[d].event = e /\ drain[d].at # "next"
  /\ \A i, j \in DOMAIN calls :
       calls[i][1] = calls[j][1] => \A k \in i..j : calls[k][1] = calls[i][1]

\* No accepted event is stranded: while something is queued, a drain is under way
\* that will look at the queue again.
NothingStranded ==
  \A e \in Emits :
    fate[e] = "queued" =>
      /\ \E i \in DOMAIN queue : queue[i] = e
      /\ draining /\ \E d \in Emits : drain[d].at \in {"next", "check", "handler"}

\* Once Wait has joined a closed bus, no handler runs any more.
JoinedIsQuiet == waiter = "joined" => Running = {} /\ \A e \in Emits : drain[e].at # "check"

\* The bus delivers what it accepts, in order, and is quiet once it was joined.
EventsDelivered == CallsInOrder /\ NothingStranded /\ JoinedIsQuiet
===============================================================================
