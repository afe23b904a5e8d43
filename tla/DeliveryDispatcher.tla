-------------------------- MODULE DeliveryDispatcher --------------------------
(***************************************************************************)
(* The queue of replies between the actors of the gateway and its          *)
(* transports (internal/gateway/delivery.go).  Send never waits: when the  *)
(* buffered channel is full it takes the oldest delivery out and tries     *)
(* once more.  Senders hold the lock shared, so several may be in Send at  *)
(* once; the dispatcher's goroutine needs no lock.  Stop closes the        *)
(* channel and lets the goroutine drain it.                                *)
(***************************************************************************)
EXTENDS Naturals, Sequences, FiniteSets

CONSTANTS
  Senders,   \* the actors
  MaxSends,  \* deliveries of each
  Buffer     \* capacity of the channel

VARIABLES
  ch,         \* the channel; a delivery is a sender and a number
  at,         \* per sender: "idle" or the select of Send it stands before
  sending,    \* per sender: the number of its latest delivery
  stopped,    \* set by Stop, with the channel closed
  dropped, delivered,   \* the counters
  handled,    \* what the handler was given, in order
  late        \* deliveries sent after Stop

vars == <<ch, at, sending, stopped, dropped, delivered, handled, late>>

Delivery(s) == [by |-> s, no |-> sending[s]]

TypeOK ==
  /\ ch \in Seq([by : Senders, no : 1 .. MaxSends]) /\ Len(ch) <= Buffer
  /\ at \in [Senders -> {"idle", "first", "oldest", "second"}]
  /\ sending \in [Senders -> 0 .. MaxSends]
  /\ stopped \in BOOLEAN
  /\ dropped \in Nat /\ delivered \in Nat /\ late \in Nat
  /\ handled \in Seq([by : Senders, no : 1 .. MaxSends])

Init ==
  /\ ch = <<>> /\ at = [s \in Senders |-> "idle"] /\ sending = [s \in Senders |-> 0]
  /\ stopped = FALSE /\ dropped = 0 /\ delivered = 0 /\ handled = <<>> /\ late = 0

\* RLock and the test of `stopped`.
Send(s) ==
  /\ at[s] = "idle" /\ sending[s] < MaxSends
  /\ sending' = [sending EXCEPT ![s] = @ + 1]
  /\ IF stopped THEN late' = late + 1 /\ UNCHANGED at
     ELSE at' = [at EXCEPT ![s] = "first"] /\ UNCHANGED late
  /\ UNCHANGED <<ch, stopped, dropped, delivered, handled>>

Put(s) == ch' = Append(ch, Delivery(s)) /\ at' = [at EXCEPT ![s] = "idle"]

First(s) ==
  /\ at[s] = "first"
  /\ IF Len(ch) < Buffer THEN Put(s)
     ELSE at' = [at EXCEPT ![s] = "oldest"] /\ UNCHANGED ch
  /\ UNCHANGED <<sending, stopped, dropped, delivered, handled, late>>

Oldest(s) ==
  /\ at[s] = "oldest"
  /\ at' = [at EXCEPT ![s] = "second"]
  /\ IF ch # <<>> THEN ch' = Tail(ch) /\ dropped' = dropped + 1
     ELSE UNCHANGED <<ch, dropped>>
  /\ UNCHANGED <<sending, stopped, delivered, handled, late>>

\* Another sender may have taken the room: then the new delivery is the one that is dropped.
MutantSecond(s) ==   \* MUTANT of Second: the delivery that finds no room is not counted
  /\ at[s] = "second"
  /\ IF Len(ch) < Buffer THEN Put(s)
     ELSE at' = [at EXCEPT ![s] = "idle"] /\ UNCHANGED ch
  /\ UNCHANGED <<dropped, sending, stopped, delivered, handled, late>>
Second(s) ==
  /\ at[s] = "second"
  /\ IF Len(ch) < Buffer THEN Put(s) /\ UNCHANGED dropped
     ELSE at' = [at EXCEPT ![s] = "idle"] /\ dropped' = dropped + 1 /\ UNCHANGED ch
  /\ UNCHANGED <<sending, stopped, delivered, handled, late>>

\* The goroutine: it goes on over a closed channel until it is empty.
Run ==
  /\ ch # <<>>
  /\ ch' = Tail(ch) /\ delivered' = delivered + 1 /\ handled' = Append(handled, Head(ch))
  /\ UNCHANGED <<at, sending, stopped, dropped, late>>

\* The lock excludes every sender.
Stop ==
  /\ ~stopped /\ \A s \in Senders : at[s] = "idle"
  /\ stopped' = TRUE
  /\ UNCHANGED <<ch, at, sending, dropped, delivered, handled, late>>

Next ==
  \/ \E s \in Senders : Send(s) \/ First(s) \/ Oldest(s) \/ Second(s)
  \/ Run \/ Stop

Spec == Init /\ [][Next]_vars

-----------------------------------------------------------------------------
\* All that senders were asked to send so far.
Sent == {d \in [by : Senders, no : 1 .. MaxSends] : d.no <= sending[d.by]}

\* Whatever senders, the goroutine and Stop do to each other, every delivery is with the
\* handler, in the channel, counted as dropped or came after Stop; the handler gets those of
\* one actor once and in their order.
Accounted ==
  /\ Cardinality(Sent) =
       delivered + Len(ch) + dropped + late
         + Cardinality({s \in Senders : at[s] # "idle"})
  /\ LET all == handled \o ch IN
       \A i, j \in 1 .. Len(all) :
         i < j /\ all[i].by = all[j].by => all[i].no < all[j].no

\* Nothing is sent on the channel once it is closed: that would panic.
NoSendAfterClose == stopped => \A s \in Senders : at[s] = "idle"
===============================================================================
