------------------------------ MODULE WebEvents ------------------------------
(***************************************************************************)
(* The event stream of the web transport (internal/gateway/web/events.go)  *)
(* with the page that reads it (app.js).  Every reply is appended to a     *)
(* ring and, after the ring's lock is released, pushed to the channels of  *)
(* the open streams; a stream subscribes first, reads the ring second and  *)
(* then writes what arrives on its channel.  The browser opens a stream    *)
(* that broke again with the same URL; a login of the page opens one from  *)
(* the last number the page has seen.  A page that has seen nothing sends  *)
(* since=-1, which the server refuses; another client leaves it out.  One  *)
(* client is modelled, and one appender, the dispatcher's goroutine.  What *)
(* is written reaches the client unless the stream breaks.                 *)
(***************************************************************************)
EXTENDS Integers, Sequences, FiniteSets, SequencesExt

CONSTANTS
  Me, Other,   \* the user of the page and the rest
  RingSize, SubBuffer,   \* eventRingSize and subscriberBuffer
  MaxEvents, MaxLives    \* replies of a process, processes

VARIABLES
  life,
  seq, buf,   \* the ring: the number of the last event, the last events
  keys,       \* the user of every event of this process
  push,       \* the event append is about to push, and whether this stream is among its targets
  stream,     \* the state of the handler: "off" when no stream is open
  since,      \* its parameter, -1 for none
  chan,       \* its channel
  snap,       \* its view of the ring
  url,        \* the parameter in the client's URL
  last,       \* state.since of the page
  shown,      \* the events written to the page by this stream, in order
  gap,        \* the page was told of a gap
  overflow    \* events that found the channel full

vars == <<life, seq, buf, keys, push, stream, since, chan, snap, url, last, shown, gap, overflow>>
ringVars == <<seq, buf, keys>>
readVars == <<shown, gap, overflow>>

NoParam == -2   \* a URL without the parameter
Nothing == -1   \* state.since of a page that has seen nothing
NoPush == [seq |-> 0, target |-> FALSE]
NoSnap == [oldest |-> 0, latest |-> 0, events |-> <<>>]
Subscribed == stream \in {"subscribed", "hello", "gap", "replay", "live"}
Mine(q) == keys[q] = Me

TypeOK ==
  /\ life \in 1 .. MaxLives
  /\ seq \in 0 .. MaxEvents /\ buf \in Seq(1 .. MaxEvents) /\ keys \in Seq({Me, Other})
  /\ push \in [seq : 0 .. MaxEvents, target : BOOLEAN]
  /\ stream \in {"off", "opened", "subscribed", "hello", "gap", "replay", "live"}
  /\ url \in NoParam .. MaxEvents /\ {since, last} \subseteq -1 .. MaxEvents
  /\ chan \in Seq(1 .. MaxEvents) /\ Len(chan) <= SubBuffer
  /\ snap \in [oldest : 0 .. MaxEvents, latest : 0 .. MaxEvents, events : Seq(1 .. MaxEvents)]
  /\ shown \in Seq(1 .. MaxEvents) /\ gap \in BOOLEAN /\ overflow \subseteq 1 .. MaxEvents

Init ==
  /\ life = 1 /\ seq = 0 /\ buf = <<>> /\ keys = <<>> /\ push = NoPush
  /\ stream = "off" /\ since = -1 /\ chan = <<>> /\ snap = NoSnap
  /\ url \in {NoParam, Nothing} /\ last = Nothing
  /\ shown = <<>> /\ gap = FALSE /\ overflow = {}

\* Server.Deliver and the locked half of eventRing.append.
Deliver(user) ==
  /\ push = NoPush /\ seq < MaxEvents
  /\ seq' = seq + 1 /\ keys' = Append(keys, user)
  /\ buf' = Append(IF Len(buf) = RingSize THEN Tail(buf) ELSE buf, seq')
  /\ push' = [seq |-> seq', target |-> Subscribed]
  /\ UNCHANGED <<life, stream, since, chan, snap, url, last, readVars>>

\* The other half: a full channel is passed over.
Push ==
  /\ push # NoPush
  /\ push' = NoPush
  /\ IF ~push.target THEN UNCHANGED <<chan, overflow>>
     ELSE IF Len(chan) < SubBuffer THEN chan' = Append(chan, push.seq) /\ UNCHANGED overflow
     ELSE overflow' = overflow \cup {push.seq} /\ UNCHANGED chan
  /\ UNCHANGED <<life, ringVars, stream, since, snap, url, last, shown, gap>>

\* handleEvents up to the headers.  It answers 400 to a negative number, and a browser does not
\* ask again after that.
Open ==
  /\ stream = "off" /\ url # Nothing
  /\ stream' = "opened" /\ since' = IF url = NoParam THEN -1 ELSE url
  /\ snap' = NoSnap
  /\ shown' = <<>> /\ gap' = FALSE /\ overflow' = {}
  /\ UNCHANGED <<life, ringVars, push, chan, url, last>>

\* First the channel, then the ring: what is appended in between comes twice.
MutantSubscribe ==   \* MUTANT of Subscribe: the ring is read before the channel is there
  /\ stream = "opened"
  /\ \E seen \in 0 .. seq :
       /\ snap' = [oldest |-> IF buf = <<>> THEN 0 ELSE buf[1], latest |-> seen,
                   events |-> SelectSeq(buf, LAMBDA q : q > since /\ q <= seen)]
       /\ chan' = <<>> /\ stream' = "hello"
  /\ UNCHANGED <<life, ringVars, push, since, url, last, readVars>>
Subscribe ==
  /\ stream = "opened"
  /\ stream' = "subscribed" /\ chan' = <<>>
  /\ UNCHANGED <<life, ringVars, push, since, snap, url, last, readVars>>

\* The events of the ring after `since`: numbers ascend, so they are its last ones.
Newer ==
  LET old == CHOOSE k \in 0 .. Len(buf) : \A i \in 1 .. Len(buf) : buf[i] > since <=> i > k
  IN SubSeq(buf, old + 1, Len(buf))

Snapshot ==
  /\ stream = "subscribed"
  /\ stream' = "hello"
  /\ snap' = IF buf = <<>> THEN [oldest |-> 0, latest |-> seq, events |-> <<>>]
             ELSE [oldest |-> buf[1], latest |-> seq, events |-> Newer]
  /\ UNCHANGED <<life, ringVars, push, since, chan, url, last, readVars>>

\* The page moves its number to the latest before any of the events arrives.
Hello ==
  /\ stream = "hello"
  /\ last' = snap.latest
  /\ stream' = IF since >= 0 /\ snap.oldest > 0 /\ since < snap.oldest - 1
               THEN "gap" ELSE "replay"
  /\ UNCHANGED <<life, ringVars, push, since, chan, snap, url, readVars>>

Gap ==
  /\ stream = "gap"
  /\ stream' = "live" /\ last' = 0 /\ gap' = TRUE
  /\ UNCHANGED <<life, ringVars, push, since, chan, snap, url, shown, overflow>>

Show(q) == IF Mine(q) THEN shown' = Append(shown, q) /\ last' = q ELSE UNCHANGED <<shown, last>>

Replay ==
  /\ stream = "replay"
  /\ IF snap.events = <<>> THEN stream' = "live" /\ UNCHANGED <<snap, shown, last>>
     ELSE /\ Show(Head(snap.events))
          /\ snap' = [snap EXCEPT !.events = Tail(@)]
          /\ UNCHANGED stream
  /\ UNCHANGED <<life, ringVars, push, since, chan, url, gap, overflow>>

Receive ==
  /\ stream = "live" /\ chan # <<>>
  /\ Show(Head(chan)) /\ chan' = Tail(chan)
  /\ UNCHANGED <<life, ringVars, push, stream, since, snap, url, gap, overflow>>

CloseStream == stream' = "off" /\ chan' = <<>> /\ push' = [push EXCEPT !.target = FALSE]

\* A write fails or the browser goes away; EventSource will come back with the same URL.
Break ==
  /\ stream # "off"
  /\ CloseStream
  /\ UNCHANGED <<life, ringVars, since, snap, url, last, readVars>>

\* showApp: a new EventSource from the page's number; or a new page or client.
LogIn ==
  /\ CloseStream
  /\ \/ url' = last /\ UNCHANGED last
     \/ url' \in {NoParam, Nothing} /\ last' = Nothing
  /\ UNCHANGED <<life, ringVars, since, snap, readVars>>

\* The ring lives in the process; the page and its URL do not.
Restart ==
  /\ life < MaxLives
  /\ life' = life + 1
  /\ seq' = 0 /\ buf' = <<>> /\ keys' = <<>> /\ push' = NoPush
  /\ stream' = "off" /\ chan' = <<>> /\ snap' = NoSnap
  /\ shown' = <<>> /\ gap' = FALSE /\ overflow' = {}
  /\ UNCHANGED <<since, url, last>>

Next ==
  \/ \E user \in {Me, Other} : Deliver(user)
  \/ Push \/ Open \/ Subscribe \/ Snapshot \/ Hello \/ Gap \/ Replay \/ Receive
  \/ Break \/ LogIn \/ Restart

Spec == Init /\ [][Next]_vars

-----------------------------------------------------------------------------
(* Properties.                                                             *)

\* On its way to the page.
OnItsWay(q) ==
  \/ q \in ToSet(chan) \/ q \in ToSet(snap.events)
  \/ push.target /\ push.seq = q

\* A stream that has read the ring shows its page every event of its user after `since`, those
\* that were appended while it was opening included, unless it was told of a gap or the
\* channel overflowed; without `since` those the ring had already forgotten are left out.
StreamComplete ==
  stream \in {"hello", "replay", "gap", "live"} =>
    \A q \in 1 .. seq :
      Mine(q) /\ q > since /\ (since >= 0 \/ q >= snap.oldest) =>
        \/ q \in ToSet(shown) \/ q \in overflow \/ OnItsWay(q)
        \/ q <= snap.latest /\ (gap \/ stream \in {"hello", "gap"})

\* It shows nothing of another user, and an event a second time only if it was appended while
\* the stream was opening.
StreamHonest ==
  stream # "off" =>
    /\ \A i \in 1 .. Len(shown) : Mine(shown[i])
    /\ \A i, j \in 1 .. Len(shown) : i < j /\ shown[i] >= shown[j] => shown[j] <= snap.latest

\* A page misses no event behind its back and sees none that is not its user's.
PageSees == StreamComplete /\ StreamHonest
===============================================================================
