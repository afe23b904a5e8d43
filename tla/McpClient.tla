------------------------------- MODULE McpClient -------------------------------
(***************************************************************************)
(* A client of one MCP server process (internal/mcp/client.go): calls wait *)
(* on a condition variable for a connection generation, are written to it  *)
(* and answered or given up with it; the supervisor replaces a generation  *)
(* that ended while the restart budget lasts; tools/list is retried and    *)
(* its answer cached; Close ends all of it.  The server may answer, hang   *)
(* or die at any moment, also in the handshake.                            *)
(***************************************************************************)
EXTENDS Naturals, FiniteSets

CONSTANTS Calls,       \* tools/call requests of the agent
          Lists,       \* ListTools calls
          MaxRestarts, \* policy.MaxRestarts, in one window
          MaxGens      \* bound: processes ever started

Callers == Calls \cup Lists
NoGen == 0
ListRetryAttempts == 2

VARIABLES
  gen,         \* c.gen: the published generation, or NoGen
  spawned,     \* generations ever started
  live,        \* generations whose reader still runs (done not closed)
  closed, stopped, exhausted, \* flags under mu; stop closed and ctx cancelled
  super,       \* where the supervisor is
  next,        \* the generation in the handshake
  restarts,    \* entries of c.restarts inside the window
  corrected,   \* the framing was corrected once
  closer,      \* where closeOnce is
  closing,     \* the generation closeOnce captured
  at, on, attempt, \* of a caller: where it is, its generation, its attempts
  asleep,      \* callers in genCond.Wait
  pending,     \* ids (callers) registered for an answer
  lost,        \* generations whose end a caller met, per caller
  outcome      \* what a caller returned

vars == <<gen, spawned, live, closed, stopped, exhausted, super, next, restarts, corrected,
          closer, closing, at, on, attempt, asleep, pending, lost, outcome>>
process == <<spawned, live>>
supervisor == <<super, next, restarts, corrected>>
calls == <<at, on, attempt, pending, lost, outcome>>

\* Spawn returned: the first handshake is done and the supervisor watches.
Init ==
  /\ gen = 1 /\ spawned = 1 /\ live = {1}
  /\ closed = FALSE /\ stopped = FALSE /\ exhausted = FALSE
  /\ super = "look" /\ next = NoGen /\ restarts = 0 /\ corrected \in BOOLEAN
  /\ closer = "idle" /\ closing = NoGen
  /\ at = [c \in Callers |-> "idle"] /\ on = [c \in Callers |-> NoGen]
  /\ attempt = [c \in Callers |-> 0] /\ asleep = {} /\ pending = {}
  /\ lost = [c \in Callers |-> {}] /\ outcome = [c \in Callers |-> "none"]

Goto(c, place) == at' = [at EXCEPT ![c] = place]
Broadcast == asleep' = {}

-----------------------------------------------------------------------------
(* Calls.                                                                    *)

Returns(c, what) == Goto(c, "done") /\ outcome' = [outcome EXCEPT ![c] = what]

Enter(c) ==
  /\ at[c] = "idle" /\ Goto(c, "request")
  /\ attempt' = [attempt EXCEPT ![c] = 1]
  /\ UNCHANGED <<gen, process, closed, stopped, exhausted, supervisor, closer, closing, on,
                 asleep, pending, lost, outcome>>

\* request: sleep until there is a generation, or nothing to wait for.
MustWait == gen = NoGen /\ ~closed /\ ~exhausted

RequestWaits(c) ==
  /\ at[c] = "request" /\ c \notin asleep /\ MustWait
  /\ asleep' = asleep \cup {c}
  /\ UNCHANGED <<gen, process, closed, stopped, exhausted, supervisor, closer, closing, calls>>

RequestFails(c) ==
  /\ at[c] = "request" /\ c \notin asleep /\ (closed \/ exhausted)
  /\ Returns(c, IF closed THEN "closed" ELSE "unavailable")
  /\ UNCHANGED <<gen, process, closed, stopped, exhausted, supervisor, closer, closing, on,
                 attempt, asleep, pending, lost>>

RequestGets(c) ==
  /\ at[c] = "request" /\ c \notin asleep /\ gen # NoGen /\ ~closed /\ ~exhausted
  /\ on' = [on EXCEPT ![c] = gen] /\ pending' = pending \cup {c} /\ Goto(c, "write")
  /\ UNCHANGED <<gen, process, closed, stopped, exhausted, supervisor, closer, closing,
                 attempt, asleep, lost, outcome>>

\* A list is tried again after an unknown outcome; a tool call never is.
\* MUTANT of Retries: a tool call is sent again to the next process.
MutantRetries(c) == attempt[c] < ListRetryAttempts
Retries(c) == c \in Lists /\ attempt[c] < ListRetryAttempts

OutcomeUnknown(c) ==
  /\ pending' = pending \ {c}
  /\ lost' = [lost EXCEPT ![c] = @ \cup {on[c]}]
  /\ IF Retries(c)
     THEN /\ Goto(c, "request") /\ attempt' = [attempt EXCEPT ![c] = @ + 1]
          /\ UNCHANGED outcome
     ELSE Returns(c, IF closed /\ at[c] = "write" THEN "closed" ELSE "unknown")
          /\ UNCHANGED attempt

\* roundTrip: the write reaches the process, or fails because it is gone.
WriteSent(c) ==
  /\ at[c] = "write" /\ on[c] \in live /\ Goto(c, "answer")
  /\ UNCHANGED <<gen, process, closed, stopped, exhausted, supervisor, closer, closing, on,
                 attempt, asleep, pending, lost, outcome>>

WriteFails(c) ==
  /\ at[c] = "write" /\ (on[c] \notin live \/ stopped)
  /\ OutcomeUnknown(c)
  /\ UNCHANGED <<gen, process, closed, stopped, exhausted, supervisor, closer, closing, on, asleep>>

GenerationEnded(c) ==
  /\ at[c] = "answer" /\ on[c] \notin live
  /\ OutcomeUnknown(c)
  /\ UNCHANGED <<gen, process, closed, stopped, exhausted, supervisor, closer, closing, on, asleep>>

\* The context of the call ends while it waits for its answer.
CallerGivesUp(c) ==
  /\ at[c] = "answer" /\ pending' = pending \ {c} /\ Returns(c, "cancelled")
  /\ UNCHANGED <<gen, process, closed, stopped, exhausted, supervisor, closer, closing, on,
                 attempt, asleep, lost>>

\* handleResponse pops the entry and hands the answer over.
Answer(c) ==
  /\ at[c] = "answer" /\ c \in pending /\ on[c] \in live
  /\ pending' = pending \ {c} /\ Returns(c, "answered")
  /\ UNCHANGED <<gen, process, closed, stopped, exhausted, supervisor, closer, closing, on,
                 attempt, asleep, lost>>

-----------------------------------------------------------------------------
(* The process and its supervisor.                                           *)

\* It exits by itself, or is killed: by its cancelled context, by teardown.
ProcessEnds(g) ==
  /\ g \in live /\ live' = live \ {g}
  /\ UNCHANGED <<gen, spawned, closed, stopped, exhausted, supervisor, closer, closing,
                 calls, asleep>>

Step(from, to) == super = from /\ super' = to

Look ==
  /\ Step("look", IF closed \/ exhausted THEN "gone"
                  ELSE IF gen = NoGen THEN "spawn" ELSE "watch")
  /\ UNCHANGED <<gen, process, closed, stopped, exhausted, next, restarts, corrected,
                 closer, closing, calls, asleep>>

WatchStopped ==
  /\ stopped /\ Step("watch", "gone")
  /\ UNCHANGED <<gen, process, closed, stopped, exhausted, next, restarts, corrected,
                 closer, closing, calls, asleep>>

WatchEnded ==
  /\ gen \notin live /\ super = "watch"
  /\ IF closed THEN super' = "gone" /\ UNCHANGED <<gen, asleep>>
     ELSE super' = "budget" /\ gen' = NoGen /\ Broadcast
  /\ UNCHANGED <<process, closed, stopped, exhausted, next, restarts, corrected,
                 closer, closing, calls>>

\* consumeRestart: entries older than the window are dropped first.
HasBudget(kept) == kept < MaxRestarts

ConsumeRestart ==
  /\ super = "budget"
  /\ \E kept \in {0, restarts} :
       IF HasBudget(kept)
       THEN super' = "backoff" /\ restarts' = kept + 1
       ELSE super' = "giveUp" /\ restarts' = kept
  /\ UNCHANGED <<gen, process, closed, stopped, exhausted, next, corrected, closer, closing,
                 calls, asleep>>

MarkExhausted ==
  /\ Step("giveUp", "gone") /\ exhausted' = TRUE /\ Broadcast
  /\ UNCHANGED <<gen, process, closed, stopped, next, restarts, corrected, closer, closing, calls>>

SleepBackoff ==
  /\ super = "backoff"
  /\ \/ super' = "look"
     \/ stopped /\ super' = "gone"
  /\ UNCHANGED <<gen, process, closed, stopped, exhausted, next, restarts, corrected,
                 closer, closing, calls, asleep>>

\* spawnProcess; no process starts under a cancelled context.
SpawnProcess ==
  /\ ~stopped /\ spawned < MaxGens /\ Step("spawn", "handshake")
  /\ spawned' = spawned + 1 /\ live' = live \cup {spawned'} /\ next' = spawned'
  /\ UNCHANGED <<gen, closed, stopped, exhausted, restarts, corrected, closer, closing,
                 calls, asleep>>

StartFailed(from) ==
  /\ Step(from, IF closed THEN "gone" ELSE "budget") /\ next' = NoGen

SpawnFails ==
  /\ StartFailed("spawn")
  /\ UNCHANGED <<gen, process, closed, stopped, exhausted, restarts, corrected, closer,
                 closing, calls, asleep>>

\* A handshake that is refused, or whose process ended; teardown waits for it.
HandshakeFails ==
  /\ StartFailed("handshake") /\ live' = live \ {next}
  /\ UNCHANGED <<gen, spawned, closed, stopped, exhausted, restarts, corrected, closer,
                 closing, calls, asleep>>

\* The server answers with Content-Length frames: once, start again in kind.
CorrectFraming ==
  /\ ~corrected /\ next \in live /\ Step("handshake", "spawn")
  /\ corrected' = TRUE /\ live' = live \ {next} /\ next' = NoGen
  /\ UNCHANGED <<gen, spawned, closed, stopped, exhausted, restarts, closer, closing,
                 calls, asleep>>

Publish ==
  /\ next \in live /\ super = "handshake" /\ next' = NoGen
  /\ IF closed
     THEN super' = "gone" /\ live' = live \ {next} /\ UNCHANGED <<gen, asleep>>
     ELSE super' = "look" /\ gen' = next /\ Broadcast /\ UNCHANGED live
  /\ UNCHANGED <<spawned, closed, stopped, exhausted, restarts, corrected, closer, closing, calls>>

-----------------------------------------------------------------------------
(* closeOnce.                                                                *)

CloseBegins ==
  /\ closer = "idle" /\ closer' = "marked"
  /\ closed' = TRUE /\ closing' = gen
  /\ UNCHANGED <<gen, process, stopped, exhausted, supervisor, calls, asleep>>

CloseStops ==
  /\ closer = "marked" /\ closer' = "stopped" /\ stopped' = TRUE
  /\ UNCHANGED <<gen, process, closed, exhausted, supervisor, closing, calls, asleep>>

CloseWakes ==
  /\ closer = "stopped" /\ closer' = "joining" /\ Broadcast
  /\ UNCHANGED <<gen, process, closed, stopped, exhausted, supervisor, closing, calls>>

CloseReturns ==
  /\ closer = "joining" /\ closing \notin live /\ super = "gone"
  /\ closer' = "closed"
  /\ UNCHANGED <<gen, process, closed, stopped, exhausted, supervisor, closing, calls, asleep>>

Close == CloseStops \/ CloseWakes \/ CloseReturns
Supervise ==
  \/ Look \/ WatchStopped \/ WatchEnded \/ ConsumeRestart \/ MarkExhausted \/ SleepBackoff
  \/ SpawnProcess \/ SpawnFails
Handshake == HandshakeFails \/ CorrectFraming \/ Publish
Caller(c) ==
  \/ RequestWaits(c) \/ RequestFails(c) \/ RequestGets(c) \/ WriteSent(c) \/ WriteFails(c)
  \/ GenerationEnded(c)

Next ==
  \/ \E c \in Callers : Enter(c) \/ Caller(c) \/ CallerGivesUp(c) \/ Answer(c)
  \/ \E g \in 1..MaxGens : ProcessEnds(g)
  \/ Supervise \/ Handshake \/ CloseBegins \/ Close

\* A cancelled context kills the processes; a handshake ends with its process.
Killed(g) == stopped /\ ProcessEnds(g)
HandshakeEnds == next \notin live /\ HandshakeFails

Fair ==
  /\ WF_vars(Supervise) /\ WF_vars(HandshakeEnds) /\ WF_vars(Close)
  /\ \A c \in Callers : WF_vars(Caller(c))
  /\ \A g \in 1..MaxGens : WF_vars(Killed(g))

Spec == Init /\ [][Next]_vars /\ Fair

-----------------------------------------------------------------------------
(* Properties.                                                               *)

(***************************************************************************)
(* No caller sleeps although what it waits for is there, except while the  *)
(* broadcast that wakes it is still to come; no entry is left behind for a *)
(* caller that returned; a call is written to one generation only, so a    *)
(* tool never runs twice; and a process that is alive is published, in the *)
(* handshake, or about to be killed (request, roundTrip, supervise).       *)
(***************************************************************************)
CallsKept ==
  /\ asleep # {} => MustWait \/ closer \in {"marked", "stopped"}
  /\ pending \subseteq {c \in Callers : at[c] \in {"write", "answer"}}
  /\ \A c \in Calls : Cardinality(lost[c]) <= 1 /\ (outcome[c] = "answered" => lost[c] = {})
  /\ Cardinality(live) <= 1 /\ (live # {} => live \subseteq {gen, next})

\* Whatever the server does, Close returns and so does every call under way,
\* asleep or not, whose handshake or answer may never come.
CloseEnds ==
  /\ closer = "marked" ~> closer = "closed"
  /\ \A c \in Callers : (at[c] # "idle" /\ closed) ~> at[c] = "done"

\* "ListTools retries once after a restart" (client_test.go:336): a list fails
\* with an unknown outcome only after two different processes ended under it.
RetryMeetsRestart ==
  \A c \in Lists : outcome[c] = "unknown" => Cardinality(lost[c]) = ListRetryAttempts
===============================================================================
