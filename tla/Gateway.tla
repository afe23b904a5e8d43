------------------------------ MODULE Gateway ------------------------------
(***************************************************************************)
(* internal/gateway: a message submitted by a transport is admitted, made  *)
(* durable in the journal, queued in the mailbox of its chat's actor, run  *)
(* as one turn under the workspace scheduler and settled in the journal.   *)
(* A new life of the process replays what the journal has only accepted.   *)
(*                                                                         *)
(* A critical section of Journal, RateLimiter, Router or Actor is one step.*)
(* The scheduler is the module extended below: its steps occur here as the *)
(* steps of the actors' turns.                                             *)
(***************************************************************************)
EXTENDS WorkspaceScheduler

CONSTANTS
  Msgs,           \* message ids
  ChatOf,         \* RoutingKey: the actor that serves a message
  Resolves,       \* the workspaces a chat may be bound to when it starts
  Submitters,     \* transport goroutines that call Submit
  MailboxSize,    \* cap(Actor.mailbox)
  MaxAdmission,   \* RateLimiter.maxActive, 0 when unlimited
  MaxLives,       \* bound: process lives
  MaxCancels,     \* bound: cancel requests that find a turn
  MaxTroubles     \* bound: stops, failed writes and crashes inside a write

ASSUME GatewayAssumption ==
  /\ ChatOf \in [Msgs -> Actors]
  /\ Resolves \in [Actors -> SUBSET Workspaces]
  /\ MailboxSize \in Nat \ {0}
  /\ MaxAdmission \in Nat
  /\ None \notin Msgs
  /\ IsFiniteSet(Submitters)

VARIABLES
  \* the process
  life,       \* how far Start and Shutdown have come
  lives,      \* lives begun so far
  done,       \* the context given to Router.Start is done
  pending,    \* replayed records not yet resumed
  toStop,     \* the actors Router.Shutdown has still to stop
  \* the journal
  mem,        \* status of each record in Journal.recs, "none" without one
  disk,       \* status a reader of the file finds
  order,      \* ids in the order their "accepted" records were appended
  torn,       \* the file ends in a partial line
  shut,       \* Journal.closed
  cancels,    \* counted against MaxCancels
  troubles,   \* counted against MaxTroubles
  \* the limiter and the submissions
  active,     \* RateLimiter.active
  sub,        \* what each submitter is doing, with which message
  \* the actors
  home,       \* workspace of each actor of Router.actors, None without one
  closed,     \* Actor.closed
  mailbox,    \* Actor.mailbox
  at,         \* where the actor's goroutine stands
  cur,        \* the message it has taken
  \* histories
  polled,     \* messages the transport has taken in this life
  ran,        \* how often Run was called for a message
  acked,      \* messages whose Submit returned a receipt
  refused,    \* messages whose Submit returned an error after the append
  raced,      \* messages appended while Start was about to read the journal
  damaged,    \* messages one of whose records is missing on disk or in memory
  resumed     \* this life has resumed a record

processVars == <<life, lives, done, pending, toStop, cancels>>
journalVars == <<mem, disk, order, torn, shut, troubles>>
submitVars  == <<active, sub>>
actorVars   == <<home, closed, mailbox, at, cur>>
historyVars == <<polled, ran, acked, refused, raced, damaged, resumed>>
vars == <<processVars, journalVars, submitVars, actorVars, historyVars,
          schedVars>>

Terminal == {"completed", "failed", "cancelled", "outcome_unknown"}
Statuses == {"none", "accepted", "started"} \cup Terminal
Lives == {"opened", "started", "routed", "resuming", "serving",
          "stopping", "closed"}
Places == {"off", "select", "acquire", "marked", "running", "leaving",
           "drain", "exited"}
InTurn == {"acquire", "marked", "running"}
Admitted == {"append", "route", "post", "leave", "undo"}
Idle == [at |-> "idle", msg |-> None]

-----------------------------------------------------------------------------
(* The journal                                                             *)

\* statusRank and validTransition, of messages that have a record.
Rank(s) == IF s \in Terminal THEN 3 ELSE IF s = "started" THEN 2 ELSE 1

MutantValidTransition(from, to) == Rank(from) <= Rank(to)
ValidTransition(from, to) == from = to \/ Rank(from) < Rank(to)

MutantWriteLine(m, s) == UNCHANGED <<disk, torn>>

\* The append of a complete line.  After a torn tail it continues the partial
\* line: the next reader can parse neither.
WriteLine(m, s) ==
  /\ disk' = IF torn THEN disk ELSE [disk EXCEPT ![m] = s]
  /\ torn' = FALSE

Accept(m, s) ==
  order' = IF s = "accepted" THEN Append(Remove(order, m), m) ELSE order

\* appendLocked returns nil: the record is written, synced and remembered.
AppendOk(m, s) ==
  /\ WriteLine(m, s)
  /\ Accept(m, s)
  /\ mem' = [mem EXCEPT ![m] = s]
  /\ damaged' = IF torn THEN damaged \cup {m} ELSE damaged
  /\ troubles' = troubles

\* appendLocked returns an error: nothing, a part or all of the line has
\* reached the file, and the record is not remembered.
AppendFails(m, s) ==
  /\ troubles < MaxTroubles
  /\ troubles' = troubles + 1
  /\ damaged' = damaged \cup {m}
  /\ mem' = mem
  /\ \/ UNCHANGED <<disk, torn, order>>
     \/ torn' = TRUE /\ UNCHANGED <<disk, order>>
     \/ WriteLine(m, s) /\ Accept(m, s)

MarkAllowed(m, s) == ~shut /\ mem[m] # "none" /\ ValidTransition(mem[m], s)

\* Journal.mark returns nil, or an error.
MarkOk(m, s) == MarkAllowed(m, s) /\ AppendOk(m, s) /\ shut' = shut

MarkErr(m, s) ==
  /\ shut' = shut
  /\ \/ /\ ~MarkAllowed(m, s)
        /\ UNCHANGED <<mem, disk, order, torn, troubles, damaged>>
     \/ MarkAllowed(m, s) /\ AppendFails(m, s)

\* Every caller but MarkStarted's ignores the error.
Mark(m, s) == MarkOk(m, s) \/ MarkErr(m, s)

\* RateLimiter.EndTurn never goes below zero.
EndTurn == active' = IF active > 0 THEN active - 1 ELSE 0

-----------------------------------------------------------------------------
(* Gateway.Start                                                           *)

\* Start sets started first: from here on submissions are admitted.
StartBegins ==
  /\ life = "opened"
  /\ life' = "started"
  /\ UNCHANGED <<lives, done, pending, toStop, cancels, journalVars,
                 submitVars, actorVars, historyVars, schedVars>>

\* Router.Start.
StartRoutes ==
  /\ life = "started"
  /\ life' = "routed"
  /\ UNCHANGED <<lives, done, pending, toStop, cancels, journalVars,
                 submitVars, actorVars, historyVars, schedVars>>

MutantReplaysStarted(m) == mem[m] \in {"accepted", "started"}
MutantReplaysNothing(m) == FALSE
Replayable(m) == mem[m] = "accepted"

\* ReplayPending lists the accepted records in the order of the journal.
Oldest(m) ==
  /\ m \in pending
  /\ \A n \in pending \ {m} :
       \E i, j \in DOMAIN order : i < j /\ order[i] = m /\ order[j] = n

StartReplays ==
  /\ life = "routed"
  /\ life' = "resuming"
  /\ pending' = {m \in Msgs : Replayable(m)}
  /\ UNCHANGED <<lives, done, toStop, cancels, journalVars, submitVars,
                 actorVars, historyVars, schedVars>>

\* Router.Actor: the actor of a chat is created on first use, and its
\* workspace is resolved then.
ActorStarts(a) ==
  /\ home[a] = None
  /\ \E w \in Resolves[a] : home' = [home EXCEPT ![a] = w]
  /\ at' = [at EXCEPT ![a] = "select"]
  /\ UNCHANGED <<closed, mailbox, cur>>

Queue(a, m) == mailbox' = [mailbox EXCEPT ![a] = Append(@, m)]

Refuses(a) == closed[a] \/ Len(mailbox[a]) >= MailboxSize

\* resume: the actor of the next pending record is looked up or created...
ResumeRoutes ==
  /\ life = "resuming"
  /\ \E m \in Msgs : Oldest(m) /\ ActorStarts(ChatOf[m])
  /\ UNCHANGED <<processVars, journalVars, submitVars, historyVars,
                 schedVars>>

\* ... and given the message, which takes no slot of the limiter.
ResumePosts ==
  /\ life = "resuming"
  /\ \E m \in Msgs :
       /\ Oldest(m)
       /\ home[ChatOf[m]] # None
       /\ pending' = pending \ {m}
       /\ \/ /\ ~Refuses(ChatOf[m])
             /\ Queue(ChatOf[m], m)
             /\ resumed' = TRUE
             /\ UNCHANGED <<journalVars, damaged>>
          \/ /\ Refuses(ChatOf[m])
             /\ Mark(m, "failed")
             /\ UNCHANGED <<mailbox, resumed>>
  /\ UNCHANGED <<life, lives, done, toStop, cancels, submitVars, home, closed,
                 at, cur, polled, ran, acked, refused, raced, schedVars>>

StartEnds ==
  /\ life = "resuming"
  /\ pending = {}
  /\ life' = "serving"
  /\ UNCHANGED <<lives, done, pending, toStop, cancels, journalVars,
                 submitVars, actorVars, historyVars, schedVars>>

-----------------------------------------------------------------------------
(* Gateway.Submit, one step per locked call                                *)

\* started is set, the message is valid and within the user's rate, and
\* TryBeginTurn takes a slot.  (A refusal here leaves no trace.)
SubmitAdmits(s, m) ==
  /\ sub[s] = Idle
  /\ life \in {"started", "routed", "resuming", "serving"}
  /\ MaxAdmission = 0 \/ active < MaxAdmission
  /\ m \notin polled
  /\ polled' = polled \cup {m}
  /\ active' = active + 1
  /\ sub' = [sub EXCEPT ![s] = [at |-> "append", msg |-> m]]
  /\ UNCHANGED <<processVars, journalVars, actorVars, ran, acked, refused,
                 raced, damaged, resumed, schedVars>>

\* AppendUnique: the id is new and the record is durable.
SubmitAppends(s) ==
  /\ sub[s].at = "append"
  /\ ~shut
  /\ mem[sub[s].msg] = "none"
  /\ AppendOk(sub[s].msg, "accepted")
  /\ sub' = [sub EXCEPT ![s].at = "route"]
  /\ raced' = IF life \in {"started", "routed"}
              THEN raced \cup {sub[s].msg} ELSE raced
  /\ UNCHANGED <<processVars, shut, active, actorVars, polled, ran, acked,
                 refused, resumed, schedVars>>

\* AppendUnique: closed, a known id, or a write error.
SubmitBounces(s) ==
  /\ sub[s].at = "append"
  /\ \/ /\ shut \/ mem[sub[s].msg] # "none"
        /\ UNCHANGED <<journalVars, damaged>>
     \/ /\ ~shut
        /\ mem[sub[s].msg] = "none"
        /\ AppendFails(sub[s].msg, "accepted")
        /\ shut' = shut
  /\ sub' = [sub EXCEPT ![s].at = "leave"]
  /\ UNCHANGED <<processVars, active, actorVars, polled, ran, acked, refused,
                 raced, resumed, schedVars>>

\* Router.Actor finds or starts the chat's actor; before Router.Start it can
\* do neither.
SubmitRoutes(s) ==
  /\ sub[s].at = "route"
  /\ LET a == ChatOf[sub[s].msg]
     IN \/ /\ home[a] # None
           /\ sub' = [sub EXCEPT ![s].at = "post"]
           /\ UNCHANGED actorVars
        \/ /\ home[a] = None /\ life # "started"
           /\ sub' = [sub EXCEPT ![s].at = "post"]
           /\ ActorStarts(a)
        \/ /\ home[a] = None /\ life = "started"
           /\ sub' = [sub EXCEPT ![s].at = "undo"]
           /\ UNCHANGED actorVars
  /\ UNCHANGED <<processVars, journalVars, active, historyVars, schedVars>>

\* Actor.Submit: the mailbox takes the message and the sender gets a receipt,
\* or the actor is closed or its mailbox full.
SubmitPosts(s) ==
  /\ sub[s].at = "post"
  /\ LET m == sub[s].msg
         a == ChatOf[m]
     IN \/ /\ ~Refuses(a)
           /\ Queue(a, m)
           /\ acked' = acked \cup {m}
           /\ sub' = [sub EXCEPT ![s] = Idle]
        \/ /\ Refuses(a)
           /\ sub' = [sub EXCEPT ![s].at = "undo"]
           /\ UNCHANGED <<mailbox, acked>>
  /\ UNCHANGED <<processVars, journalVars, active, home, closed, at, cur,
                 polled, ran, refused, raced, damaged, resumed, schedVars>>

MutantSubmitEndsTurn(s) ==
  /\ sub[s].at \in {"leave", "undo"}
  /\ IF sub[s].at = "undo" THEN EndTurn ELSE active' = active
  /\ sub' = [sub EXCEPT ![s] = IF @.at = "leave" THEN Idle
                               ELSE [@ EXCEPT !.at = "mark"]]
  /\ UNCHANGED <<processVars, journalVars, actorVars, historyVars, schedVars>>

\* The error paths give the slot back first...
SubmitEndsTurn(s) ==
  /\ sub[s].at \in {"leave", "undo"}
  /\ EndTurn
  /\ sub' = [sub EXCEPT ![s] = IF @.at = "leave" THEN Idle
                               ELSE [@ EXCEPT !.at = "mark"]]
  /\ UNCHANGED <<processVars, journalVars, actorVars, historyVars, schedVars>>

\* ... and settle the appended record, before the sender gets the error.
SubmitCancels(s) ==
  /\ sub[s].at = "mark"
  /\ Mark(sub[s].msg, "cancelled")
  /\ refused' = refused \cup {sub[s].msg}
  /\ sub' = [sub EXCEPT ![s] = Idle]
  /\ UNCHANGED <<processVars, active, actorVars, polled, ran, acked, raced,
                 resumed, schedVars>>

-----------------------------------------------------------------------------
(* Actor.run and Actor.process                                             *)

\* The loop takes a message; once the context is done it only cancels.
TakeMessage(a) ==
  /\ at[a] = "select"
  /\ mailbox[a] # <<>>
  /\ cur' = [cur EXCEPT ![a] = Head(mailbox[a])]
  /\ mailbox' = [mailbox EXCEPT ![a] = Tail(@)]
  /\ at' = [at EXCEPT ![a] = IF done THEN "drain" ELSE "acquire"]
  /\ UNCHANGED <<processVars, journalVars, submitVars, home, closed,
                 historyVars, schedVars>>

SeeDone(a) ==
  /\ at[a] = "select"
  /\ done
  /\ at' = [at EXCEPT ![a] = "drain"]
  /\ UNCHANGED <<processVars, journalVars, submitVars, home, closed, mailbox,
                 cur, historyVars, schedVars>>

\* cancelMessage, first for the message in hand, then for the queued ones.
CancelMessage(a) ==
  /\ at[a] = "drain"
  /\ \/ /\ cur[a] # None
        /\ Mark(cur[a], "cancelled")
        /\ cur' = [cur EXCEPT ![a] = None]
        /\ mailbox' = mailbox
     \/ /\ cur[a] = None
        /\ mailbox[a] # <<>>
        /\ Mark(Head(mailbox[a]), "cancelled")
        /\ mailbox' = [mailbox EXCEPT ![a] = Tail(@)]
        /\ cur' = cur
  /\ EndTurn
  /\ UNCHANGED <<processVars, sub, home, closed, at, polled, ran, acked,
                 refused, raced, resumed, schedVars>>

\* cancelQueued finds the mailbox empty, and the goroutine ends.
ActorExits(a) ==
  /\ at[a] = "drain"
  /\ cur[a] = None
  /\ mailbox[a] = <<>>
  /\ at' = [at EXCEPT ![a] = "exited"]
  /\ UNCHANGED <<processVars, journalVars, submitVars, home, closed, mailbox,
                 cur, historyVars, schedVars>>

\* Scheduler.Acquire, in its steps.
Acquires(a) ==
  /\ at[a] = "acquire"
  /\ \/ EnterGate(a, home[a])
     \/ TakeHandover(a)
     \/ AbandonWait(a)
     \/ HandBack(a)
     \/ LeaveQueue(a)
     \/ EnterSem(a)
     \/ AbandonSem(a)
  /\ UNCHANGED <<processVars, journalVars, submitVars, actorVars,
                 historyVars>>

\* Acquire returned an error: the turn never started.
TurnRefused(a) ==
  /\ at[a] = "acquire"
  /\ stage[a] = "refused"
  /\ Mark(cur[a], "cancelled")
  /\ at' = [at EXCEPT ![a] = "leaving"]
  /\ UNCHANGED <<processVars, submitVars, home, closed, mailbox, cur, polled,
                 ran, acked, refused, raced, resumed, schedVars>>

\* MarkStarted is the only mark whose error stops the turn.
TurnStarts(a) ==
  /\ at[a] = "acquire"
  /\ stage[a] = "in"
  /\ \/ /\ MarkOk(cur[a], "started")
        /\ at' = [at EXCEPT ![a] = "marked"]
     \/ /\ MarkErr(cur[a], "started")
        /\ at' = [at EXCEPT ![a] = "leaving"]
  /\ UNCHANGED <<processVars, submitVars, home, closed, mailbox, cur, polled,
                 ran, acked, refused, raced, resumed, schedVars>>

Run(a) ==
  /\ at[a] = "marked"
  /\ at' = [at EXCEPT ![a] = "running"]
  /\ ran' = [ran EXCEPT ![cur[a]] = @ + 1]
  /\ UNCHANGED <<processVars, journalVars, submitVars, home, closed, mailbox,
                 cur, polled, acked, refused, raced, damaged, resumed,
                 schedVars>>

\* Run returned; an error of a cancelled turn leaves its outcome unknown.
TurnOutcome(a) ==
  /\ at[a] = "running"
  /\ \/ Mark(cur[a], "completed")
     \/ Mark(cur[a], IF a \in cancelled THEN "outcome_unknown" ELSE "failed")
  /\ at' = [at EXCEPT ![a] = "leaving"]
  /\ UNCHANGED <<processVars, submitVars, home, closed, mailbox, cur, polled,
                 ran, acked, refused, raced, resumed, schedVars>>

\* The deferred Scheduler.Release.
Releases(a) ==
  /\ at[a] = "leaving"
  /\ LeaveSem(a) \/ LeaveGate(a)
  /\ UNCHANGED <<processVars, journalVars, submitVars, actorVars,
                 historyVars>>

\* The other deferred calls of process, the last of which is EndTurn.
TurnEnds(a) ==
  /\ at[a] = "leaving"
  /\ Return(a)
  /\ EndTurn
  /\ at' = [at EXCEPT ![a] = "select"]
  /\ cur' = [cur EXCEPT ![a] = None]
  /\ UNCHANGED <<processVars, journalVars, sub, home, closed, mailbox,
                 historyVars>>

\* Gateway.Cancel of a chat whose actor is in a turn.
CancelTurn(a) ==
  /\ at[a] \in InTurn
  /\ a \notin cancelled
  /\ cancels < MaxCancels
  /\ cancels' = cancels + 1
  /\ CancelContexts({a})
  /\ UNCHANGED <<life, lives, done, pending, toStop, journalVars, submitVars,
                 actorVars, historyVars>>

-----------------------------------------------------------------------------
(* Shutdown and crash                                                      *)

\* The command cancels the gateway's context, and with it every turn's.
StopSignal ==
  /\ life = "serving"
  /\ ~done
  /\ troubles < MaxTroubles
  /\ troubles' = troubles + 1
  /\ done' = TRUE
  /\ CancelContexts({a \in Actors : at[a] \in InTurn})
  /\ UNCHANGED <<life, lives, pending, toStop, cancels, mem, disk, order,
                 torn, shut, submitVars, actorVars, historyVars>>

\* Gateway.Shutdown clears started; Router.Shutdown lists its actors.
ShutdownBegins ==
  /\ life = "serving"
  /\ done
  /\ life' = "stopping"
  /\ toStop' = {a \in Actors : home[a] # None}
  /\ UNCHANGED <<lives, done, pending, cancels, journalVars, submitVars,
                 actorVars, historyVars, schedVars>>

\* Actor.stop of one actor, once the one before it has ended.
StopActor(a) ==
  /\ a \in toStop
  /\ ~closed[a]
  /\ \A b \in toStop : closed[b] => at[b] = "exited"
  /\ closed' = [closed EXCEPT ![a] = TRUE]
  /\ UNCHANGED <<processVars, journalVars, submitVars, home, mailbox, at, cur,
                 historyVars, schedVars>>

\* All actors have ended, or the time given to Shutdown is over.
ShutdownEnds ==
  /\ life = "stopping"
  /\ \/ \A a \in toStop : closed[a] /\ at[a] = "exited"
     \/ \E a \in toStop : at[a] # "exited"
  /\ life' = "closed"
  /\ shut' = TRUE
  /\ UNCHANGED <<lives, done, pending, toStop, cancels, mem, disk, order,
                 torn, troubles, submitVars, actorVars, historyVars,
                 schedVars>>

\* Some goroutine is about to append to the journal.
Appending ==
  \/ \E s \in Submitters : sub[s].at \in {"append", "mark"}
  \/ \E a \in Actors : \/ at[a] \in {"running", "drain"}
                       \/ at[a] = "acquire" /\ stage[a] \in {"refused", "in"}

\* The process ends, possibly inside a write, and New opens the journal
\* again: only the file survives.
NewLife ==
  /\ lives < MaxLives
  /\ lives' = lives + 1
  /\ life' = "opened"
  /\ done' = FALSE
  /\ pending' = {}
  /\ toStop' = {}
  /\ mem' = disk
  /\ \/ UNCHANGED <<torn, troubles>>
     \/ /\ Appending /\ ~shut /\ troubles < MaxTroubles
        /\ torn' = TRUE
        /\ troubles' = troubles + 1
  /\ shut' = FALSE
  /\ active' = 0
  /\ sub' = [s \in Submitters |-> Idle]
  /\ home' = [a \in Actors |-> None]
  /\ closed' = [a \in Actors |-> FALSE]
  /\ mailbox' = [a \in Actors |-> <<>>]
  /\ at' = [a \in Actors |-> "off"]
  /\ cur' = [a \in Actors |-> None]
  /\ resumed' = FALSE
  /\ polled' = {}
  /\ NewScheduler
  /\ UNCHANGED <<disk, order, cancels, ran, acked, refused, raced, damaged>>

-----------------------------------------------------------------------------

Init ==
  /\ life = "opened"
  /\ lives = 1
  /\ done = FALSE
  /\ pending = {}
  /\ toStop = {}
  /\ cancels = 0
  /\ mem = [m \in Msgs |-> "none"]
  /\ disk = [m \in Msgs |-> "none"]
  /\ order = <<>>
  /\ torn = FALSE
  /\ shut = FALSE
  /\ troubles = 0
  /\ active = 0
  /\ sub = [s \in Submitters |-> Idle]
  /\ home = [a \in Actors |-> None]
  /\ closed = [a \in Actors |-> FALSE]
  /\ mailbox = [a \in Actors |-> <<>>]
  /\ at = [a \in Actors |-> "off"]
  /\ cur = [a \in Actors |-> None]
  /\ polled = {}
  /\ ran = [m \in Msgs |-> 0]
  /\ acked = {}
  /\ refused = {}
  /\ raced = {}
  /\ damaged = {}
  /\ resumed = FALSE
  /\ SchedInit

StartStep ==
  \/ StartBegins
  \/ StartRoutes
  \/ StartReplays
  \/ ResumeRoutes
  \/ ResumePosts
  \/ StartEnds

SubmitStep(s) ==
  \/ SubmitAppends(s)
  \/ SubmitBounces(s)
  \/ SubmitRoutes(s)
  \/ SubmitPosts(s)
  \/ SubmitEndsTurn(s)
  \/ SubmitCancels(s)

TurnStep(a) ==
  \/ TakeMessage(a)
  \/ SeeDone(a)
  \/ CancelMessage(a)
  \/ ActorExits(a)
  \/ Acquires(a)
  \/ TurnRefused(a)
  \/ TurnStarts(a)
  \/ Run(a)
  \/ TurnOutcome(a)
  \/ Releases(a)
  \/ TurnEnds(a)

ShutdownStep ==
  \/ ShutdownBegins
  \/ \E a \in Actors : StopActor(a)
  \/ ShutdownEnds

\* What the senders, the operator and the machine may do at any time.
Environment ==
  \/ \E s \in Submitters, m \in Msgs : SubmitAdmits(s, m)
  \/ \E a \in Actors : CancelTurn(a)
  \/ StopSignal
  \/ NewLife

Next ==
  \/ StartStep
  \/ \E s \in Submitters : SubmitStep(s)
  \/ \E a \in Actors : TurnStep(a)
  \/ ShutdownStep
  \/ Environment

Spec == Init /\ [][Next]_vars

\* Every goroutine that can go on does, Run returns, and the senders blocked
\* on the semaphore's channel are served in turn.
Fairness ==
  /\ WF_vars(StartStep)
  /\ \A s \in Submitters : WF_vars(SubmitStep(s))
  /\ \A a \in Actors : WF_vars(TurnStep(a))
  /\ \A a \in Actors : SF_vars(EnterSem(a) /\ Acquires(a))
  /\ WF_vars(ShutdownStep)

FairSpec == Spec /\ Fairness

-----------------------------------------------------------------------------
(* Properties                                                              *)

\* A message is run at most once, however often it is redelivered, cancelled,
\* queued and replayed, over all lives of the process (AppendUnique,
\* ReplayPending, MarkStarted before Run), unless one of its records was
\* written badly.
RunOnce == \A m \in Msgs \ damaged : ran[m] <= 1

\* While a turn runs, its record is "started", so that a crash neither
\* replays it nor forgets it, and nobody settles it under the turn
\* (Actor.process; Submit's and shutdown's MarkCancelled).
TurnOwnsRecord ==
  \A a \in Actors :
    at[a] \in {"marked", "running"} /\ cur[a] \notin damaged \cup raced
      => mem[cur[a]] = "started" /\ disk[cur[a]] = "started"

\* The slots that submissions hold: from TryBeginTurn to the EndTurn of the
\* error path, of the turn or of the cancelled message.
Slots == { s \in Submitters : sub[s].at \in Admitted }
Held == { a \in Actors : cur[a] # None }
Queued == UNION { {a} \X (1..Len(mailbox[a])) : a \in Actors }

\* Every admitted message gives its slot back exactly once, on every path, as
\* long as nothing was replayed in this life (TryBeginTurn and EndTurn).
SlotsBalanced ==
  ~resumed =>
    active = Cardinality(Slots) + Cardinality(Held) + Cardinality(Queued)

\* An acknowledged message that waits in the journal also waits in memory, in
\* Start's list, a mailbox or an actor's hands: none is forgotten while the
\* gateway serves (Submit, resume, Actor.run).
InMemory(m) ==
  \/ m \in pending
  \/ \E a \in Actors : cur[a] = m \/ Contains(mailbox[a], m)

AckedOwned ==
  life \in {"resuming", "serving"} /\ ~done =>
    \A m \in acked \ damaged : mem[m] = "accepted" => InMemory(m)

\* A settled record is final, over crashes too, whoever marks it again
\* (validTransition, load).
SettledStays ==
  [][\A m \in Msgs : mem[m] \in Terminal /\ m \notin damaged'
                       => mem'[m] = mem[m]]_vars

\* A gate that was handed to a waiter that no longer looks.
Wedged == ~GateHasHolder

\* A turn of an earlier life: its record stays "started".
Stranded(m) == mem[m] = "started" /\ \A a \in Actors : cur[a] # m

\* An acknowledged message is settled in the end, through crashes and replays,
\* unless the gateway is shut down, the message's record was written badly or
\* its turn was cut off by a crash, or the workspace's gate was lost.
AckedSettles ==
  \A m \in Msgs :
    m \in acked ~> \/ mem[m] \in Terminal
                   \/ Stranded(m) \/ m \in damaged \/ done \/ Wedged

\* A submission that was refused after its append is settled before the
\* sender learns of it.  The code does not keep it (README, section 9).
RefusedIsCancelled ==
  \A m \in refused \ (damaged \cup raced) : mem[m] # "accepted"
=============================================================================
