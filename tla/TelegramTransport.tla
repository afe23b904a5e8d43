-------------------------- MODULE TelegramTransport --------------------------
(***************************************************************************)
(* The Telegram transport of internal/gateway/telegram with what it meets: *)
(* Telegram, which hands out every update above the offset it was last     *)
(* asked for and forgets those below; the journal on disk; the turns; the  *)
(* dispatcher's queue of replies; and smidja gateway, which starts the     *)
(* transport before the gateway and stops it after the gateway.            *)
(*                                                                         *)
(* Updates are numbered as Telegram numbers them.  They are all private    *)
(* text messages of an allowed user: the others change nothing.  The       *)
(* actors of the gateway are a set of turns here (Gateway.tla has them).   *)
(***************************************************************************)
EXTENDS Naturals, Sequences, FiniteSets

CONSTANTS
  Updates,      \* updates 1 .. Updates are sent by users
  MaxLives,     \* the processes of one behaviour
  MaxTroubles   \* requests that fail, answers that are lost, submits refused

VARIABLES
  sent,       \* updates 1 .. sent exist
  confirmed,  \* updates 1 .. confirmed are forgotten by Telegram
  record,     \* the journal: the status of every update, "none" if it has no record
  life,       \* the number of the process
  gateway,    \* "off" | "starting" | "started" | "closing"
  poller,     \* "off" | "starting" | "checking" | "polling" | "handling" | "returned"
  offset,     \* the offset of the next request
  batch,      \* the updates of the last answer
  handled,    \* how many of them were handled
  sink,       \* whether the transport is registered for replies
  turns,      \* the accepted messages in mailboxes, and where the running ones are
  outbox,     \* the replies the dispatcher still holds
  troubles,
  refused,    \* updates Submit refused, other than as duplicates
  ran,        \* the turns that were run, with the process that ran them
  replies     \* the replies the users saw, per update

vars == <<sent, confirmed, record, life, gateway, poller, offset, batch, handled, sink, turns,
          outbox, troubles, refused, ran, replies>>

telegramVars == <<sent, confirmed>>
pollVars == <<poller, offset, batch, handled>>
turnVars == <<record, turns, outbox>>
ghostVars == <<refused, ran, replies>>

Ids == 1 .. Updates
Larger(a, b) == IF a > b THEN a ELSE b

TypeOK ==
  /\ sent \in 0 .. Updates /\ confirmed \in 0 .. Updates
  /\ record \in [Ids -> {"none", "accepted", "started", "settled", "cancelled"}]
  /\ gateway \in {"off", "starting", "started", "closing"}
  /\ poller \in {"off", "starting", "checking", "polling", "handling", "returned"}
  /\ offset \in 0 .. Updates + 1 /\ batch \in Seq(Ids) /\ sink \in BOOLEAN
  /\ turns \in [Ids -> {"none", "queued", "running", "reply"}] /\ outbox \in Seq(Ids)
  /\ refused \subseteq Ids /\ ran \subseteq Ids \X Nat /\ replies \in [Ids -> Nat]

Init ==
  /\ sent = 0 /\ confirmed = 0
  /\ record = [u \in Ids |-> "none"]
  /\ life = 0 /\ gateway = "off" /\ poller = "off" /\ offset = 0
  /\ batch = <<>> /\ handled = 0 /\ sink = FALSE /\ turns = [u \in Ids |-> "none"] /\ outbox = <<>>
  /\ troubles = 0
  /\ refused = {} /\ ran = {} /\ replies = [u \in Ids |-> 0]

UserSends ==
  /\ sent < Updates
  /\ sent' = sent + 1
  /\ UNCHANGED <<confirmed, turnVars, life, gateway, pollVars, sink, troubles, ghostVars>>

Trouble == troubles < MaxTroubles /\ troubles' = troubles + 1

-----------------------------------------------------------------------------
(* smidja gateway: the transport's goroutine first, then the gateway.      *)

Launch ==
  /\ gateway = "off" /\ life < MaxLives
  /\ life' = life + 1 /\ gateway' = "starting" /\ poller' = "starting"
  /\ UNCHANGED <<telegramVars, turnVars, offset, batch, handled, sink, troubles, ghostVars>>

\* Gateway.Start: what is accepted in the journal is submitted to its actor again.
GatewayStarts ==
  /\ gateway = "starting"
  /\ gateway' = "started"
  /\ turns' = [u \in Ids |-> IF record[u] = "accepted" THEN "queued" ELSE turns[u]]
  /\ UNCHANGED <<telegramVars, record, outbox, life, pollVars, sink, troubles, ghostVars>>

\* Gateway.Shutdown: Submit refuses from here on, the turns are cancelled; the transport
\* goes on polling until the gateway is down.
ShutdownBegins ==
  /\ gateway = "started"
  /\ gateway' = "closing"
  /\ UNCHANGED <<telegramVars, turnVars, life, pollVars, sink, troubles, ghostVars>>

\* The process ends: all turns and replies are dealt with, or it is killed.
ProcessEnds(killed) ==
  /\ gateway # "off"
  /\ \/ killed
     \/ gateway = "closing" /\ outbox = <<>> /\ \A u \in Ids : turns[u] = "none"
  /\ gateway' = "off" /\ poller' = "off" /\ offset' = 0 /\ batch' = <<>>
  /\ handled' = 0 /\ sink' = FALSE
  /\ turns' = [u \in Ids |-> "none"] /\ outbox' = <<>>
  /\ UNCHANGED <<telegramVars, record, life, troubles, ghostVars>>

-----------------------------------------------------------------------------
(* Telegram.Start and pollLoop.                                            *)

Registers ==
  /\ poller = "starting"
  /\ poller' = "checking" /\ sink' = TRUE
  /\ UNCHANGED <<telegramVars, turnVars, life, gateway, offset, batch, handled, troubles,
                 ghostVars>>

\* getMe and deleteWebhook; when one fails, Start returns and nothing starts it again.
Checks ==
  /\ poller = "checking"
  /\ \/ poller' = "polling" /\ UNCHANGED <<sink, troubles>>
     \/ poller' = "returned" /\ sink' = FALSE /\ Trouble
  /\ UNCHANGED <<telegramVars, turnVars, life, gateway, offset, batch, handled, ghostVars>>

\* getUpdates: Telegram forgets what is below the offset and answers with the rest, if the
\* request reaches it; the answer may be lost, and is asked for again.
Fetch ==
  /\ poller = "polling"
  /\ confirmed' = IF offset = 0 THEN confirmed ELSE Larger(confirmed, offset - 1)
  /\ handled' = 0
  /\ \/ /\ batch' = [i \in 1 .. (sent - confirmed') |-> confirmed' + i]
        /\ poller' = IF batch' = <<>> THEN "polling" ELSE "handling"
        /\ UNCHANGED troubles
     \/ Trouble /\ batch' = <<>> /\ UNCHANGED poller
  /\ UNCHANGED <<sent, turnVars, life, gateway, offset, sink, ghostVars>>

Refuse(u) == refused' = refused \cup {u}

\* Submit refuses when the gateway is not started, over a limit or unable to write the
\* journal; an accepted message whose mailbox is full is cancelled; pollLoop forgets the
\* error in all cases.
MutantHandle ==   \* MUTANT of Handle: a message that has a record is accepted again
  /\ poller = "handling" /\ handled < Len(batch)
  /\ handled' = handled + 1
  /\ LET u == batch[handled + 1] IN
       /\ gateway = "started" /\ turns[u] = "none"
       /\ record' = [record EXCEPT ![u] = "accepted"]
       /\ turns' = [turns EXCEPT ![u] = "queued"]
  /\ UNCHANGED <<telegramVars, outbox, life, gateway, poller, offset, batch, sink, troubles,
                 ghostVars>>
Handle ==
  /\ poller = "handling" /\ handled < Len(batch)
  /\ handled' = handled + 1
  /\ LET u == batch[handled + 1] IN
       \/ /\ gateway # "started"
          /\ Refuse(u)
          /\ UNCHANGED <<record, turns, troubles>>
       \/ /\ gateway = "started" /\ Trouble
          /\ Refuse(u)
          /\ UNCHANGED <<record, turns>>
       \/ /\ gateway = "started" /\ record[u] # "none"
          /\ UNCHANGED <<record, turns, troubles, refused>>
       \/ /\ gateway = "started" /\ record[u] = "none"
          /\ record' = [record EXCEPT ![u] = "accepted"]
          /\ turns' = [turns EXCEPT ![u] = "queued"]
          /\ UNCHANGED <<troubles, refused>>
       \/ /\ gateway = "started" /\ record[u] = "none" /\ Trouble
          /\ record' = [record EXCEPT ![u] = "cancelled"]
          /\ Refuse(u)
          /\ UNCHANGED turns
  /\ UNCHANGED <<telegramVars, outbox, life, gateway, poller, offset, batch, sink, ran,
                 replies>>

\* The offset moves when the whole batch was handled.
BatchDone ==
  /\ poller = "handling" /\ handled = Len(batch)
  /\ poller' = "polling" /\ offset' = batch[Len(batch)] + 1
  /\ UNCHANGED <<telegramVars, turnVars, life, gateway, batch, handled, sink, troubles,
                 ghostVars>>

-----------------------------------------------------------------------------
(* Actor.process: the record before the run, its outcome before the reply. *)

RunTurn(u) ==
  /\ gateway = "started" /\ turns[u] = "queued"
  /\ record' = [record EXCEPT ![u] = "started"]
  /\ turns' = [turns EXCEPT ![u] = "running"]
  /\ ran' = ran \cup {<<u, life>>}
  /\ UNCHANGED <<telegramVars, outbox, life, gateway, pollVars, sink, troubles, refused,
                 replies>>

SettleTurn(u) ==
  /\ \/ turns[u] = "running" /\ record' = [record EXCEPT ![u] = "settled"]
     \/ /\ gateway = "closing" /\ turns[u] = "queued"
        /\ record' = [record EXCEPT ![u] = "cancelled"]
  /\ turns' = [turns EXCEPT ![u] = "reply"]
  /\ UNCHANGED <<telegramVars, outbox, life, gateway, pollVars, sink, troubles, ghostVars>>

Reply(u) ==
  /\ turns[u] = "reply"
  /\ turns' = [turns EXCEPT ![u] = "none"] /\ outbox' = Append(outbox, u)
  /\ UNCHANGED <<telegramVars, record, life, gateway, pollVars, sink, troubles, ghostVars>>

\* routeDelivery and Telegram.Deliver: no sink, no reply; an error of the request is dropped.
Dispatch ==
  /\ outbox # <<>>
  /\ outbox' = Tail(outbox)
  /\ \/ /\ sink
        /\ replies' = [replies EXCEPT ![Head(outbox)] = @ + 1]
        /\ UNCHANGED troubles
     \/ ~sink /\ UNCHANGED <<replies, troubles>>
     \/ sink /\ Trouble /\ UNCHANGED replies
  /\ UNCHANGED <<telegramVars, record, turns, life, gateway, pollVars, sink, refused, ran>>

Turn(u) == RunTurn(u) \/ SettleTurn(u) \/ Reply(u)

Next ==
  \/ UserSends \/ Launch \/ GatewayStarts \/ ShutdownBegins
  \/ \E killed \in BOOLEAN : ProcessEnds(killed)
  \/ Registers \/ Checks \/ Fetch \/ Handle \/ BatchDone \/ Dispatch
  \/ \E u \in Ids : Turn(u)

Spec == Init /\ [][Next]_vars

-----------------------------------------------------------------------------
(* Properties.                                                             *)

\* Telegram forgets no update before the gateway has put it into its journal or refused it
\* (which pollLoop takes for an answer), so a crash in the middle of a batch loses none.
ConfirmedWasHandled == \A u \in 1 .. confirmed : record[u] # "none" \/ u \in refused

\* An update that Telegram hands out again is not run again, in this process or the next, and
\* answered at most once, after its outcome was recorded.
RunAndAnsweredOnce ==
  \A u \in Ids :
    /\ \A r, s \in {t \in ran : t[1] = u} : r = s
    /\ replies[u] <= 1
    /\ replies[u] = 1 => record[u] \in {"settled", "cancelled"}

\* An update is handled before it is forgotten, and run and answered at most once.
UpdatesOnce == ConfirmedWasHandled /\ RunAndAnsweredOnce
===============================================================================
