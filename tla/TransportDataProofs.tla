------------------------- MODULE TransportDataProofs -------------------------
(*****************************************************************************)
(* What the components of TransportData keep true, proved for every value    *)
(* of their constants: one inductive invariant per component.                *)
(*****************************************************************************)
EXTENDS TransportData, FiniteSetTheorems, SequenceTheorems, WellFoundedInduction, TLAPS

-----------------------------------------------------------------------------
(* TelegramTransport: what the offset forgets, what a mailbox holds and what *)
(* waits to be sent all agree with the journal.                              *)

RecordStatuses == {"none", "accepted", "started", "settled", "cancelled"}
TurnPlaces == {"none", "queued", "running", "reply"}

TelegramTypes ==
  /\ sent \in 0 .. Updates /\ confirmed \in 0 .. sent /\ offset \in 0 .. sent + 1
  /\ record \in [Telegram!Ids -> RecordStatuses] /\ turns \in [Telegram!Ids -> TurnPlaces]
  /\ batch \in Seq(Telegram!Ids) /\ handled \in 0 .. Len(batch)
  /\ replyQueue \in Seq(Telegram!Ids) /\ refused \subseteq Telegram!Ids
  /\ replies \in [Telegram!Ids -> Nat]
  /\ life \in Nat /\ ran \subseteq Telegram!Ids \X Nat

UpdateHandled(u) == record[u] # "none" \/ u \in refused
UpdateSettled(u) == record[u] \in {"settled", "cancelled"}

\* What Telegram forgot, or will with the next request, was handled; a batch in hand follows
\* what it forgot without a hole.
Polling ==
  /\ \A u \in 1 .. confirmed : UpdateHandled(u)
  /\ \A u \in 1 .. offset - 1 : UpdateHandled(u)
  /\ poller = "handling" =>
       /\ Len(batch) > 0 /\ confirmed + Len(batch) <= sent
       /\ \A i \in 1 .. Len(batch) : batch[i] = confirmed + i
       /\ \A i \in 1 .. handled : UpdateHandled(batch[i])

\* A message waits only as long as its record says so, and runs after that is over.
Running ==
  \A u \in Telegram!Ids :
    /\ turns[u] = "queued" => record[u] = "accepted"
    /\ turns[u] = "running" => record[u] = "started"
    /\ record[u] \in {"none", "accepted"} => \A r \in ran : r[1] # u
    /\ \A r, s \in ran : r[1] = u /\ s[1] = u => r = s

\* An answer waits at its actor, or once in the queue, or was sent.
Answering ==
  /\ \A u \in Telegram!Ids : turns[u] = "reply" =>
       /\ UpdateSettled(u) /\ replies[u] = 0
       /\ \A i \in 1 .. Len(replyQueue) : replyQueue[i] # u
  /\ \A i \in 1 .. Len(replyQueue) : UpdateSettled(replyQueue[i]) /\ replies[replyQueue[i]] = 0
  /\ \A i, j \in 1 .. Len(replyQueue) : i < j => replyQueue[i] # replyQueue[j]
  /\ \A u \in Telegram!Ids : replies[u] \in {0, 1} /\ (replies[u] = 1 => UpdateSettled(u))

TelegramInv == TelegramTypes /\ Polling /\ Running /\ Answering

USE TelegramAssumption
USE DEF Telegram!Ids, RecordStatuses, TurnPlaces, Telegram!telegramVars, Telegram!pollVars,
    Telegram!turnVars, Telegram!ghostVars

\* The initial state: nothing was sent.
LEMMA TelegramInit == ASSUME Telegram!Init PROVE TelegramInv
BY DEF Telegram!Init, TelegramInv, TelegramTypes, Polling, Running, Answering, UpdateHandled,
   UpdateSettled

\* A step that leaves the record, the turns and the answers alone.
LEMMA Untouched ==
  ASSUME TelegramInv, UNCHANGED <<Telegram!turnVars, ran, replies>>
  PROVE  Running' /\ Answering'
BY DEF TelegramInv, Running, Answering, UpdateSettled

\* A step that leaves the poller alone and takes back no record.
LEMMA PollerAlone ==
  ASSUME TelegramInv, UNCHANGED <<confirmed, Telegram!pollVars>>, sent' \in {sent, sent + 1},
         \A u \in Telegram!Ids : UpdateHandled(u) => UpdateHandled(u)'
  PROVE  Polling'
<1>1. TelegramTypes /\ Polling
  BY DEF TelegramInv
<1>2. 1 .. confirmed \subseteq Telegram!Ids /\ 1 .. offset - 1 \subseteq Telegram!Ids
  BY <1>1 DEF TelegramTypes
<1>3. \A i \in 1 .. Len(batch) : batch[i] \in Telegram!Ids
  BY <1>1 DEF TelegramTypes
<1>4. 1 .. handled \subseteq 1 .. Len(batch)
  BY <1>1 DEF TelegramTypes
<1>5. \A u \in 1 .. confirmed : UpdateHandled(u)'
  BY <1>1, <1>2 DEF Polling
<1>6. \A u \in 1 .. offset - 1 : UpdateHandled(u)'
  BY <1>1, <1>2 DEF Polling
<1>7. poller = "handling" => \A i \in 1 .. handled : UpdateHandled(batch[i])'
  BY <1>1, <1>3, <1>4 DEF Polling, UpdateHandled
<1>8. poller = "handling" => confirmed + Len(batch) <= sent'
  <2>1. confirmed \in Nat /\ sent \in Nat /\ Len(batch) \in Nat
    BY <1>1 DEF TelegramTypes
  <2> QED BY <1>1, <2>1 DEF Polling
<1> QED BY <1>1, <1>5, <1>6, <1>7, <1>8 DEF Polling, UpdateHandled

-----------------------------------------------------------------------------
(* The users, the process and the poller.                                  *)

\* A new message changes only what Telegram holds.
LEMMA UserSendsInv == ASSUME TelegramInv, Telegram!UserSends PROVE TelegramInv'
<1>1. TelegramTypes'
  BY DEF TelegramInv, TelegramTypes, Telegram!UserSends
<1>2. Polling'
  BY PollerAlone DEF Telegram!UserSends, UpdateHandled
<1>3. Running' /\ Answering'
  BY Untouched DEF Telegram!UserSends
<1> QED BY <1>1, <1>2, <1>3 DEF TelegramInv

\* A process starts with empty mailboxes; the poller has not begun.
LEMMA LaunchInv == ASSUME TelegramInv, Telegram!Launch PROVE TelegramInv'
<1>1. TelegramTypes'
  BY DEF TelegramInv, TelegramTypes, Telegram!Launch
<1>2. Polling'
  BY DEF TelegramInv, Polling, UpdateHandled, Telegram!Launch
<1>3. Running' /\ Answering'
  BY Untouched DEF Telegram!Launch
<1> QED BY <1>1, <1>2, <1>3 DEF TelegramInv

\* What is queued again is accepted, so it never ran.
LEMMA GatewayStartsInv == ASSUME TelegramInv, Telegram!GatewayStarts PROVE TelegramInv'
<1>1. TelegramTypes'
  BY DEF TelegramInv, TelegramTypes, Telegram!GatewayStarts
<1>2. Polling'
  BY PollerAlone DEF Telegram!GatewayStarts, UpdateHandled
<1>3. \A u \in Telegram!Ids : turns'[u] = IF record[u] = "accepted" THEN "queued" ELSE turns[u]
  BY DEF Telegram!GatewayStarts
<1>4. Running'
  BY <1>3 DEF TelegramInv, Running, Telegram!GatewayStarts
<1>5. Answering'
  BY <1>3 DEF TelegramInv, Answering, UpdateSettled, Telegram!GatewayStarts
<1> QED BY <1>1, <1>2, <1>4, <1>5 DEF TelegramInv

\* Shutdown only begins: the poller and the journal go on as before.
LEMMA ShutdownBeginsInv == ASSUME TelegramInv, Telegram!ShutdownBegins PROVE TelegramInv'
<1>1. TelegramTypes'
  BY DEF TelegramInv, TelegramTypes, Telegram!ShutdownBegins
<1>2. Polling'
  BY PollerAlone DEF Telegram!ShutdownBegins, UpdateHandled
<1>3. Running' /\ Answering'
  BY Untouched DEF Telegram!ShutdownBegins
<1> QED BY <1>1, <1>2, <1>3 DEF TelegramInv

\* The offset, the mailboxes and the queued answers go with the process; the journal stays.
LEMMA ProcessEndsInv ==
  ASSUME TelegramInv, NEW killed \in BOOLEAN, Telegram!ProcessEnds(killed)
  PROVE  TelegramInv'
<1>1. TelegramTypes'
  BY DEF TelegramInv, TelegramTypes, Telegram!ProcessEnds
<1>2. Polling'
  BY DEF TelegramInv, Polling, UpdateHandled, Telegram!ProcessEnds
<1>3. Running'
  BY DEF TelegramInv, Running, Telegram!ProcessEnds
<1>4. Answering'
  BY DEF TelegramInv, Answering, UpdateSettled, Telegram!ProcessEnds
<1> QED BY <1>1, <1>2, <1>3, <1>4 DEF TelegramInv

\* The poller begins without an offset, so it claims nothing.
LEMMA RegistersInv == ASSUME TelegramInv, Telegram!Registers PROVE TelegramInv'
<1>1. TelegramTypes'
  BY DEF TelegramInv, TelegramTypes, Telegram!Registers
<1>2. Polling'
  BY DEF TelegramInv, Polling, UpdateHandled, Telegram!Registers
<1>3. Running' /\ Answering'
  BY Untouched DEF Telegram!Registers
<1> QED BY <1>1, <1>2, <1>3 DEF TelegramInv

\* The look at the context leaves an offset that claims only what was handled.
LEMMA ChecksInv == ASSUME TelegramInv, Telegram!Checks PROVE TelegramInv'
<1>1. TelegramTypes'
  BY DEF TelegramInv, TelegramTypes, Telegram!Checks
<1>2. Polling'
  BY DEF TelegramInv, Polling, UpdateHandled, Telegram!Checks
<1>3. Running' /\ Answering'
  BY Untouched DEF Telegram!Checks
<1> QED BY <1>1, <1>2, <1>3 DEF TelegramInv

\* What Telegram answers with: the updates above the confirmed ones, without a hole.
LEMMA RestOf ==
  ASSUME NEW a \in Nat, NEW b \in Nat, a <= b, b <= Updates, NEW rest,
         rest = [i \in 1 .. (b - a) |-> a + i]
  PROVE  /\ rest \in Seq(Telegram!Ids) /\ Len(rest) = b - a /\ a + Len(rest) <= b
         /\ \A i \in 1 .. Len(rest) : rest[i] = a + i
<1>1. b - a \in Nat
  OBVIOUS
<1>2. \A i \in 1 .. (b - a) : a + i \in Telegram!Ids
  BY <1>1
<1>3. rest \in Seq(Telegram!Ids) /\ Len(rest) = b - a
  BY <1>1, <1>2
<1> QED BY <1>3

\* Telegram forgets what is below the offset: all of it was handled.
LEMMA FetchInv == ASSUME TelegramInv, Telegram!Fetch PROVE TelegramInv'
<1>1. TelegramTypes /\ Polling
  BY DEF TelegramInv
<1>2. /\ confirmed' \in Nat /\ sent \in Nat
      /\ confirmed' <= sent /\ sent <= Updates
      /\ confirmed' \in 0 .. sent
  BY <1>1 DEF TelegramTypes, Telegram!Fetch, Telegram!Larger
<1>3. \A u \in 1 .. confirmed' : UpdateHandled(u)
  BY <1>1 DEF TelegramTypes, Polling, Telegram!Fetch, Telegram!Larger
<1>4. batch' \in Seq(Telegram!Ids)
  <2>1. CASE batch' = <<>>
    BY <2>1
  <2>2. CASE batch' = [i \in 1 .. (sent - confirmed') |-> confirmed' + i]
    BY <1>2, <2>2, RestOf
  <2> QED BY <2>1, <2>2 DEF Telegram!Fetch
<1>5. TelegramTypes'
  <2>1. handled' \in 0 .. Len(batch')
    BY <1>4 DEF Telegram!Fetch
  <2>2. sent' = sent /\ UNCHANGED <<offset, record, turns, replyQueue, refused, replies, life,
      ran>>
    BY DEF Telegram!Fetch
  <2> QED BY <1>1, <1>2, <1>4, <2>1, <2>2 DEF TelegramTypes
<1>6. Polling'
  <2>1. \A u \in 1 .. confirmed' : UpdateHandled(u)'
    BY <1>3 DEF UpdateHandled, Telegram!Fetch
  <2>2. \A u \in 1 .. offset' - 1 : UpdateHandled(u)'
    BY <1>1 DEF Polling, UpdateHandled, Telegram!Fetch
  <2>3. ASSUME poller' = "handling"
        PROVE  /\ Len(batch') > 0 /\ confirmed' + Len(batch') <= sent'
               /\ \A i \in 1 .. Len(batch') : batch'[i] = confirmed' + i
    <3>1. batch' = [i \in 1 .. (sent - confirmed') |-> confirmed' + i] /\ batch' # <<>>
      BY <2>3 DEF Telegram!Fetch
    <3>2. /\ confirmed' + Len(batch') <= sent
          /\ \A i \in 1 .. Len(batch') : batch'[i] = confirmed' + i
      BY <1>2, <3>1, RestOf
    <3>3. Len(batch') # 0 /\ Len(batch') \in Nat
      BY <1>4, <3>1, EmptySeq
    <3>4. sent' = sent
      BY DEF Telegram!Fetch
    <3>5. Len(batch') > 0
      BY <3>3
    <3> QED BY <3>2, <3>4, <3>5
  <2>4. handled' = 0
    BY DEF Telegram!Fetch
  <2> QED BY <2>1, <2>2, <2>3, <2>4 DEF Polling, UpdateHandled
<1>7. Running' /\ Answering'
  BY Untouched DEF Telegram!Fetch
<1> QED BY <1>5, <1>6, <1>7 DEF TelegramInv

\* A batch has no hole, so what lies below the new offset was handled.
LEMMA BatchDoneInv == ASSUME TelegramInv, Telegram!BatchDone PROVE TelegramInv'
<1>1. TelegramTypes /\ Polling
  BY DEF TelegramInv
<1>2. Len(batch) \in Nat /\ Len(batch) > 0 /\ batch[Len(batch)] = confirmed + Len(batch)
  BY <1>1 DEF TelegramTypes, Polling, Telegram!BatchDone
<1>3. batch[Len(batch)] \in 1 .. sent
  <2>1. confirmed \in Nat /\ sent \in Nat
    BY <1>1 DEF TelegramTypes
  <2>2. confirmed + Len(batch) <= sent
    BY <1>1 DEF Polling, Telegram!BatchDone
  <2> QED BY <1>2, <2>1, <2>2
<1>4. TelegramTypes'
  <2>1. offset' \in 0 .. sent + 1
    <3>1. sent \in Nat
      BY <1>1 DEF TelegramTypes
    <3> QED BY <1>3, <3>1 DEF Telegram!BatchDone
  <2>2. UNCHANGED <<Telegram!telegramVars, record, turns, batch, handled, replyQueue, refused,
      replies, life,
                    ran>>
    BY DEF Telegram!BatchDone
  <2> QED BY <1>1, <2>1, <2>2 DEF TelegramTypes
<1>5. \A u \in 1 .. batch[Len(batch)] : UpdateHandled(u)
  <2> SUFFICES ASSUME NEW u \in 1 .. batch[Len(batch)] PROVE UpdateHandled(u)
    OBVIOUS
  <2>1. CASE u <= confirmed
    BY <1>1, <1>2, <2>1 DEF TelegramTypes, Polling
  <2>2. CASE u > confirmed
    <3>1. u - confirmed \in 1 .. Len(batch) /\ confirmed + (u - confirmed) = u
      BY <1>1, <1>2, <2>2 DEF TelegramTypes
    <3>2. batch[u - confirmed] = u
      BY <1>1, <3>1 DEF Polling, Telegram!BatchDone
    <3> QED BY <1>1, <3>1, <3>2 DEF Polling, Telegram!BatchDone
  <2> QED BY <1>1, <1>2, <2>1, <2>2 DEF TelegramTypes
<1>6. Polling'
  BY <1>1, <1>3, <1>5 DEF Polling, UpdateHandled, Telegram!BatchDone
<1>7. Running' /\ Answering'
  BY Untouched DEF Telegram!BatchDone
<1> QED BY <1>4, <1>6, <1>7 DEF TelegramInv

\* A step that settles more updates but moves no answer.
LEMMA SettledStays ==
  ASSUME TelegramTypes, Answering, UNCHANGED <<replyQueue, replies>>,
         \A v \in Telegram!Ids : UpdateSettled(v) => UpdateSettled(v)',
         \A v \in Telegram!Ids : turns'[v] = "reply" => turns[v] = "reply"
  PROVE  Answering'
<1>1. \A i \in 1 .. Len(replyQueue) : replyQueue[i] \in Telegram!Ids
  BY DEF TelegramTypes
<1>2. \A i \in 1 .. Len(replyQueue) : UpdateSettled(replyQueue[i])'
  BY <1>1 DEF Answering, UpdateSettled
<1> QED BY <1>2 DEF Answering, UpdateSettled

\* Every way Submit answers leaves the update with a record or refused; only an update without
\* a record is accepted.
LEMMA HandleInv == ASSUME TelegramInv, Telegram!Handle PROVE TelegramInv'
<1>1. TelegramTypes /\ Polling /\ Running /\ Answering
  BY DEF TelegramInv
<1>2. PICK u \in Telegram!Ids : u = batch[handled + 1] /\ handled + 1 \in 1 .. Len(batch)
  BY <1>1 DEF TelegramTypes, Telegram!Handle
<1>3. UNCHANGED <<Telegram!telegramVars, replyQueue, life, poller, offset, batch, ran, replies>>
      /\ handled' = handled + 1
  BY DEF Telegram!Handle
<1>4. /\ \/ UNCHANGED <<record, turns>>
         \/ record[u] = "none" /\ record' = [record EXCEPT ![u] = "cancelled"]
            /\ UNCHANGED turns
         \/ record[u] = "none" /\ record' = [record EXCEPT ![u] = "accepted"]
            /\ turns' = [turns EXCEPT ![u] = "queued"]
      /\ refused' \in {refused, refused \cup {u}}
      /\ record'[u] # "none" \/ u \in refused'
  BY <1>1, <1>2 DEF TelegramTypes, Telegram!Handle, Telegram!Refuse
<1>5. \A v \in Telegram!Ids : UpdateHandled(v) => UpdateHandled(v)'
  BY <1>1, <1>2, <1>4 DEF TelegramTypes, UpdateHandled
<1>6. TelegramTypes'
  <2>1. /\ record' \in [Telegram!Ids -> RecordStatuses]
        /\ turns' \in [Telegram!Ids -> TurnPlaces] /\ refused' \subseteq Telegram!Ids
    BY <1>1, <1>2, <1>4 DEF TelegramTypes
  <2>2. handled' \in 0 .. Len(batch)
    BY <1>1, <1>2, <1>3 DEF TelegramTypes
  <2> QED BY <1>1, <1>3, <2>1, <2>2 DEF TelegramTypes
<1>7. Polling'
  <2>1. 1 .. confirmed \subseteq Telegram!Ids /\ 1 .. offset - 1 \subseteq Telegram!Ids
    BY <1>1 DEF TelegramTypes
  <2>2. /\ \A v \in 1 .. confirmed : UpdateHandled(v)'
        /\ \A v \in 1 .. offset - 1 : UpdateHandled(v)'
    BY <1>1, <1>5, <2>1 DEF Polling
  <2>3. ASSUME NEW i \in 1 .. handled + 1 PROVE UpdateHandled(batch[i])'
    <3>1. CASE i = handled + 1
      BY <1>2, <1>3, <1>4, <3>1 DEF UpdateHandled
    <3>2. CASE i # handled + 1
      <4>1. i \in 1 .. handled /\ i \in 1 .. Len(batch)
        BY <1>1, <3>2 DEF TelegramTypes
      <4>2. batch[i] \in Telegram!Ids
        BY <1>1, <4>1 DEF TelegramTypes
      <4>3. UpdateHandled(batch[i])
        BY <1>1, <4>1 DEF Polling, Telegram!Handle
      <4> QED BY <1>3, <1>5, <4>2, <4>3 DEF UpdateHandled
    <3> QED BY <3>1, <3>2
  <2>4. poller = "handling"
    BY DEF Telegram!Handle
  <2> QED BY <1>1, <1>3, <2>2, <2>3, <2>4 DEF Polling, UpdateHandled
<1>8. Running'
  <2>1. \A v \in Telegram!Ids : v # u => record'[v] = record[v] /\ turns'[v] = turns[v]
    BY <1>1, <1>4 DEF TelegramTypes
  <2>2. \/ record'[u] = record[u] /\ turns'[u] = turns[u]
        \/ record[u] = "none" /\ record'[u] = "cancelled" /\ turns'[u] = turns[u]
        \/ record[u] = "none" /\ record'[u] = "accepted" /\ turns'[u] = "queued"
    BY <1>1, <1>4 DEF TelegramTypes
  <2> QED BY <1>1, <1>3, <2>1, <2>2 DEF Running
<1>9. Answering'
  <2>1. \A v \in Telegram!Ids : UpdateSettled(v) => UpdateSettled(v)'
    BY <1>1, <1>4 DEF TelegramTypes, UpdateSettled
  <2>2. \A v \in Telegram!Ids : turns'[v] = "reply" => turns[v] = "reply"
    BY <1>1, <1>4 DEF TelegramTypes
  <2> QED BY <1>1, <1>3, <2>1, <2>2, SettledStays
<1> QED BY <1>6, <1>7, <1>8, <1>9 DEF TelegramInv

-----------------------------------------------------------------------------
(* The turns and the answers.                                              *)

\* The record says "started" before the run, and an accepted message has not run.
LEMMA RunTurnInv ==
  ASSUME TelegramInv, NEW u \in Telegram!Ids, Telegram!RunTurn(u)
  PROVE  TelegramInv'
<1>1. TelegramTypes /\ Running /\ Answering
  BY DEF TelegramInv
<1>2. /\ record' = [record EXCEPT ![u] = "started"] /\ turns' = [turns EXCEPT ![u] = "running"]
      /\ ran' = ran \cup {<<u, life>>} /\ record[u] = "accepted"
      /\ UNCHANGED <<Telegram!telegramVars, replyQueue, Telegram!pollVars, life, refused,
          replies>>
  BY <1>1 DEF Telegram!RunTurn, Running
<1>3. TelegramTypes'
  BY <1>1, <1>2 DEF TelegramTypes
<1>4. Polling'
  <2>1. \A v \in Telegram!Ids : UpdateHandled(v) => UpdateHandled(v)'
    BY <1>1, <1>2 DEF TelegramTypes, UpdateHandled
  <2> QED BY <1>2, <2>1, PollerAlone
<1>5. Running'
  <2> SUFFICES ASSUME NEW v \in Telegram!Ids
               PROVE  /\ turns'[v] = "queued" => record'[v] = "accepted"
                      /\ turns'[v] = "running" => record'[v] = "started"
                      /\ record'[v] \in {"none", "accepted"} => \A r \in ran' : r[1] # v
                      /\ \A r, s \in ran' : r[1] = v /\ s[1] = v => r = s
    BY DEF Running
  <2>1. CASE v = u
    BY <1>1, <1>2, <2>1 DEF TelegramTypes, Running
  <2>2. CASE v # u
    BY <1>1, <1>2, <2>2 DEF TelegramTypes, Running
  <2> QED BY <2>1, <2>2
<1>6. Answering'
  <2>1. \A v \in Telegram!Ids : UpdateSettled(v) => UpdateSettled(v)'
    BY <1>1, <1>2 DEF TelegramTypes, UpdateSettled
  <2>2. \A v \in Telegram!Ids : turns'[v] = "reply" => turns[v] = "reply"
    BY <1>1, <1>2 DEF TelegramTypes
  <2> QED BY <1>1, <1>2, <2>1, <2>2, SettledStays
<1> QED BY <1>3, <1>4, <1>5, <1>6 DEF TelegramInv

\* The outcome is recorded before there is an answer: nothing of this update was sent yet.
LEMMA SettleTurnInv ==
  ASSUME TelegramInv, NEW u \in Telegram!Ids, Telegram!SettleTurn(u)
  PROVE  TelegramInv'
<1>1. TelegramTypes /\ Running /\ Answering
  BY DEF TelegramInv
<1>2. /\ turns' = [turns EXCEPT ![u] = "reply"]
      /\ \E s \in {"settled", "cancelled"} : record' = [record EXCEPT ![u] = s]
      /\ record[u] \in {"accepted", "started"}
      /\ UNCHANGED <<Telegram!telegramVars, replyQueue, Telegram!pollVars, life, refused, ran,
          replies>>
  BY <1>1 DEF Telegram!SettleTurn, Running
<1>3. TelegramTypes'
  BY <1>1, <1>2 DEF TelegramTypes
<1>4. Polling'
  <2>1. \A v \in Telegram!Ids : UpdateHandled(v) => UpdateHandled(v)'
    BY <1>1, <1>2 DEF TelegramTypes, UpdateHandled
  <2> QED BY <1>2, <2>1, PollerAlone
<1>5. Running'
  BY <1>1, <1>2 DEF TelegramTypes, Running
<1>6. Answering'
  <2>1. ~UpdateSettled(u)
    BY <1>2 DEF UpdateSettled
  <2>2. replies[u] = 0 /\ \A i \in 1 .. Len(replyQueue) : replyQueue[i] # u
    BY <1>1, <2>1 DEF Answering
  <2>3. \A v \in Telegram!Ids :
          (UpdateSettled(v) => UpdateSettled(v)') /\ (v = u => UpdateSettled(v)')
    BY <1>1, <1>2 DEF TelegramTypes, UpdateSettled
  <2>4. \A v \in Telegram!Ids : turns'[v] = "reply" => turns[v] = "reply" \/ v = u
    BY <1>1, <1>2 DEF TelegramTypes
  <2>5. \A v \in Telegram!Ids : turns'[v] = "reply" =>
          UpdateSettled(v)' /\ replies[v] = 0 /\ \A i \in 1 .. Len(replyQueue) : replyQueue[i] # v
    BY <1>1, <2>2, <2>3, <2>4 DEF Answering
  <2>6. \A i \in 1 .. Len(replyQueue) : replyQueue[i] \in Telegram!Ids
    BY <1>1 DEF TelegramTypes
  <2>7. \A i \in 1 .. Len(replyQueue) : UpdateSettled(replyQueue[i])'
    BY <1>1, <1>2, <2>3, <2>6 DEF Answering, UpdateSettled
  <2> QED BY <1>1, <1>2, <2>3, <2>5, <2>7 DEF Answering, UpdateSettled
<1> QED BY <1>3, <1>4, <1>5, <1>6 DEF TelegramInv

\* The answer of a settled turn enters the queue of the sink once.
LEMMA ReplyInv ==
  ASSUME TelegramInv, NEW u \in Telegram!Ids, Telegram!Reply(u)
  PROVE  TelegramInv'
<1>1. TelegramTypes /\ Running /\ Answering
  BY DEF TelegramInv
<1>2. /\ turns[u] = "reply" /\ turns' = [turns EXCEPT ![u] = "none"]
      /\ replyQueue' = Append(replyQueue, u)
      /\ UNCHANGED <<Telegram!telegramVars, record, Telegram!pollVars, life, refused, ran,
          replies>>
  BY DEF Telegram!Reply
<1>3. TelegramTypes'
  BY <1>1, <1>2 DEF TelegramTypes
<1>4. Polling'
  BY <1>2, PollerAlone DEF UpdateHandled
<1>5. Running'
  BY <1>1, <1>2 DEF TelegramTypes, Running
<1>6. Answering'
  <2>1. /\ Len(replyQueue) \in Nat /\ Len(replyQueue') = Len(replyQueue) + 1
        /\ \A i \in 1 .. Len(replyQueue) : replyQueue'[i] = replyQueue[i]
        /\ replyQueue'[Len(replyQueue) + 1] = u
    BY <1>1, <1>2 DEF TelegramTypes
  <2>2. UpdateSettled(u) /\ replies[u] = 0 /\ \A i \in 1 .. Len(replyQueue) : replyQueue[i] # u
    BY <1>1, <1>2 DEF Answering
  <2>3. \A v \in Telegram!Ids : turns'[v] = "reply" => v # u /\ turns[v] = "reply"
    BY <1>1, <1>2 DEF TelegramTypes
  <2>4. \A i \in 1 .. Len(replyQueue') : i \in 1 .. Len(replyQueue) \/ i = Len(replyQueue) + 1
    BY <2>1
  <2> QED BY <1>1, <1>2, <2>1, <2>2, <2>3, <2>4 DEF Answering, UpdateSettled
<1> QED BY <1>3, <1>4, <1>5, <1>6 DEF TelegramInv

\* The head of the queue is sent, or dropped; it stands nowhere else.
LEMMA DispatchInv == ASSUME TelegramInv, Telegram!Dispatch PROVE TelegramInv'
<1>1. TelegramTypes /\ Running /\ Answering
  BY DEF TelegramInv
<1>u. PICK u : u = Head(replyQueue)
  OBVIOUS
<1>2. /\ replyQueue # <<>> /\ replyQueue' = Tail(replyQueue)
      /\ \/ UNCHANGED replies
         \/ replies' = [replies EXCEPT ![u] = @ + 1]
      /\ UNCHANGED <<Telegram!telegramVars, record, turns, Telegram!pollVars, life, refused, ran>>
  BY <1>u DEF Telegram!Dispatch
<1>3. /\ Len(replyQueue) \in Nat /\ 1 \in 1 .. Len(replyQueue)
      /\ u = replyQueue[1] /\ u \in Telegram!Ids
      /\ replyQueue' \in Seq(Telegram!Ids) /\ Len(replyQueue') = Len(replyQueue) - 1
      /\ \A i \in 1 .. Len(replyQueue') : replyQueue'[i] = replyQueue[i + 1]
  BY <1>u, <1>1, <1>2, EmptySeq, HeadTailProperties DEF TelegramTypes
<1>4. TelegramTypes'
  <2>1. replies \in [Telegram!Ids -> Nat]
    BY <1>1 DEF TelegramTypes
  <2>2. replies' \in [Telegram!Ids -> Nat]
    <3>1. CASE replies' = [replies EXCEPT ![u] = @ + 1]
      <4>1. replies[u] + 1 \in Nat /\ u \in Telegram!Ids
        BY <1>3, <2>1
      <4> QED BY <2>1, <3>1, <4>1
    <3>2. CASE UNCHANGED replies
      BY <2>1, <3>2
    <3> QED BY <1>2, <3>1, <3>2
  <2> QED BY <1>1, <1>2, <1>3, <2>2 DEF TelegramTypes
<1>5. Polling'
  BY <1>2, PollerAlone DEF UpdateHandled
<1>6. Running'
  BY <1>1, <1>2 DEF Running
<1>7. Answering'
  <2>1. UpdateSettled(u) /\ replies[u] = 0
    BY <1>1, <1>3 DEF Answering
  <2>2. \A i \in 1 .. Len(replyQueue') : i + 1 \in 1 .. Len(replyQueue) /\ 1 < i + 1
    BY <1>3
  <2>3. \A i \in 1 .. Len(replyQueue') : replyQueue'[i] # u
    BY <1>1, <1>3, <2>2 DEF Answering
  <2>4. \A v \in Telegram!Ids : turns[v] = "reply" => v # u
    BY <1>1, <1>3 DEF Answering
  <2>5. \A v \in Telegram!Ids : replies'[v] = replies[v] \/ (v = u /\ replies'[v] = 1)
    BY <1>1, <1>2, <1>3, <2>1 DEF TelegramTypes
  <2>6. \A i \in 1 .. Len(replyQueue') : replyQueue'[i] \in Telegram!Ids
    BY <1>3
  <2>7. \A v \in Telegram!Ids : turns'[v] = "reply" =>
          /\ UpdateSettled(v)' /\ replies'[v] = 0
          /\ \A i \in 1 .. Len(replyQueue') : replyQueue'[i] # v
    BY <1>1, <1>2, <1>3, <2>2, <2>4, <2>5 DEF Answering, UpdateSettled
  <2>8. \A i \in 1 .. Len(replyQueue') :
          UpdateSettled(replyQueue[i])' /\ replies'[replyQueue'[i]] = 0
    <3> SUFFICES ASSUME NEW i \in 1 .. Len(replyQueue')
                 PROVE  UpdateSettled(replyQueue[i])' /\ replies'[replyQueue'[i]] = 0
      OBVIOUS
    <3>1. UpdateSettled(replyQueue[i + 1]) /\ replies[replyQueue[i + 1]] = 0
      BY <1>1, <2>2 DEF Answering
    <3>2. /\ replyQueue'[i] = replyQueue[i + 1] /\ replyQueue'[i] # u
          /\ replyQueue'[i] \in Telegram!Ids
      BY <1>3, <2>3, <2>6
    <3>3. UpdateSettled(replyQueue[i])'
      BY <1>2, <3>1, <3>2 DEF UpdateSettled
    <3>4. replies'[replyQueue'[i]] = 0
      BY <2>5, <3>1, <3>2
    <3> QED BY <3>3, <3>4
  <2>9. \A i, j \in 1 .. Len(replyQueue') : i < j => replyQueue'[i] # replyQueue'[j]
    <3> SUFFICES ASSUME NEW i \in 1 .. Len(replyQueue'), NEW j \in 1 .. Len(replyQueue'), i < j
                 PROVE  replyQueue'[i] # replyQueue'[j]
      OBVIOUS
    <3>1. i + 1 \in 1 .. Len(replyQueue) /\ j + 1 \in 1 .. Len(replyQueue) /\ i + 1 < j + 1
      BY <1>3, <2>2
    <3>2. replyQueue[i + 1] # replyQueue[j + 1]
      BY <1>1, <3>1 DEF Answering
    <3> QED BY <1>3, <3>2
  <2>10. \A v \in Telegram!Ids : replies'[v] \in {0, 1} /\ (replies'[v] = 1 => UpdateSettled(v)')
    BY <1>1, <1>2, <2>1, <2>5 DEF Answering, UpdateSettled
  <2> QED BY <2>7, <2>8, <2>9, <2>10 DEF Answering, UpdateSettled
<1> QED BY <1>4, <1>5, <1>6, <1>7 DEF TelegramInv

-----------------------------------------------------------------------------
\* One case per action.
LEMMA TelegramStep == ASSUME TelegramInv, Telegram!Next \/ UNCHANGED telegramVars PROVE TelegramInv'
<1>1. CASE UNCHANGED telegramVars
  BY <1>1 DEF TelegramInv, TelegramTypes, Polling, Running, Answering, UpdateHandled,
              UpdateSettled, telegramVars
<1>2. CASE Telegram!Next
  <2>1. ASSUME NEW killed \in BOOLEAN, Telegram!ProcessEnds(killed) PROVE TelegramInv'
    BY <2>1, ProcessEndsInv
  <2>2. ASSUME NEW u \in Telegram!Ids, Telegram!Turn(u) PROVE TelegramInv'
    BY <2>2, RunTurnInv, SettleTurnInv, ReplyInv DEF Telegram!Turn
  <2> QED
    BY <1>2, <2>1, <2>2, UserSendsInv, LaunchInv, GatewayStartsInv, ShutdownBeginsInv,
       RegistersInv, ChecksInv, FetchInv, HandleInv, BatchDoneInv, DispatchInv DEF Telegram!Next
<1> QED BY <1>1, <1>2

\* The invariant speaks of every update that was confirmed, run or answered.
LEMMA TelegramImplies == ASSUME TelegramInv PROVE Telegram!UpdatesOnce
<1>1. Telegram!ConfirmedWasHandled
  BY DEF TelegramInv, Polling, UpdateHandled, Telegram!ConfirmedWasHandled
<1>2. Telegram!RunAndAnsweredOnce
  BY DEF TelegramInv, Running, Answering, UpdateSettled, Telegram!RunAndAnsweredOnce
<1> QED BY <1>1, <1>2 DEF Telegram!UpdatesOnce

HIDE TelegramAssumption
HIDE DEF Telegram!Ids, RecordStatuses, TurnPlaces, Telegram!telegramVars, Telegram!pollVars,
         Telegram!turnVars, Telegram!ghostVars

-----------------------------------------------------------------------------
(* Dispatcher: every delivery is counted, and those of one sender stay in    *)
(* order.                                                                    *)

USE DispatcherAssumption

Replies == [by : Senders, no : Nat]
Inside == {s \in Senders : sender[s] # "idle"}

DispatcherTypes ==
  /\ ch \in Seq(Replies) /\ given \in Seq(Replies)
  /\ sender \in [Senders -> {"idle", "first", "oldest", "second"}]
  /\ sending \in [Senders -> 0..MaxSends]
  /\ delivered \in Nat /\ dropped \in Nat /\ late \in Nat

\* Who was asked to send is inside Send, or its delivery is accounted for.
Balanced ==
  /\ IsFiniteSet(Dispatcher!Sent) /\ IsFiniteSet(Inside)
  /\ Cardinality(Dispatcher!Sent) = delivered + Len(ch) + dropped + late + Cardinality(Inside)

\* The deliveries of one sender in the order it was asked for them.
InOrder(c) ==
  \A i, j \in 1..Len(c) : i < j /\ c[i].by = c[j].by => c[i].no < c[j].no
Before(c, d) ==
  \A i \in 1..Len(c), j \in 1..Len(d) : c[i].by = d[j].by => c[i].no < d[j].no

\* What is in c comes before what its sender is about to put there.
Older(c) ==
  \A i \in 1..Len(c) :
    /\ c[i].no <= sending[c[i].by]
    /\ sender[c[i].by] # "idle" => c[i].no < sending[c[i].by]

Lined == InOrder(given) /\ InOrder(ch) /\ Before(given, ch) /\ Older(given) /\ Older(ch)

Quiet == sendStopped => \A s \in Senders : sender[s] = "idle"

DispatcherInv == DispatcherTypes /\ Balanced /\ Lined /\ Quiet

LEMMA DispatcherInit == Dispatcher!Init => DispatcherInv
<1> SUFFICES ASSUME Dispatcher!Init PROVE DispatcherInv
  OBVIOUS
<1> USE DEF Dispatcher!Init
<1>1. DispatcherTypes
  BY DEF DispatcherTypes
<1>2. Dispatcher!Sent = {} /\ Inside = {}
  BY DEF Dispatcher!Sent, Inside
<1>3. Balanced
  BY <1>2, FS_EmptySet DEF Balanced
<1>4. Lined /\ Quiet
  BY DEF Lined, Quiet, InOrder, Before, Older
<1> QED BY <1>1, <1>3, <1>4 DEF DispatcherInv

\* What leaves at the front.
LEMMA RestIs ==
  ASSUME NEW c \in Seq(Replies), c # <<>>
  PROVE  /\ Len(c) \in Nat \ {0} /\ Tail(c) \in Seq(Replies) /\ Len(Tail(c)) = Len(c) - 1
         /\ \A i \in 1..(Len(c) - 1) : Tail(c)[i] = c[i + 1] /\ i + 1 \in 1..Len(c)
         /\ Head(c) = c[1] /\ Head(c) \in Replies /\ 1 \in 1..Len(c)
OBVIOUS

LEMMA RestLined ==
  ASSUME Lined, ch \in Seq(Replies), ch # <<>>
  PROVE  InOrder(Tail(ch)) /\ Before(given, Tail(ch)) /\ Older(Tail(ch))
<1>1. /\ Len(ch) \in Nat \ {0} /\ Len(Tail(ch)) = Len(ch) - 1
      /\ \A i \in 1..(Len(ch) - 1) : Tail(ch)[i] = ch[i + 1] /\ i + 1 \in 1..Len(ch)
  BY RestIs
<1>2. InOrder(Tail(ch))
  BY <1>1 DEF Lined, InOrder
<1>3. Before(given, Tail(ch))
  BY <1>1 DEF Lined, Before
<1>4. Older(Tail(ch))
  BY <1>1 DEF Lined, Older
<1> QED BY <1>2, <1>3, <1>4

\* One more delivery behind the others.
LEMMA MoreIs ==
  ASSUME NEW c \in Seq(Replies), NEW d \in Replies
  PROVE  /\ Append(c, d) \in Seq(Replies) /\ Len(Append(c, d)) = Len(c) + 1
         /\ Len(c) \in Nat /\ Append(c, d)[Len(c) + 1] = d
         /\ \A i \in 1..Len(c) : Append(c, d)[i] = c[i]
         /\ \A i \in 1..(Len(c) + 1) : i # Len(c) + 1 => i \in 1..Len(c)
OBVIOUS

LEMMA MoreInOrder ==
  ASSUME NEW c \in Seq(Replies), NEW d \in Replies, InOrder(c),
         \A i \in 1..Len(c) : c[i].by = d.by => c[i].no < d.no
  PROVE  InOrder(Append(c, d))
<1> DEFINE e == Append(c, d)
<1>1. /\ Len(e) = Len(c) + 1 /\ Len(c) \in Nat /\ e[Len(c) + 1] = d
      /\ \A i \in 1..Len(c) : e[i] = c[i]
      /\ \A i \in 1..(Len(c) + 1) : i # Len(c) + 1 => i \in 1..Len(c)
  BY MoreIs
<1> HIDE DEF e
<1> SUFFICES ASSUME NEW i \in 1..Len(e), NEW j \in 1..Len(e), i < j, e[i].by = e[j].by
             PROVE  e[i].no < e[j].no
  BY DEF InOrder, e
<1>2. i \in 1..Len(c) /\ e[i] = c[i]
  BY <1>1
<1>3. CASE j = Len(c) + 1
  BY <1>1, <1>2, <1>3
<1>4. CASE j # Len(c) + 1
  BY <1>1, <1>2, <1>4 DEF InOrder
<1> QED BY <1>3, <1>4

\* A sender leaves Send.
LEMMA LeaveInside ==
  ASSUME DispatcherInv, NEW s \in Senders, sender[s] # "idle",
         sender' = [sender EXCEPT ![s] = "idle"]
  PROVE  /\ Inside' = Inside \ {s} /\ IsFiniteSet(Inside') /\ Cardinality(Inside) \in Nat
         /\ Cardinality(Inside') + 1 = Cardinality(Inside)
         /\ sender' \in [Senders -> {"idle", "first", "oldest", "second"}]
         /\ \A t \in Senders : t # s => sender'[t] = sender[t]
         /\ sender'[s] = "idle"
<1>1. sender \in [Senders -> {"idle", "first", "oldest", "second"}]
  BY DEF DispatcherInv, DispatcherTypes
<1>2. Inside' = Inside \ {s} /\ s \in Inside
  BY <1>1 DEF Inside
<1>3. IsFiniteSet(Inside)
  BY DEF DispatcherInv, Balanced
<1>4. /\ IsFiniteSet(Inside') /\ Cardinality(Inside') = Cardinality(Inside) - 1
      /\ Cardinality(Inside) \in Nat
  BY <1>2, <1>3, FS_RemoveElement, FS_CardinalityType
<1> QED BY <1>1, <1>2, <1>4

\* The sums of what a step of a sender leaves alone.
LEMMA SentStays ==
  ASSUME sending' = sending
  PROVE  Dispatcher!Sent' = Dispatcher!Sent
BY DEF Dispatcher!Sent

\* A sender is asked for one more.
LEMMA SentGrows ==
  ASSUME DispatcherInv, NEW s \in Senders, sending[s] < MaxSends,
         sending' = [sending EXCEPT ![s] = @ + 1]
  PROVE  /\ sending' \in [Senders -> 0..MaxSends] /\ sending'[s] = sending[s] + 1
         /\ \A t \in Senders : t # s => sending'[t] = sending[t]
         /\ IsFiniteSet(Dispatcher!Sent') /\ Cardinality(Dispatcher!Sent) \in Nat
         /\ Cardinality(Dispatcher!Sent') = Cardinality(Dispatcher!Sent) + 1
<1> DEFINE d == [by |-> s, no |-> sending[s] + 1]
<1>1. sending \in [Senders -> 0..MaxSends]
  BY DEF DispatcherInv, DispatcherTypes
<1>2. /\ sending' \in [Senders -> 0..MaxSends] /\ sending'[s] = sending[s] + 1
      /\ \A t \in Senders : t # s => sending'[t] = sending[t]
      /\ sending[s] \in Nat /\ sending[s] + 1 \in 1..MaxSends
  BY <1>1
<1>3. \A e \in [by : Senders, no : 1..MaxSends] :
        /\ e.by \in Senders /\ e.no \in Nat /\ sending[e.by] \in Nat
        /\ e.by = s /\ e.no = sending[s] + 1 => e = d
  BY <1>1
<1>4. d \in [by : Senders, no : 1..MaxSends] /\ d.by = s /\ d.no = sending[s] + 1
  BY <1>2
<1> HIDE DEF d
<1>5. d \notin Dispatcher!Sent
  BY <1>2, <1>4 DEF Dispatcher!Sent
<1>6. Dispatcher!Sent' = Dispatcher!Sent \cup {d}
  <2>1. \A e \in [by : Senders, no : 1..MaxSends] :
          e.no <= sending'[e.by] <=> e.no <= sending[e.by] \/ e = d
    <3> SUFFICES ASSUME NEW e \in [by : Senders, no : 1..MaxSends]
                 PROVE  e.no <= sending'[e.by] <=> e.no <= sending[e.by] \/ e = d
      OBVIOUS
    <3>1. CASE e.by = s
      BY <3>1, <1>2, <1>3, <1>4
    <3>2. CASE e.by # s
      BY <3>2, <1>2, <1>3, <1>4
    <3> QED BY <3>1, <3>2
  <2> QED BY <2>1, <1>4 DEF Dispatcher!Sent
<1>7. IsFiniteSet(Dispatcher!Sent)
  BY DEF DispatcherInv, Balanced
<1>8. /\ IsFiniteSet(Dispatcher!Sent') /\ Cardinality(Dispatcher!Sent) \in Nat
      /\ Cardinality(Dispatcher!Sent') = Cardinality(Dispatcher!Sent) + 1
  BY <1>5, <1>6, <1>7, FS_AddElement, FS_CardinalityType
<1> QED BY <1>2, <1>8

LEMMA RepliesIn ==
  ASSUME NEW c \in Seq(Replies), NEW i \in 1..Len(c)
  PROVE  c[i].by \in Senders /\ c[i].no \in Nat
<1>1. c[i] \in Replies
  OBVIOUS
<1> QED BY <1>1 DEF Replies

\* What is added on one side is added on the other.
LEMMA BothSides ==
  ASSUME NEW q \in Nat, NEW qq \in Nat, NEW k \in Nat, NEW kk \in Nat,
         NEW r \in Nat, NEW rr \in Nat, NEW a \in Nat, NEW b \in Nat, NEW c \in Nat,
         q = r + k, qq = q + a, kk + b = k + c, rr + c = r + a + b
  PROVE  qq = rr + kk
OBVIOUS

LEMMA FourIn ==
  ASSUME NEW a \in Nat, NEW b \in Nat, NEW c \in Nat, NEW d \in Nat
  PROVE  a + b + c + d \in Nat
OBVIOUS

\* `a` deliveries began, `b` senders came back and `c` set out.
Moved(a, b, c) ==
  /\ Cardinality(Dispatcher!Sent') = Cardinality(Dispatcher!Sent) + a
  /\ Cardinality(Inside') + b = Cardinality(Inside) + c
  /\ delivered' \in Nat /\ Len(ch') \in Nat /\ dropped' \in Nat /\ late' \in Nat
  /\ delivered' + Len(ch') + dropped' + late' + c
       = delivered + Len(ch) + dropped + late + a + b

LEMMA BalanceMoved ==
  ASSUME DispatcherTypes, Balanced, IsFiniteSet(Dispatcher!Sent'), IsFiniteSet(Inside'),
         NEW a \in Nat, NEW b \in Nat, NEW c \in Nat, Moved(a, b, c)
  PROVE  Balanced'
<1> DEFINE q == Cardinality(Dispatcher!Sent) qq == Cardinality(Dispatcher!Sent')
           k == Cardinality(Inside) kk == Cardinality(Inside')
           r == delivered + Len(ch) + dropped + late
           rr == delivered' + Len(ch') + dropped' + late'
<1>1. q \in Nat /\ qq \in Nat /\ k \in Nat /\ kk \in Nat
  BY FS_CardinalityType DEF Balanced
<1>2. r \in Nat /\ rr \in Nat
  <2>1. Len(ch) \in Nat
    BY DEF DispatcherTypes
  <2>2. delivered \in Nat /\ dropped \in Nat /\ late \in Nat
    BY DEF DispatcherTypes
  <2>3. delivered' \in Nat /\ Len(ch') \in Nat /\ dropped' \in Nat /\ late' \in Nat
    BY DEF Moved
  <2> QED BY <2>1, <2>2, <2>3, FourIn
<1>3. q = r + k /\ qq = q + a /\ kk + b = k + c /\ rr + c = r + a + b
  BY DEF Balanced, Moved
<1> HIDE DEF q, qq, k, kk, r, rr
<1>4. qq = rr + kk
  BY <1>1, <1>2, <1>3, BothSides
<1> QED BY <1>4 DEF Balanced, qq, rr, kk

\* The balance after a step, from what the step changed.
LEMMA BalanceKept ==
  ASSUME DispatcherTypes, Balanced, IsFiniteSet(Dispatcher!Sent'), IsFiniteSet(Inside'),
         NEW a \in Nat, NEW b \in Nat, NEW c \in Nat,
         Cardinality(Dispatcher!Sent') = Cardinality(Dispatcher!Sent) + a,
         Cardinality(Inside') + b = Cardinality(Inside) + c,
         delivered' \in Nat, Len(ch') \in Nat, dropped' \in Nat, late' \in Nat,
         delivered' + Len(ch') + dropped' + late' + c
           = delivered + Len(ch) + dropped + late + a + b
  PROVE  Balanced'
<1>1. Moved(a, b, c)
  BY DEF Moved
<1> QED BY <1>1, BalanceMoved

\* Put, by a sender that stands before one of its selects.
LEMMA PutKeeps ==
  ASSUME DispatcherInv, NEW s \in Senders, sender[s] # "idle", Dispatcher!Put(s),
         UNCHANGED <<sending, sendStopped, dropped, delivered, given, late>>
  PROVE  DispatcherInv'
<1> DEFINE d == Dispatcher!Delivery(s)
<1>1. DispatcherTypes /\ Balanced /\ Lined /\ Quiet
  BY DEF DispatcherInv
<1>2. /\ d \in Replies /\ d.by = s /\ d.no = sending[s]
      /\ ch' = Append(ch, d) /\ sender' = [sender EXCEPT ![s] = "idle"]
  BY <1>1 DEF Dispatcher!Put, Dispatcher!Delivery, DispatcherTypes, Replies
<1> HIDE DEF d
<1>3. /\ Inside' = Inside \ {s} /\ IsFiniteSet(Inside') /\ Cardinality(Inside) \in Nat
      /\ Cardinality(Inside') + 1 = Cardinality(Inside)
      /\ sender' \in [Senders -> {"idle", "first", "oldest", "second"}]
      /\ \A t \in Senders : t # s => sender'[t] = sender[t]
      /\ sender'[s] = "idle"
  BY <1>2, LeaveInside
<1>4. /\ ch \in Seq(Replies) /\ given \in Seq(Replies)
      /\ delivered \in Nat /\ dropped \in Nat /\ late \in Nat
      /\ sending \in [Senders -> 0..MaxSends]
  BY <1>1 DEF DispatcherTypes
<1>5. /\ ch' \in Seq(Replies) /\ Len(ch') = Len(ch) + 1 /\ Len(ch) \in Nat
      /\ ch'[Len(ch) + 1] = d /\ \A i \in 1..Len(ch) : ch'[i] = ch[i]
      /\ \A i \in 1..(Len(ch) + 1) : i # Len(ch) + 1 => i \in 1..Len(ch)
  BY <1>2, <1>4, MoreIs
<1>6. DispatcherTypes'
  BY <1>3, <1>4, <1>5 DEF DispatcherTypes
<1>7. Balanced'
  <2>1. Dispatcher!Sent' = Dispatcher!Sent
    BY SentStays
  <2>2. IsFiniteSet(Dispatcher!Sent') /\ Cardinality(Dispatcher!Sent) \in Nat
    BY <2>1, <1>1, FS_CardinalityType DEF Balanced
  <2>3. delivered' + Len(ch') + dropped' + late' + 0 = delivered + Len(ch) + dropped + late + 0 + 1
    BY <1>4, <1>5
  <2>4. Cardinality(Dispatcher!Sent') = Cardinality(Dispatcher!Sent) + 0
        /\ Cardinality(Inside') + 1 = Cardinality(Inside) + 0
    BY <2>1, <2>2, <1>3
  <2>5. dropped' \in Nat /\ Len(ch') \in Nat /\ delivered' \in Nat /\ late' \in Nat
    BY <1>4, <1>5
  <2> QED BY <2>2, <2>3, <2>4, <2>5, <1>1, <1>3, BalanceKept
<1>8. \A c \in Seq(Replies) : Older(c) => \A i \in 1..Len(c) : c[i].by = s => c[i].no < d.no
  BY <1>2 DEF Older
<1>9. \A c \in Seq(Replies) : Older(c) => \A i \in 1..Len(c) :
        /\ c[i].no <= sending[c[i].by]
        /\ sender'[c[i].by] # "idle" => c[i].no < sending[c[i].by]
  <2> SUFFICES ASSUME NEW c \in Seq(Replies), Older(c), NEW i \in 1..Len(c)
               PROVE  /\ c[i].no <= sending[c[i].by]
                      /\ sender'[c[i].by] # "idle" => c[i].no < sending[c[i].by]
    OBVIOUS
  <2>1. c[i].by \in Senders
    BY RepliesIn
  <2> QED BY <2>1, <1>3 DEF Older
<1>10. InOrder(ch')
  BY <1>1, <1>2, <1>4, <1>8, MoreInOrder DEF Lined
<1>11. Before(given, ch')
  BY <1>1, <1>2, <1>4, <1>5, <1>8 DEF Lined, Before
<1>12. Older(given)' /\ Older(ch)'
  <2>1. Older(given)'
    BY <1>1, <1>4, <1>9 DEF Lined, Older
  <2>2. \A i \in 1..Len(ch) : /\ ch[i].no <= sending[ch[i].by]
                              /\ sender'[ch[i].by] # "idle" => ch[i].no < sending[ch[i].by]
    BY <1>1, <1>4, <1>9 DEF Lined
  <2>3. d.no <= sending[d.by] /\ sender'[d.by] = "idle"
    BY <1>2, <1>3, <1>4
  <2>4. Older(ch)'
    <3> SUFFICES ASSUME NEW i \in 1..(Len(ch) + 1)
                 PROVE  /\ ch'[i].no <= sending[ch'[i].by]
                        /\ sender'[ch'[i].by] # "idle" => ch'[i].no < sending[ch'[i].by]
      BY <1>5 DEF Older
    <3>1. CASE i = Len(ch) + 1
      BY <3>1, <2>3, <1>5
    <3>2. CASE i # Len(ch) + 1
      BY <3>2, <2>2, <1>5
    <3> QED BY <3>1, <3>2
  <2> QED BY <2>1, <2>4
<1>13. Lined'
  BY <1>1, <1>10, <1>11, <1>12 DEF Lined, InOrder, Before
<1>14. Quiet'
  BY <1>1, <1>3 DEF Quiet
<1> QED BY <1>6, <1>7, <1>13, <1>14 DEF DispatcherInv

\* Steps that put nothing anywhere: a sender goes on, or gives up, maybe with the oldest.
LEMMA GoesOnKeeps ==
  ASSUME DispatcherInv, NEW s \in Senders, sender[s] # "idle", NEW a \in {"oldest", "second"},
         sender' = [sender EXCEPT ![s] = a],
         \/ UNCHANGED <<ch, dropped>>
         \/ ch # <<>> /\ ch' = Tail(ch) /\ dropped' = dropped + 1,
         UNCHANGED <<sending, sendStopped, delivered, given, late>>
  PROVE  DispatcherInv'
<1>1. DispatcherTypes /\ Balanced /\ Lined /\ Quiet
  BY DEF DispatcherInv
<1>2. /\ ch \in Seq(Replies) /\ given \in Seq(Replies)
      /\ delivered \in Nat /\ dropped \in Nat /\ late \in Nat
      /\ sending \in [Senders -> 0..MaxSends]
      /\ sender \in [Senders -> {"idle", "first", "oldest", "second"}]
  BY <1>1 DEF DispatcherTypes
<1>3. /\ sender' \in [Senders -> {"idle", "first", "oldest", "second"}]
      /\ \A t \in Senders : sender'[t] = "idle" <=> sender[t] = "idle"
  BY <1>2
<1>4. Inside' = Inside
  BY <1>3 DEF Inside
<1>5. /\ ch' \in Seq(Replies) /\ dropped' \in Nat /\ dropped' + Len(ch') = dropped + Len(ch)
      /\ InOrder(ch') /\ Before(given, ch')
      /\ \A i \in 1..Len(ch') : ch'[i].by \in Senders
           /\ ch'[i].no <= sending[ch'[i].by]
           /\ (sender[ch'[i].by] # "idle" => ch'[i].no < sending[ch'[i].by])
  <2>1. CASE UNCHANGED <<ch, dropped>>
    <3>1. \A i \in 1..Len(ch) : ch[i].by \in Senders
      BY <1>2, RepliesIn
    <3> QED BY <2>1, <3>1, <1>1, <1>2 DEF Lined, Older
  <2>2. CASE ch # <<>> /\ ch' = Tail(ch) /\ dropped' = dropped + 1
    <3>1. Len(ch) \in Nat \ {0} /\ ch' \in Seq(Replies) /\ Len(ch') = Len(ch) - 1
      BY <2>2, <1>2, RestIs
    <3>2. InOrder(ch') /\ Before(given, ch') /\ Older(Tail(ch))
      BY <2>2, <1>1, <1>2, RestLined
    <3>3. \A i \in 1..Len(ch') : ch'[i].by \in Senders
      BY <3>1, RepliesIn
    <3>4. dropped' \in Nat /\ dropped' + Len(ch') = dropped + Len(ch)
      <4> DEFINE m == Len(ch) n == Len(ch')
      <4>1. m \in Nat \ {0} /\ n = m - 1 /\ dropped' = dropped + 1 /\ dropped \in Nat
        BY <3>1, <2>2, <1>2
      <4> HIDE DEF m, n
      <4>2. dropped' \in Nat /\ dropped' + n = dropped + m
        BY <4>1
      <4> QED BY <4>2 DEF m, n
    <3> QED BY <3>1, <3>2, <3>3, <3>4, <2>2 DEF Older
  <2> QED BY <2>1, <2>2
<1>6. DispatcherTypes'
  BY <1>2, <1>3, <1>5 DEF DispatcherTypes
<1>7. Balanced'
  <2>1. Dispatcher!Sent' = Dispatcher!Sent
    BY SentStays
  <2>2. Len(ch) \in Nat /\ Len(ch') \in Nat
    BY <1>2, <1>5
  <2>3. IsFiniteSet(Inside) /\ Cardinality(Inside) \in Nat
    BY <1>1, FS_CardinalityType DEF Balanced
  <2>4. IsFiniteSet(Dispatcher!Sent') /\ Cardinality(Dispatcher!Sent) \in Nat
    BY <2>1, <1>1, FS_CardinalityType DEF Balanced
  <2>5. /\ Cardinality(Dispatcher!Sent') = Cardinality(Dispatcher!Sent) + 0
        /\ Cardinality(Inside') + 0 = Cardinality(Inside) + 0
    BY <2>1, <2>3, <2>4, <1>4
  <2>6. delivered' + Len(ch') + dropped' + late' + 0 = delivered + Len(ch) + dropped + late + 0 + 0
    <3> DEFINE m == Len(ch) n == Len(ch') p == dropped q == dropped' r == delivered l == late
    <3>1. m \in Nat /\ n \in Nat /\ p \in Nat /\ q \in Nat /\ r \in Nat /\ l \in Nat
      BY <2>2, <1>2, <1>5
    <3>2. q + n = p + m
      BY <1>5
    <3> HIDE DEF m, n, p, q, r, l
    <3>3. r + n + q + l + 0 = r + m + p + l + 0 + 0
      BY <3>1, <3>2
    <3>4. delivered' = r /\ late' = l
      BY DEF r, l
    <3> QED BY <3>3, <3>4 DEF m, n, p, q, r, l
  <2> QED BY <2>2, <2>3, <2>4, <2>5, <2>6, <1>1, <1>2, <1>4, <1>5, BalanceKept
<1>8. Older(given)'
  <2>1. \A i \in 1..Len(given) : given[i].by \in Senders
    BY <1>2, RepliesIn
  <2> QED BY <2>1, <1>1, <1>3 DEF Lined, Older
<1>9. Lined'
  BY <1>1, <1>3, <1>5, <1>8 DEF Lined, InOrder, Before, Older
<1>10. Quiet'
  BY <1>1, <1>3 DEF Quiet
<1> QED BY <1>6, <1>7, <1>9, <1>10 DEF DispatcherInv

\* A delivery that found no room twice is dropped.
LEMMA GivesUpKeeps ==
  ASSUME DispatcherInv, NEW s \in Senders, sender[s] # "idle",
         sender' = [sender EXCEPT ![s] = "idle"], dropped' = dropped + 1,
         UNCHANGED <<ch, sending, sendStopped, delivered, given, late>>
  PROVE  DispatcherInv'
<1>1. DispatcherTypes /\ Balanced /\ Lined /\ Quiet
  BY DEF DispatcherInv
<1>2. /\ ch \in Seq(Replies) /\ given \in Seq(Replies)
      /\ delivered \in Nat /\ dropped \in Nat /\ late \in Nat /\ Len(ch) \in Nat
  BY <1>1 DEF DispatcherTypes
<1>3. /\ Inside' = Inside \ {s} /\ IsFiniteSet(Inside') /\ Cardinality(Inside) \in Nat
      /\ Cardinality(Inside') + 1 = Cardinality(Inside)
      /\ sender' \in [Senders -> {"idle", "first", "oldest", "second"}]
      /\ \A t \in Senders : t # s => sender'[t] = sender[t]
      /\ sender'[s] = "idle"
  BY LeaveInside
<1>4. DispatcherTypes'
  BY <1>1, <1>2, <1>3 DEF DispatcherTypes
<1>5. Balanced'
  <2>1. Dispatcher!Sent' = Dispatcher!Sent
    BY SentStays
  <2>2. IsFiniteSet(Dispatcher!Sent') /\ Cardinality(Dispatcher!Sent) \in Nat
    BY <2>1, <1>1, FS_CardinalityType DEF Balanced
  <2>3. delivered' + Len(ch') + dropped' + late' + 0 = delivered + Len(ch) + dropped + late + 0 + 1
    BY <1>2
  <2>4. Cardinality(Dispatcher!Sent') = Cardinality(Dispatcher!Sent) + 0
        /\ Cardinality(Inside') + 1 = Cardinality(Inside) + 0
    BY <2>1, <2>2, <1>3
  <2>5. dropped' \in Nat /\ Len(ch') \in Nat /\ delivered' \in Nat /\ late' \in Nat
    BY <1>2
  <2> QED BY <2>2, <2>3, <2>4, <2>5, <1>1, <1>3, BalanceKept
<1>6. \A c \in Seq(Replies) : Older(c) => \A i \in 1..Len(c) :
        /\ c[i].no <= sending[c[i].by]
        /\ sender'[c[i].by] # "idle" => c[i].no < sending[c[i].by]
  <2> SUFFICES ASSUME NEW c \in Seq(Replies), Older(c), NEW i \in 1..Len(c)
               PROVE  /\ c[i].no <= sending[c[i].by]
                      /\ sender'[c[i].by] # "idle" => c[i].no < sending[c[i].by]
    OBVIOUS
  <2>1. c[i].by \in Senders
    BY RepliesIn
  <2> QED BY <2>1, <1>3 DEF Older
<1>7. Older(given)' /\ Older(ch)'
  BY <1>1, <1>2, <1>6 DEF Lined, Older
<1>8. Lined'
  BY <1>1, <1>7 DEF Lined, InOrder, Before
<1>9. Quiet'
  BY <1>1, <1>3 DEF Quiet
<1> QED BY <1>4, <1>5, <1>8, <1>9 DEF DispatcherInv

LEMMA SendStep ==
  ASSUME DispatcherInv, NEW s \in Senders, Dispatcher!Send(s)
  PROVE  DispatcherInv'
<1>1. DispatcherTypes /\ Balanced /\ Lined /\ Quiet
  BY DEF DispatcherInv
<1>2. /\ ch \in Seq(Replies) /\ given \in Seq(Replies)
      /\ delivered \in Nat /\ dropped \in Nat /\ late \in Nat /\ Len(ch) \in Nat
      /\ sending \in [Senders -> 0..MaxSends]
      /\ sender \in [Senders -> {"idle", "first", "oldest", "second"}]
  BY <1>1 DEF DispatcherTypes
<1>3. /\ sender[s] = "idle" /\ UNCHANGED <<ch, sendStopped, dropped, delivered, given>>
      /\ \/ sendStopped /\ late' = late + 1 /\ sender' = sender
         \/ ~sendStopped /\ late' = late /\ sender' = [sender EXCEPT ![s] = "first"]
  BY DEF Dispatcher!Send
<1>4. /\ sending' \in [Senders -> 0..MaxSends] /\ sending'[s] = sending[s] + 1
      /\ \A t \in Senders : t # s => sending'[t] = sending[t]
      /\ IsFiniteSet(Dispatcher!Sent') /\ Cardinality(Dispatcher!Sent) \in Nat
      /\ Cardinality(Dispatcher!Sent') = Cardinality(Dispatcher!Sent) + 1
  BY SentGrows DEF Dispatcher!Send
<1>5. /\ sender' \in [Senders -> {"idle", "first", "oldest", "second"}]
      /\ \A t \in Senders : t # s => sender'[t] = sender[t]
      /\ late' \in Nat
  BY <1>2, <1>3
<1>6. DispatcherTypes'
  BY <1>2, <1>3, <1>4, <1>5 DEF DispatcherTypes
<1>7. Balanced'
  <2>1. IsFiniteSet(Inside) /\ Cardinality(Inside) \in Nat
    BY <1>1, FS_CardinalityType DEF Balanced
  <2>2. CASE sendStopped /\ late' = late + 1 /\ sender' = sender
    <3>1. Inside' = Inside
      BY <2>2 DEF Inside
    <3> QED BY <2>1, <2>2, <3>1, <1>1, <1>2, <1>3, <1>4 DEF Balanced
  <2>3. CASE ~sendStopped /\ late' = late /\ sender' = [sender EXCEPT ![s] = "first"]
    <3>1. Inside' = Inside \cup {s} /\ s \notin Inside
      BY <2>3, <1>2, <1>3 DEF Inside
    <3>2. IsFiniteSet(Inside') /\ Cardinality(Inside') = Cardinality(Inside) + 1
      BY <2>1, <3>1, FS_AddElement
    <3> QED BY <2>1, <2>3, <3>2, <1>1, <1>2, <1>3, <1>4 DEF Balanced
  <2> QED BY <2>2, <2>3, <1>3
<1>8. \A c \in Seq(Replies) : Older(c) => \A i \in 1..Len(c) :
        /\ c[i].no <= sending'[c[i].by]
        /\ sender'[c[i].by] # "idle" => c[i].no < sending'[c[i].by]
  <2> SUFFICES ASSUME NEW c \in Seq(Replies), Older(c), NEW i \in 1..Len(c)
               PROVE  /\ c[i].no <= sending'[c[i].by]
                      /\ sender'[c[i].by] # "idle" => c[i].no < sending'[c[i].by]
    OBVIOUS
  <2>1. c[i].by \in Senders /\ c[i].no \in Nat /\ c[i].no <= sending[c[i].by]
        /\ (sender[c[i].by] # "idle" => c[i].no < sending[c[i].by])
    BY RepliesIn DEF Older
  <2>2. CASE c[i].by = s
    BY <2>1, <2>2, <1>2, <1>4
  <2>3. CASE c[i].by # s
    BY <2>1, <2>3, <1>4, <1>5
  <2> QED BY <2>2, <2>3
<1>9. Older(given)' /\ Older(ch)'
  BY <1>1, <1>2, <1>3, <1>8 DEF Lined, Older
<1>10. Lined'
  BY <1>1, <1>3, <1>9 DEF Lined, InOrder, Before
<1>11. Quiet'
  BY <1>1, <1>3 DEF Quiet
<1> QED BY <1>6, <1>7, <1>10, <1>11 DEF DispatcherInv

LEMMA DeliverStep == DispatcherInv /\ Dispatcher!Run => DispatcherInv'
<1> SUFFICES ASSUME DispatcherInv, Dispatcher!Run PROVE DispatcherInv'
  OBVIOUS
<1>1. DispatcherTypes /\ Balanced /\ Lined /\ Quiet
  BY DEF DispatcherInv
<1>2. /\ ch \in Seq(Replies) /\ given \in Seq(Replies)
      /\ delivered \in Nat /\ dropped \in Nat /\ late \in Nat
      /\ sending \in [Senders -> 0..MaxSends]
  BY <1>1 DEF DispatcherTypes
<1>3. /\ ch # <<>> /\ ch' = Tail(ch) /\ delivered' = delivered + 1
      /\ given' = Append(given, Head(ch))
      /\ UNCHANGED <<sender, sending, sendStopped, dropped, late>>
  BY DEF Dispatcher!Run
<1>4. /\ Len(ch) \in Nat \ {0} /\ ch' \in Seq(Replies) /\ Len(ch') = Len(ch) - 1
      /\ \A i \in 1..(Len(ch) - 1) : ch'[i] = ch[i + 1] /\ i + 1 \in 1..Len(ch)
      /\ Head(ch) = ch[1] /\ Head(ch) \in Replies /\ 1 \in 1..Len(ch)
  BY <1>2, <1>3, RestIs
<1>5. /\ given' \in Seq(Replies) /\ Len(given') = Len(given) + 1
      /\ Len(given) \in Nat /\ given'[Len(given) + 1] = ch[1]
      /\ \A i \in 1..Len(given) : given'[i] = given[i]
      /\ \A i \in 1..(Len(given) + 1) : i # Len(given) + 1 => i \in 1..Len(given)
  BY <1>2, <1>3, <1>4, MoreIs
<1>6. DispatcherTypes'
  BY <1>1, <1>2, <1>3, <1>4, <1>5 DEF DispatcherTypes
<1>7. Balanced'
  <2>1. Inside' = Inside /\ Dispatcher!Sent' = Dispatcher!Sent
    BY <1>3, SentStays DEF Inside
  <2>2. IsFiniteSet(Inside) /\ Cardinality(Inside) \in Nat
    BY <1>1, FS_CardinalityType DEF Balanced
  <2> QED BY <2>1, <2>2, <1>1, <1>2, <1>3, <1>4 DEF Balanced
<1>8. InOrder(given')
  <2>1. \A i \in 1..Len(given) : given[i].by = ch[1].by => given[i].no < ch[1].no
    BY <1>1, <1>4 DEF Lined, Before
  <2> QED BY <2>1, <1>1, <1>2, <1>3, <1>4, MoreInOrder DEF Lined
<1>9. InOrder(ch') /\ Before(given, ch') /\ Older(Tail(ch))
  BY <1>1, <1>2, <1>3, RestLined
<1>10. Before(given', ch')
  <2> SUFFICES ASSUME NEW i \in 1..(Len(given) + 1), NEW j \in 1..Len(ch'),
                      given'[i].by = ch'[j].by
               PROVE  given'[i].no < ch'[j].no
    BY <1>5 DEF Before
  <2>1. CASE i = Len(given) + 1
    <3>1. j + 1 \in 1..Len(ch) /\ ch'[j] = ch[j + 1] /\ 1 < j + 1
      BY <1>4
    <3> QED BY <2>1, <3>1, <1>1, <1>4, <1>5 DEF Lined, InOrder
  <2>2. CASE i # Len(given) + 1
    BY <2>2, <1>5, <1>9 DEF Before
  <2> QED BY <2>1, <2>2
<1>11. Older(given') /\ Older(ch')
  <2>1. Older(ch')
    BY <1>3, <1>9
  <2>2. Older(given')
    BY <1>1, <1>4, <1>5 DEF Lined, Older
  <2> QED BY <2>1, <2>2
<1>12. Lined'
  BY <1>3, <1>8, <1>9, <1>10, <1>11 DEF Lined, InOrder, Before, Older
<1>13. Quiet'
  BY <1>1, <1>3 DEF Quiet
<1> QED BY <1>6, <1>7, <1>12, <1>13 DEF DispatcherInv

LEMMA DispatcherStep ==
  ASSUME DispatcherInv, Dispatcher!Next \/ UNCHANGED dispatcherVars
  PROVE  DispatcherInv'
<1>1. CASE UNCHANGED dispatcherVars \/ Dispatcher!Stop
  <2>1. /\ UNCHANGED <<ch, sender, sending, dropped, delivered, given, late>>
        /\ sendStopped' = sendStopped \/ \A s \in Senders : sender[s] = "idle"
    BY <1>1 DEF dispatcherVars, Dispatcher!Stop
  <2>2. DispatcherTypes'
    BY <2>1 DEF DispatcherInv, DispatcherTypes
  <2>3. Balanced'
    BY <2>1, SentStays DEF DispatcherInv, Balanced, Inside
  <2>4. Lined'
    BY <2>1 DEF DispatcherInv, Lined, InOrder, Before, Older
  <2>5. Quiet'
    BY <2>1 DEF DispatcherInv, Quiet
  <2> QED BY <2>2, <2>3, <2>4, <2>5 DEF DispatcherInv
<1>2. ASSUME NEW s \in Senders, Dispatcher!Send(s) PROVE DispatcherInv'
  BY <1>2, SendStep
<1>3. ASSUME NEW s \in Senders, Dispatcher!First(s) PROVE DispatcherInv'
  <2>1. CASE Len(ch) < Buffer
    BY <1>3, <2>1, PutKeeps DEF Dispatcher!First
  <2>2. CASE ~(Len(ch) < Buffer)
    BY <1>3, <2>2, GoesOnKeeps DEF Dispatcher!First
  <2> QED BY <2>1, <2>2
<1>4. ASSUME NEW s \in Senders, Dispatcher!Oldest(s) PROVE DispatcherInv'
  <2>1. CASE ch # <<>>
    BY <1>4, <2>1, GoesOnKeeps DEF Dispatcher!Oldest
  <2>2. CASE ch = <<>>
    BY <1>4, <2>2, GoesOnKeeps DEF Dispatcher!Oldest
  <2> QED BY <2>1, <2>2
<1>5. ASSUME NEW s \in Senders, Dispatcher!Second(s) PROVE DispatcherInv'
  <2>1. CASE Len(ch) < Buffer
    BY <1>5, <2>1, PutKeeps DEF Dispatcher!Second
  <2>2. CASE ~(Len(ch) < Buffer)
    BY <1>5, <2>2, GivesUpKeeps DEF Dispatcher!Second
  <2> QED BY <2>1, <2>2
<1>6. CASE Dispatcher!Run
  BY <1>6, DeliverStep
<1> QED BY <1>1, <1>2, <1>3, <1>4, <1>5, <1>6 DEF Dispatcher!Next

\* What was handled with what still waits, one behind the other.
LEMMA DispatcherImplies == DispatcherInv => Dispatcher!Accounted /\ Dispatcher!NoSendAfterClose
<1> SUFFICES ASSUME DispatcherInv
             PROVE  Dispatcher!Accounted /\ Dispatcher!NoSendAfterClose
  OBVIOUS
<1> DEFINE all == given \o ch
           g == Len(given)
<1>1. /\ ch \in Seq(Replies) /\ given \in Seq(Replies) /\ g \in Nat /\ Len(ch) \in Nat
  BY DEF DispatcherInv, DispatcherTypes
<1>2. /\ Len(all) = g + Len(ch)
      /\ \A i \in 1..g : all[i] = given[i]
      /\ \A i \in 1..Len(ch) : all[g + i] = ch[i]
  BY <1>1, ConcatProperties
<1>3. Lined
  BY DEF DispatcherInv
<1> HIDE DEF all
<1>4. \A i, j \in 1..Len(all) : i < j /\ all[i].by = all[j].by => all[i].no < all[j].no
  <2> SUFFICES ASSUME NEW i \in 1..Len(all), NEW j \in 1..Len(all), i < j, all[i].by = all[j].by
               PROVE  all[i].no < all[j].no
    OBVIOUS
  <2>1. i \in Nat /\ j \in Nat /\ 1 <= i /\ 1 <= j /\ i <= g + Len(ch) /\ j <= g + Len(ch)
    BY <1>1, <1>2
  <2>2. CASE j <= g
    <3>1. i \in 1..g /\ j \in 1..g
      BY <2>1, <2>2, <1>1
    <3> QED BY <3>1, <1>2, <1>3 DEF Lined, InOrder
  <2>3. CASE i <= g /\ ~(j <= g)
    <3>1. i \in 1..g /\ j - g \in 1..Len(ch) /\ g + (j - g) = j
      BY <2>1, <2>3, <1>1
    <3>2. all[i] = given[i] /\ all[j] = ch[j - g]
      BY <3>1, <1>2
    <3> QED BY <3>1, <3>2, <1>3 DEF Lined, Before
  <2>4. CASE ~(i <= g)
    <3>1. /\ i - g \in 1..Len(ch) /\ g + (i - g) = i /\ j - g \in 1..Len(ch) /\ g + (j - g) = j
          /\ i - g < j - g
      BY <2>1, <2>4, <1>1
    <3>2. all[i] = ch[i - g] /\ all[j] = ch[j - g]
      BY <3>1, <1>2
    <3> QED BY <3>1, <3>2, <1>3 DEF Lined, InOrder
  <2> QED BY <2>2, <2>3, <2>4
<1>5. Cardinality(Dispatcher!Sent) = delivered + Len(ch) + dropped + late
        + Cardinality({s \in Senders : sender[s] # "idle"})
  BY DEF DispatcherInv, Balanced, Inside
<1>6. LET a == given \o ch
      IN \A i, j \in 1..Len(a) : i < j /\ a[i].by = a[j].by => a[i].no < a[j].no
  BY <1>4 DEF all
<1>7. Dispatcher!Accounted
  BY <1>5, <1>6 DEF Dispatcher!Accounted, Dispatcher!Cardinality, Cardinality
<1> QED BY <1>7 DEF DispatcherInv, Quiet, Dispatcher!NoSendAfterClose

HIDE DispatcherAssumption

-----------------------------------------------------------------------------
(* Web: what a stream has not shown its page is on its way, lost by a full   *)
(* channel, or announced as a gap.                                           *)

USE WebAssumption

StreamStates == {"off", "opened", "subscribed", "hello", "gap", "replay", "live"}
HasRead == stream \in {"hello", "gap", "replay", "live"}
Numbers == Nat \ {0}
Within(q, s) == \E i \in 1..Len(s) : s[i] = q

WebTypes ==
  /\ seq \in Nat /\ Len(keys) = seq /\ keys \in Seq({Me, Other})
  /\ buf \in Seq(Numbers) /\ push \in [seq : Nat, target : BOOLEAN]
  /\ stream \in StreamStates /\ {since, url, last} \subseteq Int
  /\ chan \in Seq(Numbers) /\ shown \in Seq(Numbers)
  /\ view \in [oldest : Nat, latest : Nat, events : Seq(Numbers)]

\* The ring holds the last events, and none only if there was none.
Ring ==
  /\ Len(buf) <= seq /\ (Len(buf) = 0 => seq = 0)
  /\ \A i \in 1..Len(buf) : buf[i] = seq - Len(buf) + i

\* What is pushed and what was pushed ascend; only a stream that subscribed is pushed to.
Channel ==
  /\ push.target => Web!Subscribed /\ push.seq = seq /\ seq > 0
                    /\ \A i \in 1..Len(chan) : chan[i] < seq
  /\ \A i \in 1..Len(chan) : chan[i] <= seq
  /\ \A i, j \in 1..Len(chan) : i < j => chan[i] < chan[j]

\* What a stream has shown, of whom, and in which order.
Display ==
  /\ stream \in {"opened", "subscribed"} => shown = <<>>
  /\ \A i \in 1..Len(shown) : shown[i] <= seq
  /\ stream # "off" => \A i \in 1..Len(shown) : Web!Mine(shown[i])
  /\ HasRead =>
       /\ view.latest <= seq
       /\ \A i \in 1..Len(view.events) : view.events[i] <= view.latest
       /\ \A i \in 1..Len(shown), j \in 1..Len(chan) :
            chan[j] > view.latest => shown[i] < chan[j]
       /\ \A i, j \in 1..Len(shown) : i < j /\ shown[j] > view.latest => shown[i] < shown[j]
       /\ push.target => \A i \in 1..Len(shown) : shown[i] <= view.latest \/ shown[i] < seq

\* What was appended since the stream has read the ring.
Fresh ==
  HasRead =>
    \A q \in (view.latest + 1)..seq :
      Web!Mine(q) =>
        \/ Within(q, shown) \/ q \in overflow \/ Within(q, chan)
        \/ push.target /\ push.seq = q

\* What the ring held then, and what it had forgotten.
Read ==
  HasRead =>
    /\ \A q \in 1..view.latest :
         Web!Mine(q) /\ q > since /\ q >= view.oldest => Within(q, shown) \/ Within(q, view.events)
    /\ view.latest > 0 => view.oldest > 0
    /\ stream \in {"replay", "live"} /\ ~gap => ~(since >= 0 /\ since < view.oldest - 1)

WebInv == WebTypes /\ Ring /\ Channel /\ Display /\ Fresh /\ Read

LEMMA WebInit == Web!Init => WebInv
<1> SUFFICES ASSUME Web!Init PROVE WebInv
  OBVIOUS
<1> USE DEF Web!Init, Web!NoPush, Web!NoSnap, Web!Nothing, Web!NoParam
<1>1. WebTypes
  BY DEF WebTypes, StreamStates, Numbers
<1>2. Ring /\ Channel
  BY DEF Ring, Channel
<1>3. Display /\ Fresh /\ Read
  BY DEF Display, Fresh, Read, HasRead
<1> QED BY <1>1, <1>2, <1>3 DEF WebInv

\* A stream that is not there, or has not read the ring yet, owes its page nothing.
LEMMA NothingOwed ==
  ASSUME WebTypes', Ring',
         \/ stream' = "off"
         \/ stream' \in {"opened", "subscribed"} /\ shown' = <<>>,
         chan' = <<>>, ~push'.target, \A i \in 1..Len(shown') : shown'[i] <= seq'
  PROVE  WebInv'
<1>1. Channel'
  BY DEF Channel
<1>2. ~HasRead'
  BY DEF HasRead
<1>3. Display'
  BY <1>2 DEF Display
<1>4. Fresh' /\ Read'
  BY <1>2 DEF Fresh, Read
<1> QED BY <1>1, <1>3, <1>4 DEF WebInv

\* Streams that open, break or end with their process.
LEMMA StreamTurns ==
  ASSUME WebInv,
         Web!Open \/ Web!Break \/ Web!LogIn \/ Web!Restart
  PROVE  WebInv'
<1>1. WebTypes /\ Ring /\ Channel /\ Display
  BY DEF WebInv
<1>2. CASE Web!Open
  <2>1. /\ stream = "off" /\ stream' = "opened" /\ since' = IF url = Web!NoParam THEN -1 ELSE url
        /\ view' = Web!NoSnap /\ shown' = <<>> /\ gap' = FALSE
        /\ UNCHANGED <<seq, buf, keys, push, chan, url, last>>
    BY <1>2 DEF Web!Open, Web!ringVars
  <2>2. WebTypes'
    BY <1>1, <2>1 DEF WebTypes, StreamStates, Web!NoSnap, Numbers
  <2>3. Ring'
    BY <1>1, <2>1 DEF Ring
  <2>4. Channel'
    BY <1>1, <2>1 DEF Channel, Web!Subscribed
  <2>5. ~HasRead'
    BY <2>1 DEF HasRead
  <2> QED BY <2>1, <2>2, <2>3, <2>4, <2>5 DEF WebInv, Display, Fresh, Read
<1>3. CASE Web!Break \/ Web!LogIn
  <2>1. /\ stream' = "off" /\ chan' = <<>> /\ push' = [push EXCEPT !.target = FALSE]
        /\ UNCHANGED <<seq, buf, keys, since, view, shown>>
        /\ {url', last'} \subseteq Int
    BY <1>1, <1>3 DEF Web!Break, Web!LogIn, Web!CloseStream, Web!ringVars, Web!readVars, WebTypes,
       Web!NoParam, Web!Nothing
  <2>2. WebTypes' /\ ~push'.target
    <3>1. push \in [seq : Nat, target : BOOLEAN]
      BY <1>1 DEF WebTypes
    <3>2. push' \in [seq : Nat, target : BOOLEAN] /\ ~push'.target
      BY <3>1, <2>1
    <3> QED BY <1>1, <2>1, <3>2 DEF WebTypes, StreamStates
  <2>3. Ring'
    BY <1>1, <2>1 DEF Ring
  <2>4. \A i \in 1..Len(shown') : shown'[i] <= seq'
    BY <1>1, <2>1 DEF Display
  <2> QED BY <2>1, <2>2, <2>3, <2>4, NothingOwed
<1>4. CASE Web!Restart
  <2>1. /\ stream' = "off" /\ chan' = <<>> /\ push' = Web!NoPush /\ seq' = 0 /\ buf' = <<>>
        /\ keys' = <<>> /\ view' = Web!NoSnap /\ shown' = <<>>
        /\ UNCHANGED <<since, url, last>>
    BY <1>4 DEF Web!Restart
  <2>2. WebTypes' /\ ~push'.target
    BY <1>1, <2>1 DEF WebTypes, StreamStates, Numbers, Web!NoPush, Web!NoSnap
  <2>3. Ring'
    BY <2>1 DEF Ring
  <2>4. \A i \in 1..Len(shown') : shown'[i] <= seq'
    BY <2>1
  <2> QED BY <2>1, <2>2, <2>3, <2>4, NothingOwed
<1> QED BY <1>2, <1>3, <1>4

LEMMA SubscribeStep == WebInv /\ Web!Subscribe => WebInv'
<1> SUFFICES ASSUME WebInv, Web!Subscribe PROVE WebInv'
  OBVIOUS
<1>1. WebTypes /\ Ring /\ Channel /\ Display
  BY DEF WebInv
<1>2. /\ stream = "opened" /\ stream' = "subscribed" /\ chan' = <<>>
      /\ UNCHANGED <<seq, buf, keys, push, since, view, url, last, shown>>
  BY DEF Web!Subscribe, Web!ringVars, Web!readVars
<1>3. ~push.target /\ shown = <<>>
  BY <1>1, <1>2 DEF Channel, Display, Web!Subscribed
<1>4. WebTypes'
  BY <1>1, <1>2 DEF WebTypes, StreamStates
<1>5. Ring'
  BY <1>1, <1>2 DEF Ring
<1> QED BY <1>2, <1>3, <1>4, <1>5, NothingOwed

\* What is newer than `since` in the ring.
LEMMA NewerIs ==
  ASSUME WebTypes, Ring
  PROVE  /\ Web!Newer \in Seq(Numbers)
         /\ \A i \in 1..Len(Web!Newer) : Web!Newer[i] <= seq
         /\ \A i \in 1..Len(buf) : buf[i] > since => Within(buf[i], Web!Newer)
<1> DEFINE n == Len(buf)
           Splits(k) == \A i \in 1..n : buf[i] > since <=> i > k
           old == CHOOSE k \in 0..n : Splits(k)
<1>1. n \in Nat /\ buf \in Seq(Numbers) /\ seq \in Nat /\ since \in Int /\ n <= seq
      /\ \A i \in 1..n : buf[i] = seq - n + i
  BY DEF WebTypes, Ring
<1>2. \E k \in 0..n : Splits(k)
  <2> HIDE DEF n
  <2> DEFINE m == since - (seq - n)
  <2>1. m \in Int /\ \A i \in 1..n : buf[i] > since <=> i > m
    BY <1>1
  <2> HIDE DEF m
  <2>2. CASE m < 0
    <3>1. 0 \in 0..n /\ \A i \in 1..n : i > 0 /\ i > m
      BY <2>1, <2>2, <1>1
    <3> QED BY <3>1, <2>1
  <2>3. CASE m > n
    BY <2>1, <2>3, <1>1
  <2>4. CASE m \in 0..n
    BY <2>1, <2>4
  <2> QED BY <2>1, <2>2, <2>3, <2>4, <1>1
<1>3. old \in 0..n /\ Splits(old)
  <2> HIDE DEF Splits
  <2> QED BY <1>2
<1>4. Web!Newer = SubSeq(buf, old + 1, n)
  BY DEF Web!Newer
<1> HIDE DEF old
<1>5. /\ SubSeq(buf, old + 1, n) \in Seq(Numbers) /\ Len(SubSeq(buf, old + 1, n)) = n - old
      /\ \A i \in 1..(n - old) : SubSeq(buf, old + 1, n)[i] = buf[old + i]
  <2> HIDE DEF n, Splits
  <2>1. n \in Int /\ old + 1 \in Int /\ \A i \in (old + 1)..n : buf[i] \in Numbers
    <3>1. \A i \in (old + 1)..n : i \in 1..n
      BY <1>1, <1>3
    <3>2. \A i \in 1..Len(buf) : buf[i] \in Numbers
      BY <1>1
    <3> QED BY <3>1, <3>2, <1>1, <1>3 DEF n
  <2> DEFINE s == SubSeq(buf, old + 1, n)
  <2>2. /\ s \in Seq(Numbers)
        /\ Len(s) = IF old + 1 <= n THEN n - (old + 1) + 1 ELSE 0
        /\ \A i \in 1..(n - (old + 1) + 1) : s[i] = buf[(old + 1) + i - 1]
    BY <2>1, SubSeqProperties
  <2> HIDE DEF s
  <2>3. Len(s) = n - old /\ n - (old + 1) + 1 = n - old
    BY <2>2, <1>1, <1>3
  <2>4. \A i \in 1..(n - old) : (old + 1) + i - 1 = old + i
    BY <1>1, <1>3
  <2> QED BY <2>2, <2>3, <2>4 DEF s
<1> HIDE DEF n
<1>6. \A i \in 1..(n - old) : old + i \in 1..n /\ buf[old + i] <= seq
  BY <1>1, <1>3
<1>7. \A i \in 1..n : buf[i] > since => i - old \in 1..(n - old) /\ old + (i - old) = i
  BY <1>1, <1>3
<1>8. \A i \in 1..Len(Web!Newer) : Web!Newer[i] <= seq
  BY <1>4, <1>5, <1>6
<1>9. ASSUME NEW i \in 1..n, buf[i] > since PROVE Within(buf[i], Web!Newer)
  BY <1>4, <1>5, <1>7, <1>9 DEF Within
<1> QED BY <1>4, <1>5, <1>8, <1>9 DEF n

\* The stream reads the ring.
LEMMA SnapshotStep == WebInv /\ Web!Snapshot => WebInv'
<1> SUFFICES ASSUME WebInv, Web!Snapshot PROVE WebInv'
  OBVIOUS
<1>1. WebTypes /\ Ring /\ Channel /\ Display
  BY DEF WebInv
<1>2. /\ stream = "subscribed" /\ stream' = "hello"
      /\ UNCHANGED <<seq, buf, keys, push, since, chan, url, last, shown, gap, overflow>>
      /\ view' = IF buf = <<>> THEN [oldest |-> 0, latest |-> seq, events |-> <<>>]
                 ELSE [oldest |-> buf[1], latest |-> seq, events |-> Web!Newer]
  BY DEF Web!Snapshot, Web!ringVars, Web!readVars
<1>3. shown = <<>>
  BY <1>1, <1>2 DEF Display
<1>4. /\ seq \in Nat /\ buf \in Seq(Numbers) /\ Len(buf) \in Nat /\ (Len(buf) = 0 <=> buf = <<>>)
      /\ \A i \in 1..Len(buf) : buf[i] \in Numbers
  BY <1>1 DEF WebTypes
<1>5. view' \in [oldest : Nat, latest : Nat, events : Seq(Numbers)]
  <2>1. CASE buf = <<>>
    BY <2>1, <1>2, <1>4
  <2>2. CASE buf # <<>>
    <3>1. buf[1] \in Nat
      BY <2>2, <1>4 DEF Numbers
    <3> QED BY <2>2, <3>1, <1>1, <1>2, <1>4, NewerIs
  <2> QED BY <2>1, <2>2
<1>6. /\ view'.latest = seq
      /\ \A i \in 1..Len(view'.events) : view'.events[i] <= seq
      /\ seq > 0 => view'.oldest > 0
      /\ \A q \in 1..seq : q > since /\ q >= view'.oldest => Within(q, view'.events)
  <2>1. CASE buf = <<>>
    BY <2>1, <1>1, <1>2, <1>4 DEF Ring
  <2>2. CASE buf # <<>>
    <3>1. view'.latest = seq /\ view'.oldest = buf[1] /\ view'.events = Web!Newer
      BY <2>2, <1>2
    <3>2. buf[1] \in Numbers /\ buf[1] = seq - Len(buf) + 1
      BY <2>2, <1>1, <1>4 DEF Ring
    <3>3. ASSUME NEW q \in 1..seq, q > since, q >= buf[1] PROVE Within(q, Web!Newer)
      <4>1. q - (seq - Len(buf)) \in 1..Len(buf) /\ seq - Len(buf) + (q - (seq - Len(buf))) = q
        BY <3>2, <3>3, <1>4
      <4>2. buf[q - (seq - Len(buf))] = q
        BY <4>1, <1>1 DEF Ring
      <4> QED BY <3>3, <4>1, <4>2, <1>1, NewerIs
    <3> QED BY <3>1, <3>2, <3>3, <1>1, NewerIs DEF Numbers
  <2> QED BY <2>1, <2>2
<1>7. WebTypes'
  BY <1>1, <1>2, <1>5 DEF WebTypes, StreamStates
<1>8. Ring'
  BY <1>1, <1>2 DEF Ring
<1>9. Channel'
  BY <1>1, <1>2 DEF Channel, Web!Subscribed
<1>10. Display'
  BY <1>2, <1>3, <1>4, <1>6 DEF Display
<1>11. Fresh'
  BY <1>2, <1>4, <1>6 DEF Fresh
<1>12. Read'
  BY <1>2, <1>6 DEF Read
<1> QED BY <1>7, <1>8, <1>9, <1>10, <1>11, <1>12 DEF WebInv

\* The page is greeted, and told of a gap if the ring had forgotten what it asked for.
LEMMA GreetStep == WebInv /\ (Web!Hello \/ Web!Gap) => WebInv'
<1> SUFFICES ASSUME WebInv, Web!Hello \/ Web!Gap PROVE WebInv'
  OBVIOUS
<1>1. WebTypes /\ Ring /\ Channel /\ Display /\ Fresh /\ Read
  BY DEF WebInv
<1>2. /\ UNCHANGED <<seq, buf, keys, push, since, chan, view, url, shown, overflow>>
      /\ HasRead /\ stream' \in {"gap", "replay", "live"} /\ last' \in Int
  BY <1>1 DEF Web!Hello, Web!Gap, Web!ringVars, Web!readVars, HasRead, WebTypes
<1>3. stream' \in {"replay", "live"} /\ ~gap' => ~(since >= 0 /\ since < view.oldest - 1)
  <2>1. CASE Web!Hello
    <3>1. view.oldest \in Nat /\ since \in Int
      BY <1>1 DEF WebTypes
    <3> QED BY <2>1, <3>1 DEF Web!Hello
  <2>2. CASE Web!Gap
    BY <2>2 DEF Web!Gap
  <2> QED BY <2>1, <2>2
<1>4. HasRead' /\ stream # "off"
  BY <1>2 DEF HasRead
<1>5. WebTypes'
  BY <1>1, <1>2 DEF WebTypes, StreamStates
<1>6. Ring'
  BY <1>1, <1>2 DEF Ring
<1>7. Channel'
  BY <1>1, <1>2 DEF Channel, Web!Subscribed
<1>8. Display'
  BY <1>1, <1>2, <1>4 DEF Display, Web!Mine
<1>9. Fresh'
  BY <1>1, <1>2 DEF Fresh, Web!Mine, Within
<1>10. Read'
  BY <1>1, <1>2, <1>3 DEF Read, Web!Mine, Within
<1> QED BY <1>5, <1>6, <1>7, <1>8, <1>9, <1>10 DEF WebInv

LEMMA NumbersIn ==
  ASSUME NEW c \in Seq(Numbers), NEW i \in 1..Len(c)
  PROVE  c[i] \in Numbers
OBVIOUS

\* A reply joins the ring.
LEMMA DeliverNumbered ==
  ASSUME WebTypes, Ring, NEW user \in {Me, Other}, Web!Deliver(user)
  PROVE  /\ seq' = seq + 1 /\ push' = [seq |-> seq', target |-> Web!Subscribed]
         /\ UNCHANGED <<stream, since, chan, view, url, last, shown, gap, overflow>>
         /\ keys' \in Seq({Me, Other}) /\ Len(keys') = seq'
         /\ \A q \in 1..seq : keys'[q] = keys[q]
         /\ buf' \in Seq(Numbers) /\ Ring'
<1> DEFINE rest == IF Len(buf) = RingSize THEN Tail(buf) ELSE buf
<1>1. /\ seq' = seq + 1 /\ keys' = Append(keys, user) /\ buf' = Append(rest, seq')
      /\ push' = [seq |-> seq', target |-> Web!Subscribed]
      /\ UNCHANGED <<stream, since, chan, view, url, last, shown, gap, overflow>>
  BY DEF Web!Deliver, Web!readVars
<1>2. /\ seq \in Nat /\ keys \in Seq({Me, Other}) /\ Len(keys) = seq /\ buf \in Seq(Numbers)
      /\ Len(buf) \in Nat /\ Len(buf) <= seq
      /\ \A i \in 1..Len(buf) : buf[i] = seq - Len(buf) + i
  BY DEF WebTypes, Ring
<1>3. /\ keys' \in Seq({Me, Other}) /\ Len(keys') = seq'
      /\ \A q \in 1..seq : keys'[q] = keys[q]
  <2>1. keys \in Seq({Me, Other}) /\ user \in {Me, Other} /\ Len(keys) = seq
    BY <1>2
  <2>2. keys' = Append(keys, user) /\ seq' = seq + 1
    BY <1>1
  <2>3. keys' \in Seq({Me, Other}) /\ Len(keys') = Len(keys) + 1
    BY <2>1, <2>2
  <2>4. \A q \in 1..Len(keys) : keys'[q] = keys[q]
    BY <2>1, <2>2
  <2> QED BY <2>1, <2>2, <2>3, <2>4
<1>4. /\ rest \in Seq(Numbers) /\ Len(rest) \in Nat /\ Len(rest) <= seq
      /\ \A i \in 1..Len(rest) : rest[i] = seq - Len(rest) + i
  <2>1. CASE Len(buf) = RingSize
    <3>1. Len(buf) \in Nat \ {0} /\ rest = Tail(buf)
      BY <2>1
    <3>2. /\ rest \in Seq(Numbers) /\ Len(rest) = Len(buf) - 1
          /\ \A i \in 1..(Len(buf) - 1) : rest[i] = buf[i + 1]
      BY <3>1, <1>2
    <3> HIDE DEF rest
    <3>3. \A i \in 1..(Len(buf) - 1) : i + 1 \in 1..Len(buf) /\ rest[i] = seq - Len(buf) + (i + 1)
      BY <3>1, <3>2, <1>2
    <3>4. \A i \in 1..(Len(buf) - 1) : seq - Len(buf) + (i + 1) = seq - (Len(buf) - 1) + i
      BY <1>2
    <3> QED BY <3>1, <3>2, <3>3, <3>4, <1>2
  <2>2. CASE Len(buf) # RingSize
    BY <2>2, <1>2
  <2> QED BY <2>1, <2>2
<1> HIDE DEF rest
<1>5. /\ buf' \in Seq(Numbers) /\ Len(buf') = Len(rest) + 1 /\ buf'[Len(rest) + 1] = seq + 1
      /\ \A i \in 1..Len(rest) : buf'[i] = rest[i]
  <2>1. seq' \in Numbers
    BY <1>1, <1>2 DEF Numbers
  <2> QED BY <2>1, <1>1, <1>2, <1>4
<1>6. Ring'
  <2>1. Len(buf') <= seq' /\ Len(buf') # 0
    BY <1>1, <1>2, <1>4, <1>5
  <2>2. \A i \in 1..(Len(rest) + 1) : buf'[i] = seq + 1 - (Len(rest) + 1) + i
    <3> SUFFICES ASSUME NEW i \in 1..(Len(rest) + 1)
                 PROVE  buf'[i] = seq + 1 - (Len(rest) + 1) + i
      OBVIOUS
    <3>1. CASE i = Len(rest) + 1
      BY <3>1, <1>2, <1>4, <1>5
    <3>2. CASE i # Len(rest) + 1
      <4>1. i \in 1..Len(rest) /\ buf'[i] = seq - Len(rest) + i
        BY <3>2, <1>4, <1>5
      <4> QED BY <4>1, <1>2, <1>4
    <3> QED BY <3>1, <3>2
  <2>3. \A i \in 1..Len(buf') : buf'[i] = seq' - Len(buf') + i
    <3>1. seq \in Nat /\ Len(rest) \in Nat /\ seq' = seq + 1 /\ Len(buf') = Len(rest) + 1
      BY <1>1, <1>2, <1>4, <1>5
    <3> QED BY <3>1, <2>2
  <2> QED BY <2>1, <2>3 DEF Ring
<1> QED BY <1>1, <1>3, <1>5, <1>6

\* A reply joins the ring; the streams that are subscribed now will be sent it.
LEMMA RingStep ==
  ASSUME WebInv, NEW user \in {Me, Other}, Web!Deliver(user)
  PROVE  WebInv'
<1>1. WebTypes /\ Ring /\ Channel /\ Display /\ Fresh /\ Read
  BY DEF WebInv
<1>2. /\ seq' = seq + 1 /\ push' = [seq |-> seq', target |-> Web!Subscribed]
      /\ UNCHANGED <<stream, since, chan, view, url, last, shown, gap, overflow>>
      /\ keys' \in Seq({Me, Other}) /\ Len(keys') = seq'
      /\ \A q \in 1..seq : keys'[q] = keys[q]
      /\ buf' \in Seq(Numbers) /\ Ring'
  BY <1>1, DeliverNumbered
<1>3. seq \in Nat /\ seq' \in Nat /\ seq' = seq + 1
  BY <1>1, <1>2 DEF WebTypes
<1>4. /\ push' \in [seq : Nat, target : BOOLEAN] /\ push'.seq = seq'
      /\ push'.target <=> Web!Subscribed
  <2>1. Web!Subscribed \in BOOLEAN
    BY DEF Web!Subscribed
  <2> QED BY <2>1, <1>2, <1>3
<1>5. WebTypes'
  BY <1>1, <1>2, <1>3, <1>4 DEF WebTypes
<1>6. /\ \A i \in 1..Len(chan) : chan[i] \in Nat /\ chan[i] <= seq
      /\ \A i \in 1..Len(shown) : shown[i] \in 1..seq
  <2>1. /\ \A i \in 1..Len(chan) : chan[i] \in Numbers
        /\ \A i \in 1..Len(shown) : shown[i] \in Numbers
    BY <1>1, NumbersIn DEF WebTypes
  <2>2. \A i \in 1..Len(chan) : chan[i] <= seq
    BY <1>1 DEF Channel
  <2>3. \A i \in 1..Len(shown) : shown[i] <= seq
    BY <1>1 DEF Display
  <2> QED BY <2>1, <2>2, <2>3, <1>3 DEF Numbers
<1>7. Channel'
  <2>1. \A i \in 1..Len(chan) : chan[i] < seq' /\ chan[i] <= seq'
    BY <1>3, <1>6
  <2>2. seq' > 0
    BY <1>3
  <2> QED BY <2>1, <2>2, <1>1, <1>2, <1>4 DEF Channel, Web!Subscribed
<1>8. Display'
  <2>1. \A i \in 1..Len(shown) :
             shown[i] < seq' /\ shown[i] <= seq' /\ keys'[shown[i]] = keys[shown[i]]
    BY <1>2, <1>3, <1>6
  <2>2. HasRead => view.latest \in Nat /\ view.latest <= seq'
    BY <1>1, <1>3 DEF WebTypes, Display
  <2>3. HasRead' <=> HasRead
    BY <1>2 DEF HasRead
  <2> QED BY <2>1, <2>2, <2>3, <1>1, <1>2 DEF Display, Web!Mine
<1>9. Fresh'
  <2> SUFFICES ASSUME HasRead', NEW q \in (view'.latest + 1)..seq', Web!Mine(q)'
               PROVE  \/ Within(q, shown)' \/ q \in overflow' \/ Within(q, chan)'
                      \/ push'.target /\ push'.seq = q
    BY DEF Fresh
  <2>1. HasRead /\ view.latest \in Nat
    BY <1>1, <1>2 DEF HasRead, WebTypes
  <2>2. CASE q = seq'
    BY <2>1, <2>2, <1>4 DEF HasRead, Web!Subscribed
  <2>3. CASE q # seq'
    <3>1. q \in (view.latest + 1)..seq /\ q \in 1..seq
      BY <2>1, <2>3, <1>2, <1>3
    <3>2. Web!Mine(q)
      BY <3>1, <1>2 DEF Web!Mine
    <3>3. ~push.target
      BY DEF Web!Deliver, Web!NoPush
    <3> QED BY <2>1, <3>1, <3>2, <3>3, <1>1, <1>2 DEF Fresh, Within
  <2> QED BY <2>2, <2>3
<1>10. Read'
  <2>1. \A q \in 1..view.latest : HasRead => q \in 1..seq
    BY <1>1, <1>3 DEF WebTypes, Display
  <2> QED BY <2>1, <1>1, <1>2 DEF Read, HasRead, Web!Mine, Within
<1> QED BY <1>2, <1>5, <1>7, <1>8, <1>9, <1>10 DEF WebInv

\* The event is pushed to the stream it was meant for, which may be gone.
LEMMA PushStep == WebInv /\ Web!Push => WebInv'
<1> SUFFICES ASSUME WebInv, Web!Push PROVE WebInv'
  OBVIOUS
<1>1. WebTypes /\ Ring /\ Channel /\ Display /\ Fresh /\ Read
  BY DEF WebInv
<1>2. /\ push' = [seq |-> 0, target |-> FALSE]
      /\ UNCHANGED <<seq, buf, keys, stream, since, view, url, last, shown, gap>>
      /\ \/ chan' = chan /\ overflow \subseteq overflow' /\ (push.target => push.seq \in overflow')
         \/ push.target /\ chan' = Append(chan, push.seq) /\ overflow' = overflow
  BY DEF Web!Push, Web!NoPush, Web!ringVars
<1>3. /\ seq \in Nat /\ push \in [seq : Nat, target : BOOLEAN] /\ chan \in Seq(Numbers)
      /\ \A i \in 1..Len(chan) : chan[i] \in Nat
      /\ Len(chan) \in Nat
  <2>1. \A i \in 1..Len(chan) : chan[i] \in Numbers
    BY <1>1 DEF WebTypes
  <2> QED BY <2>1, <1>1 DEF WebTypes, Numbers
<1>4. ~push'.target /\ push' \in [seq : Nat, target : BOOLEAN]
  BY <1>2
<1>5. HasRead' <=> HasRead
  BY <1>2 DEF HasRead
<1>6. Ring'
  BY <1>1, <1>2 DEF Ring
<1>7. CASE chan' = chan /\ overflow \subseteq overflow' /\ (push.target => push.seq \in overflow')
  <2>1. WebTypes'
    BY <1>1, <1>2, <1>4, <1>7 DEF WebTypes
  <2>2. Channel'
    BY <1>1, <1>2, <1>4, <1>7 DEF Channel
  <2>3. Display'
    BY <1>1, <1>2, <1>4, <1>5, <1>7 DEF Display, Web!Mine
  <2>4. Fresh'
    BY <1>1, <1>2, <1>5, <1>7 DEF Fresh, Web!Mine, Within
  <2>5. Read'
    BY <1>1, <1>2, <1>5 DEF Read, Web!Mine, Within
  <2> QED BY <1>6, <2>1, <2>2, <2>3, <2>4, <2>5 DEF WebInv
<1>8. CASE push.target /\ chan' = Append(chan, push.seq) /\ overflow' = overflow
  <2>1. /\ push.seq = seq /\ \A i \in 1..Len(chan) : chan[i] < seq
        /\ Web!Subscribed
    BY <1>1, <1>8 DEF Channel
  <2>2. seq \in Numbers
    BY <1>1, <1>3, <1>8 DEF Channel, Numbers
  <2>3. /\ chan' \in Seq(Numbers) /\ Len(chan') = Len(chan) + 1 /\ chan'[Len(chan) + 1] = seq
        /\ \A i \in 1..Len(chan) : chan'[i] = chan[i]
        /\ \A i \in 1..(Len(chan) + 1) : i # Len(chan) + 1 => i \in 1..Len(chan)
    BY <2>1, <2>2, <1>3, <1>8
  <2>4. WebTypes'
    BY <1>1, <1>2, <1>4, <2>3 DEF WebTypes
  <2>5. Channel'
    <3>1. \A i \in 1..Len(chan') : chan'[i] <= seq
      <4> SUFFICES ASSUME NEW i \in 1..(Len(chan) + 1) PROVE chan'[i] <= seq
        BY <2>3
      <4>1. CASE i = Len(chan) + 1
        BY <4>1, <2>3, <1>3
      <4>2. CASE i # Len(chan) + 1
        BY <4>2, <2>3, <1>1 DEF Channel
      <4> QED BY <4>1, <4>2
    <3>2. ASSUME NEW i \in 1..Len(chan'), NEW j \in 1..Len(chan'), i < j
          PROVE  chan'[i] < chan'[j]
      <4>1. i \in 1..(Len(chan) + 1) /\ j \in 1..(Len(chan) + 1) /\ i \in 1..Len(chan)
        BY <3>2, <2>3, <1>3
      <4>2. CASE j = Len(chan) + 1
        BY <4>1, <4>2, <2>1, <2>3
      <4>3. CASE j # Len(chan) + 1
        <5>1. j \in 1..Len(chan) /\ chan[i] < chan[j]
          BY <3>2, <4>1, <4>3, <2>3, <1>1 DEF Channel
        <5> QED BY <5>1, <4>1, <2>3
      <4> QED BY <4>2, <4>3
    <3> QED BY <3>1, <3>2, <1>2, <1>4 DEF Channel
  <2>6. Display'
    <3>1. ASSUME HasRead, NEW i \in 1..Len(shown), NEW j \in 1..Len(chan'),
                 chan'[j] > view.latest
          PROVE  shown[i] < chan'[j]
      <4>1. j \in 1..(Len(chan) + 1)
        BY <2>3
      <4>2. CASE j = Len(chan) + 1
        <5>1. view.latest \in Nat /\ shown[i] \in Nat
          BY <1>1 DEF WebTypes, Numbers
        <5>2. shown[i] <= view.latest \/ shown[i] < seq
          BY <3>1, <1>1, <1>8 DEF Display
        <5> QED BY <5>1, <5>2, <3>1, <4>2, <2>3, <1>3
      <4>3. CASE j # Len(chan) + 1
        BY <3>1, <4>1, <4>3, <2>3, <1>1 DEF Display
      <4> QED BY <4>2, <4>3
    <3> QED BY <3>1, <1>1, <1>2, <1>4, <1>5 DEF Display, Web!Mine
  <2>7. \A q : Within(q, chan) \/ q = seq => Within(q, chan')
    <3>1. \A i \in 1..Len(chan) : i \in 1..Len(chan') /\ chan'[i] = chan[i]
      BY <2>3, <1>3
    <3>2. Len(chan) + 1 \in 1..Len(chan') /\ chan'[Len(chan) + 1] = seq
      BY <2>3, <1>3
    <3> QED BY <3>1, <3>2 DEF Within
  <2>8. Fresh'
    <3> SUFFICES ASSUME HasRead, NEW q \in (view.latest + 1)..seq, Web!Mine(q)
                 PROVE  Within(q, shown) \/ q \in overflow \/ Within(q, chan')
      BY <1>2, <1>5, <1>8 DEF Fresh, Web!Mine, Within
    <3> QED BY <2>1, <2>7, <1>1 DEF Fresh
  <2>9. Read'
    BY <1>1, <1>2, <1>5 DEF Read, Web!Mine, Within
  <2> QED BY <1>6, <2>4, <2>5, <2>6, <2>8, <2>9 DEF WebInv
<1> QED BY <1>2, <1>7, <1>8

\* An event is shown, or not, to the page it may be meant for.
LEMMA ShowIs ==
  ASSUME WebTypes, NEW q \in Numbers, Web!Show(q)
  PROVE  /\ last' \in Int /\ shown' \in Seq(Numbers) /\ Len(shown') \in Nat
         /\ \A i \in 1..Len(shown) : i \in 1..Len(shown') /\ shown'[i] = shown[i]
         /\ \A i \in 1..Len(shown') :
              \/ i \in 1..Len(shown)
              \/ i = Len(shown) + 1 /\ shown'[i] = q /\ Web!Mine(q)
         /\ \A p : Within(p, shown) => Within(p, shown')
         /\ Web!Mine(q) => Within(q, shown')
<1>1. shown \in Seq(Numbers) /\ Len(shown) \in Nat /\ last \in Int /\ q \in Nat
  BY DEF WebTypes, Numbers
<1>2. CASE Web!Mine(q)
  <2>1. shown' = Append(shown, q) /\ last' = q
    BY <1>2 DEF Web!Show
  <2>2. /\ shown' \in Seq(Numbers) /\ Len(shown') = Len(shown) + 1 /\ shown'[Len(shown) + 1] = q
        /\ \A i \in 1..Len(shown) : shown'[i] = shown[i]
    BY <1>1, <2>1
  <2>3. /\ \A i \in 1..Len(shown) : i \in 1..Len(shown') /\ shown'[i] = shown[i]
        /\ \A i \in 1..Len(shown') : i \in 1..Len(shown) \/ i = Len(shown) + 1
        /\ Len(shown) + 1 \in 1..Len(shown')
    BY <1>1, <2>2
  <2>4. \A p : Within(p, shown) => Within(p, shown')
    BY <2>3 DEF Within
  <2>5. Within(q, shown')
    BY <2>2, <2>3 DEF Within
  <2> QED BY <1>1, <1>2, <2>1, <2>2, <2>3, <2>4, <2>5
<1>3. CASE ~Web!Mine(q)
  BY <1>1, <1>3 DEF Web!Show
<1> QED BY <1>2, <1>3

\* The head of a queue of numbers, and what is left.
LEMMA HeadOff ==
  ASSUME NEW c \in Seq(Numbers), c # <<>>
  PROVE  /\ Head(c) = c[1] /\ Head(c) \in Numbers /\ 1 \in 1..Len(c)
         /\ Tail(c) \in Seq(Numbers)
         /\ \A i \in 1..Len(Tail(c)) : i + 1 \in 2..Len(c) /\ Tail(c)[i] = c[i + 1]
         /\ \A p : Within(p, c) => p = Head(c) \/ Within(p, Tail(c))
<1>1. /\ Head(c) = c[1] /\ Len(c) \in Nat \ {0} /\ Tail(c) \in Seq(Numbers)
      /\ Len(Tail(c)) = Len(c) - 1
      /\ \A i \in 1..(Len(c) - 1) : Tail(c)[i] = c[i + 1]
  OBVIOUS
<1>2. 1 \in 1..Len(c) /\ c[1] \in Numbers
  BY <1>1
<1>3. \A i \in 1..Len(Tail(c)) : i + 1 \in 2..Len(c) /\ Tail(c)[i] = c[i + 1]
  BY <1>1
<1>4. ASSUME NEW i \in 1..Len(c), i # 1
      PROVE  i - 1 \in 1..Len(Tail(c)) /\ Tail(c)[i - 1] = c[i]
  <2>1. i - 1 \in 1..(Len(c) - 1) /\ (i - 1) + 1 = i
    BY <1>1, <1>4
  <2> QED BY <2>1, <1>1
<1>5. \A p : Within(p, c) => p = Head(c) \/ Within(p, Tail(c))
  BY <1>1, <1>4 DEF Within
<1> QED BY <1>1, <1>2, <1>3, <1>5

\* An event of the ring is written to the page.
LEMMA ReplayStep == WebInv /\ Web!Replay => WebInv'
<1> SUFFICES ASSUME WebInv, Web!Replay PROVE WebInv'
  OBVIOUS
<1>1. WebTypes /\ Ring /\ Channel /\ Display /\ Fresh /\ Read
  BY DEF WebInv
<1>2. /\ stream = "replay"
      /\ UNCHANGED <<seq, buf, keys, push, since, chan, url, gap, overflow>>
  BY DEF Web!Replay, Web!ringVars
<1>3. Ring'
  BY <1>1, <1>2 DEF Ring
<1>4. CASE view.events = <<>>
  <2>1. stream' = "live" /\ UNCHANGED <<view, shown, last>>
    BY <1>4 DEF Web!Replay
  <2>2. WebTypes'
    BY <1>1, <1>2, <2>1 DEF WebTypes, StreamStates
  <2>3. Channel'
    BY <1>1, <1>2, <2>1 DEF Channel, Web!Subscribed
  <2>4. HasRead /\ HasRead' /\ stream # "off"
    BY <1>2, <2>1 DEF HasRead
  <2>5. Display'
    BY <1>1, <1>2, <2>1, <2>4 DEF Display, Web!Mine
  <2>6. Fresh'
    BY <1>1, <1>2, <2>1, <2>4 DEF Fresh, Web!Mine, Within
  <2>7. Read'
    BY <1>1, <1>2, <2>1, <2>4 DEF Read, Web!Mine, Within
  <2> QED BY <1>3, <2>2, <2>3, <2>5, <2>6, <2>7 DEF WebInv
<1>5. CASE view.events # <<>>
  <2> DEFINE q == Head(view.events)
  <2>1. /\ Web!Show(q) /\ view' = [view EXCEPT !.events = Tail(@)] /\ stream' = stream
    BY <1>5 DEF Web!Replay
  <2>2. /\ view \in [oldest : Nat, latest : Nat, events : Seq(Numbers)]
        /\ view.events \in Seq(Numbers) /\ view.latest \in Nat /\ view.oldest \in Nat
        /\ seq \in Nat
    BY <1>1 DEF WebTypes
  <2>3. /\ q = view.events[1] /\ q \in Numbers /\ 1 \in 1..Len(view.events)
        /\ Tail(view.events) \in Seq(Numbers)
        /\ \A i \in 1..Len(Tail(view.events)) :
             i + 1 \in 2..Len(view.events) /\ Tail(view.events)[i] = view.events[i + 1]
        /\ \A p : Within(p, view.events) => p = q \/ Within(p, Tail(view.events))
    BY <1>5, <2>2, HeadOff
  <2>4. /\ view' \in [oldest : Nat, latest : Nat, events : Seq(Numbers)]
        /\ view'.events = Tail(view.events)
        /\ view'.latest = view.latest /\ view'.oldest = view.oldest
    BY <2>1, <2>2, <2>3
  <2>5. HasRead /\ HasRead' /\ stream # "off" /\ q <= view.latest /\ view.latest <= seq
    <3>1. HasRead /\ HasRead' /\ stream # "off"
      BY <1>2, <2>1 DEF HasRead
    <3> QED BY <3>1, <2>3, <1>1 DEF Display
  <2> HIDE DEF q
  <2>6. /\ last' \in Int /\ shown' \in Seq(Numbers) /\ Len(shown') \in Nat
        /\ \A i \in 1..Len(shown) : i \in 1..Len(shown') /\ shown'[i] = shown[i]
        /\ \A i \in 1..Len(shown') :
             \/ i \in 1..Len(shown)
             \/ i = Len(shown) + 1 /\ shown'[i] = q /\ Web!Mine(q)
        /\ \A p : Within(p, shown) => Within(p, shown')
        /\ Web!Mine(q) => Within(q, shown')
    BY <2>1, <2>3, <1>1, ShowIs
  <2>7. WebTypes'
    BY <1>1, <1>2, <2>1, <2>4, <2>6 DEF WebTypes
  <2>8. Channel'
    BY <1>1, <1>2, <2>1 DEF Channel, Web!Subscribed
  <2>9. q \in Nat /\ \A i \in 1..Len(shown) : shown[i] \in Nat
    BY <2>3, <1>1 DEF WebTypes, Numbers
  <2>10. \A i \in 1..Len(shown') :
           \/ i \in 1..Len(shown) /\ shown'[i] = shown[i]
           \/ i = Len(shown) + 1 /\ shown'[i] = q /\ Web!Mine(q)
    BY <2>6
  <2>11. Display'
    <3>1. \A i \in 1..Len(shown') : shown'[i] <= seq /\ Web!Mine(shown'[i])
      <4>1. q <= seq
        BY <2>2, <2>5, <2>9
      <4> QED BY <4>1, <2>5, <2>10, <1>1 DEF Display
    <3>2. \A i \in 1..Len(view'.events) : view'.events[i] <= view.latest
      <4>1. \A i \in 2..Len(view.events) : i \in 1..Len(view.events)
        OBVIOUS
      <4> QED BY <4>1, <2>3, <2>4, <2>5, <1>1 DEF Display
    <3>3. \A j \in 1..Len(chan) : chan[j] \in Nat
      BY <1>1 DEF WebTypes, Numbers
    <3>4. \A i \in 1..Len(shown'), j \in 1..Len(chan) :
            chan[j] > view.latest => shown'[i] < chan[j]
      BY <2>2, <2>5, <2>9, <2>10, <3>3, <1>1 DEF Display
    <3>5. ASSUME NEW i \in 1..Len(shown'), NEW j \in 1..Len(shown'), i < j,
                 shown'[j] > view.latest
          PROVE  shown'[i] < shown'[j]
      <4>1. j \in 1..Len(shown)
        BY <3>5, <2>2, <2>5, <2>9, <2>10
      <4>2. i \in 1..Len(shown)
        BY <4>1, <3>5
      <4> QED BY <4>1, <4>2, <3>5, <2>5, <2>6, <1>1 DEF Display
    <3>6. push.target => \A i \in 1..Len(shown') : shown'[i] <= view.latest \/ shown'[i] < seq
      BY <2>5, <2>10, <1>1 DEF Display
    <3> QED BY <3>1, <3>2, <3>4, <3>5, <3>6, <1>2, <2>1, <2>4, <2>5 DEF Display, Web!Mine
  <2>12. Fresh'
    BY <1>1, <1>2, <2>4, <2>5, <2>6 DEF Fresh, Web!Mine, Within
  <2>13. Read'
    <3>1. ASSUME NEW p \in 1..view.latest, Web!Mine(p), p > since, p >= view.oldest
          PROVE  Within(p, shown') \/ Within(p, Tail(view.events))
      BY <3>1, <2>3, <2>5, <2>6, <1>1 DEF Read
    <3> QED BY <3>1, <1>1, <1>2, <2>1, <2>4, <2>5 DEF Read, Web!Mine, Within
  <2> QED BY <1>3, <2>7, <2>8, <2>11, <2>12, <2>13 DEF WebInv
<1> QED BY <1>4, <1>5

\* An event of the channel is written to the page.
LEMMA ReceiveStep == WebInv /\ Web!Receive => WebInv'
<1> SUFFICES ASSUME WebInv, Web!Receive PROVE WebInv'
  OBVIOUS
<1> DEFINE q == Head(chan)
<1>1. WebTypes /\ Ring /\ Channel /\ Display /\ Fresh /\ Read
  BY DEF WebInv
<1>2. /\ stream = "live" /\ chan # <<>> /\ Web!Show(q) /\ chan' = Tail(chan)
      /\ UNCHANGED <<seq, buf, keys, push, stream, since, view, url, gap, overflow>>
  BY DEF Web!Receive, Web!ringVars
<1>3. Ring'
  BY <1>1, <1>2 DEF Ring
<1>4. /\ chan \in Seq(Numbers) /\ seq \in Nat /\ view.latest \in Nat
      /\ \A i \in 1..Len(chan) : chan[i] \in Nat
      /\ \A i \in 1..Len(shown) : shown[i] \in Nat
  <2>1. chan \in Seq(Numbers) /\ shown \in Seq(Numbers) /\ seq \in Nat /\ view.latest \in Nat
    BY <1>1 DEF WebTypes
  <2> QED BY <2>1, NumbersIn DEF Numbers
<1>5. /\ q = chan[1] /\ q \in Numbers /\ 1 \in 1..Len(chan)
      /\ Tail(chan) \in Seq(Numbers)
      /\ \A i \in 1..Len(Tail(chan)) : i + 1 \in 2..Len(chan) /\ Tail(chan)[i] = chan[i + 1]
      /\ \A p : Within(p, chan) => p = q \/ Within(p, Tail(chan))
  BY <1>2, <1>4, HeadOff
<1> HIDE DEF q
<1>6. HasRead /\ HasRead' /\ stream # "off"
  BY <1>2 DEF HasRead
<1>7. /\ last' \in Int /\ shown' \in Seq(Numbers) /\ Len(shown') \in Nat
      /\ \A i \in 1..Len(shown) : i \in 1..Len(shown') /\ shown'[i] = shown[i]
      /\ \A i \in 1..Len(shown') :
           \/ i \in 1..Len(shown)
           \/ i = Len(shown) + 1 /\ shown'[i] = q /\ Web!Mine(q)
      /\ \A p : Within(p, shown) => Within(p, shown')
      /\ Web!Mine(q) => Within(q, shown')
  BY <1>1, <1>2, <1>5, ShowIs
<1>8. \A i \in 1..Len(shown') :
        \/ i \in 1..Len(shown) /\ shown'[i] = shown[i]
        \/ i = Len(shown) + 1 /\ shown'[i] = q /\ Web!Mine(q)
  BY <1>7
<1>9. \A i \in 1..Len(chan') : i + 1 \in 1..Len(chan) /\ i + 1 > 1 /\ chan'[i] = chan[i + 1]
  BY <1>2, <1>5
<1>10. WebTypes'
  BY <1>1, <1>2, <1>5, <1>7 DEF WebTypes
<1>11. Channel'
  <2>1. \A i, j \in 1..Len(chan') : i < j => i + 1 < j + 1
    OBVIOUS
  <2> QED BY <2>1, <1>9, <1>1, <1>2 DEF Channel, Web!Subscribed
<1>12. q \in Nat /\ q <= seq /\ (push.target => q < seq)
  BY <1>1, <1>4, <1>5 DEF Channel
<1>13. Display'
  <2>1. \A i \in 1..Len(shown') : shown'[i] <= seq /\ Web!Mine(shown'[i])
    BY <1>6, <1>8, <1>12, <1>1 DEF Display
  <2>2. \A i \in 1..Len(shown'), j \in 1..Len(chan') :
          chan'[j] > view.latest => shown'[i] < chan'[j]
    <3> SUFFICES ASSUME NEW i \in 1..Len(shown'), NEW j \in 1..Len(chan'),
                        chan'[j] > view.latest
                 PROVE  shown'[i] < chan'[j]
      OBVIOUS
    <3>1. j + 1 \in 1..Len(chan) /\ chan'[j] = chan[j + 1] /\ q < chan[j + 1]
      BY <1>5, <1>9, <1>1 DEF Channel
    <3> QED BY <3>1, <1>6, <1>8, <1>1 DEF Display
  <2>3. ASSUME NEW i \in 1..Len(shown'), NEW j \in 1..Len(shown'), i < j,
               shown'[j] > view.latest
        PROVE  shown'[i] < shown'[j]
    <3>1. Len(shown) \in Nat
      BY <1>1 DEF WebTypes
    <3>2. i \in 1..Len(shown) /\ shown'[i] = shown[i]
      BY <2>3, <1>8, <3>1
    <3>3. CASE j \in 1..Len(shown)
      BY <2>3, <3>2, <3>3, <1>6, <1>7, <1>1 DEF Display
    <3>4. CASE shown'[j] = q
      BY <2>3, <3>2, <3>4, <1>5, <1>6, <1>1 DEF Display
    <3> QED BY <3>3, <3>4, <1>8
  <2>4. push.target => \A i \in 1..Len(shown') : shown'[i] <= view.latest \/ shown'[i] < seq
    BY <1>6, <1>8, <1>12, <1>1 DEF Display
  <2> QED BY <2>1, <2>2, <2>3, <2>4, <1>1, <1>2, <1>6 DEF Display, Web!Mine
<1>14. Fresh'
  <2> SUFFICES ASSUME NEW p \in (view.latest + 1)..seq, Web!Mine(p)
               PROVE  \/ Within(p, shown') \/ p \in overflow \/ Within(p, chan')
                      \/ push.target /\ push.seq = p
    BY <1>2, <1>6 DEF Fresh, Web!Mine, Within
  <2>1. Within(p, chan) => Within(p, shown') \/ Within(p, chan')
    BY <1>2, <1>5, <1>7
  <2> QED BY <2>1, <1>1, <1>6, <1>7 DEF Fresh
<1>15. Read'
  BY <1>1, <1>2, <1>6, <1>7 DEF Read, Web!Mine, Within
<1> QED BY <1>3, <1>10, <1>11, <1>13, <1>14, <1>15 DEF WebInv

LEMMA WebStep ==
  ASSUME WebInv, Web!Next \/ UNCHANGED webVars
  PROVE  WebInv'
<1>1. ASSUME NEW user \in {Me, Other}, Web!Deliver(user) PROVE WebInv'
  BY <1>1, RingStep
<1>2. CASE Web!Push
  BY <1>2, PushStep
<1>3. CASE Web!Subscribe \/ Web!Snapshot
  BY <1>3, SubscribeStep, SnapshotStep
<1>4. CASE Web!Hello \/ Web!Gap
  BY <1>4, GreetStep
<1>5. CASE Web!Replay \/ Web!Receive
  BY <1>5, ReplayStep, ReceiveStep
<1>6. CASE Web!Open \/ Web!Break \/ Web!LogIn \/ Web!Restart
  BY <1>6, StreamTurns
<1>7. CASE UNCHANGED webVars
  <2> USE <1>7 DEF webVars
  <2>1. WebTypes' /\ Ring' /\ Channel'
    BY DEF WebInv, WebTypes, Ring, Channel, Web!Subscribed
  <2>2. Display'
    BY DEF WebInv, Display, HasRead, Web!Mine
  <2>3. Fresh' /\ Read'
    BY DEF WebInv, Fresh, Read, HasRead, Web!Mine, Within
  <2> QED BY <2>1, <2>2, <2>3 DEF WebInv
<1> QED BY <1>1, <1>2, <1>3, <1>4, <1>5, <1>6, <1>7 DEF Web!Next

\* A number in a sequence is one of its elements.
LEMMA WithinIs ==
  ASSUME NEW c \in Seq(Numbers), NEW q, Within(q, c)
  PROVE  q \in Web!ToSet(c)
BY DEF Within, Web!ToSet

LEMMA WebImplies == WebInv => Web!PageSees
<1> SUFFICES ASSUME WebInv PROVE Web!PageSees
  OBVIOUS
<1>1. WebTypes /\ Channel /\ Display /\ Fresh /\ Read
  BY DEF WebInv
<1>2. /\ seq \in Nat /\ since \in Int /\ view.latest \in Nat /\ view.oldest \in Nat
      /\ chan \in Seq(Numbers) /\ shown \in Seq(Numbers) /\ view.events \in Seq(Numbers)
      /\ \A i \in 1..Len(shown) : shown[i] \in Nat
  BY <1>1 DEF WebTypes, Numbers
<1>3. Web!StreamComplete
  <2> SUFFICES ASSUME HasRead, NEW q \in 1..seq, Web!Mine(q), q > since,
                      since >= 0 \/ q >= view.oldest
               PROVE  \/ q \in Web!ToSet(shown) \/ q \in overflow \/ Web!OnItsWay(q)
                      \/ q <= view.latest /\ (gap \/ stream \in {"hello", "gap"})
    BY DEF Web!StreamComplete, HasRead
  <2>1. CASE q > view.latest
    <3>1. q \in (view.latest + 1)..seq
      BY <2>1, <1>2
    <3>2. \/ Within(q, shown) \/ q \in overflow \/ Within(q, chan)
          \/ push.target /\ push.seq = q
      BY <3>1, <1>1 DEF Fresh
    <3> QED BY <3>2, <1>2, WithinIs DEF Web!OnItsWay
  <2>2. CASE q <= view.latest
    <3>1. CASE q >= view.oldest
      <4>1. q \in 1..view.latest
        BY <2>2, <1>2
      <4>2. Within(q, shown) \/ Within(q, view.events)
        BY <3>1, <4>1, <1>1 DEF Read
      <4> QED BY <4>2, <1>2, WithinIs DEF Web!OnItsWay
    <3>2. CASE q < view.oldest
      <4>1. since >= 0 /\ since < view.oldest - 1
        BY <3>2, <1>2
      <4>2. gap \/ stream \in {"hello", "gap"}
        BY <4>1, <1>1 DEF Read, HasRead
      <4> QED BY <4>2, <2>2
    <3> QED BY <3>1, <3>2, <1>2
  <2> QED BY <2>1, <2>2, <1>2
<1>4. Web!StreamHonest
  <2> SUFFICES ASSUME stream # "off"
               PROVE  /\ \A i \in 1..Len(shown) : Web!Mine(shown[i])
                      /\ \A i, j \in 1..Len(shown) :
                           i < j /\ shown[i] >= shown[j] => shown[j] <= view.latest
    BY DEF Web!StreamHonest
  <2>1. CASE HasRead
    <3>1. \A i \in 1..Len(shown) : Web!Mine(shown[i])
      BY <1>1 DEF Display
    <3>2. \A i, j \in 1..Len(shown) : i < j /\ shown[j] > view.latest => shown[i] < shown[j]
      BY <2>1, <1>1 DEF Display
    <3>3. ASSUME NEW i \in 1..Len(shown), NEW j \in 1..Len(shown), i < j, shown[i] >= shown[j]
          PROVE  shown[j] <= view.latest
      <4>1. shown[i] \in Nat /\ shown[j] \in Nat /\ view.latest \in Nat
        BY <1>2
      <4> QED BY <4>1, <3>2, <3>3
    <3> QED BY <3>1, <3>3
  <2>2. CASE ~HasRead
    <3>1. shown = <<>>
      BY <2>2, <1>1 DEF HasRead, Display, WebTypes, StreamStates
    <3> QED BY <3>1
  <2> QED BY <2>1, <2>2
<1> QED BY <1>3, <1>4 DEF Web!PageSees

HIDE WebAssumption
=============================================================================
