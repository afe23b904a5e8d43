---------------------------- MODULE TransportData ----------------------------
(*****************************************************************************)
(* The components that carry messages and replies over the transports of     *)
(* the gateway, side by side: they share no state here.                      *)
(*****************************************************************************)
EXTENDS Naturals, Sequences, FiniteSets

CONSTANTS
  Updates, MaxLives, MaxTroubles,                 \* TelegramTransport
  Senders, MaxSends, Buffer,                      \* DeliveryDispatcher
  Me, Other, RingSize, SubBuffer, MaxEvents       \* WebEvents

\* So many updates are sent to the bot.
ASSUME TelegramAssumption == Updates \in Nat

\* So many deliveries does every sender make.
ASSUME DispatcherAssumption == MaxSends \in Nat

\* eventRingSize is 512: the ring holds something.
ASSUME WebAssumption == RingSize \in Nat \ {0}

VARIABLES
  \* TelegramTransport
  sent, confirmed, record, life, gateway, poller, offset, batch, handled, sink, turns,
  replyQueue, troubles, refused, ran, replies,
  \* DeliveryDispatcher
  ch, sender, sending, sendStopped, dropped, delivered, given, late,
  \* WebEvents
  webLife, seq, buf, keys, push, stream, since, chan, view, url, last, shown, gap, overflow

Telegram == INSTANCE TelegramTransport WITH outbox <- replyQueue
Dispatcher ==
  INSTANCE DeliveryDispatcher
    WITH at <- sender, stopped <- sendStopped, handled <- given
Web == INSTANCE WebEvents WITH life <- webLife, snap <- view

telegramVars == <<sent, confirmed, record, life, gateway, poller, offset, batch, handled, sink,
                  turns, replyQueue, troubles, refused, ran, replies>>
dispatcherVars == <<ch, sender, sending, sendStopped, dropped, delivered, given, late>>
webVars == <<webLife, seq, buf, keys, push, stream, since, chan, view, url, last, shown, gap,
             overflow>>
=============================================================================
