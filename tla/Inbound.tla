------------------------------ MODULE Inbound ------------------------------
(***************************************************************************)
(* A customer's messages on their way to one conversation of the inbox.    *)
(*                                                                         *)
(*   provider --HTTP--> webhook-ingestor --raw-webhook-events-->           *)
(*   service-provider --parsed-message-events--> chat-service              *)
(*                                                                         *)
(* The ingestor keeps a receipt and, when it cannot publish, a dead letter *)
(* of each event, which an administrator can replay.  The two channels are *)
(* Redis pub/sub: each replica of the subscriber hears an event, and one   *)
(* that nobody is there to hear is gone.                                   *)
(* service-provider records the event ids it has seen.  chat-service stores *)
(* the message, under a unique index, and then updates the conversation    *)
(* document it had read before.                                            *)
(*                                                                         *)
(* A Front is a request to the ingestor, a delivery or the replay of one   *)
(* letter (a replay of several letters is as many, each with the list read *)
(* at the start).  A Handler is a chat-service handler of one event; they  *)
(* overlap, since nobody awaits them.  Reads that no other actor's step in *)
(* between can turn into another outcome are one action with their use.    *)
(***************************************************************************)
EXTENDS Integers, FiniteSets

CONSTANTS
  Event,         \* event ids: a delivery id, a request id or a message's id
  NoEvent,       \* none of them
  Message,       \* the provider's message ids
  Carries,       \* event -> the message in it
  Front,         \* requests to the ingestor at one time
  Handler,       \* handlers of chat-service at one time
  Attempts,      \* attempts chat-service makes at an event (3 in the code, 2 suffice)
  MaxDeliveries, \* bound on deliveries, and with them on replays
  MaxFaults      \* bound on faults

ASSUME InboundAssumption ==
  /\ NoEvent \notin Event
  /\ IsFiniteSet(Message)
  /\ Carries \in [Event -> Message]
  /\ Attempts \in Nat \ {0, 1}
  /\ MaxDeliveries \in Nat
  /\ MaxFaults \in Nat

VARIABLES
  receipts,  \* event -> status of its document in webhook_ingress_receipts
  letters,   \* event -> status of its document in the dead letters
  front,     \* Front -> its next step, and the event it is about
  raw,       \* events in flight on raw-webhook-events
  seen,      \* events recorded in bsp_webhook_events
  streaming, \* events service-provider has recorded and not yet streamed
  parsed,    \* events in flight on parsed-message-events
  stored,    \* messages in chat-service's database
  unread,    \* the conversation's unreadCount, NoConversation without one
  handler,   \* Handler -> its next step, event, attempt and count read
  answered,  \* history: events answered, with 200 or 503
  handed,    \* history: events handed to a subscriber of raw-webhook-events
  streamed,  \* history: event -> times it was streamed
  announced, \* history: message -> times the inbox and automation got it
  struck,    \* history: messages that met a fault after they were handed over
  deliveries, \* deliveries so far; bounds TLC
  faults      \* faults so far; bounds TLC

ingestor == <<receipts, letters, front>>
provider == <<seen, streaming>>
chat == <<stored, unread, handler>>
reached == <<streamed, announced>>
trouble == <<struck, faults>>
vars == <<ingestor, raw, provider, parsed, chat, answered, handed, reached,
          deliveries, trouble>>

NoConversation == -1

Step == {"idle",
         "publish", "accept", "hold", "park",            \* a delivery
         "republish", "clear", "replayed"}               \* a replay
Stage == {"idle", "find", "create", "store", "save", "announce"}

Rest == [pc |-> "idle", event |-> NoEvent]
Free == [pc |-> "idle", event |-> NoEvent, tries |-> 0, count |-> 0]

TypeOK ==
  /\ receipts \in [Event -> {"none", "received", "pending", "published"}]
  /\ letters \in [Event -> {"none", "pending", "replayed"}]
  /\ front \in [Front -> [pc : Step, event : Event \cup {NoEvent}]]
  /\ raw \subseteq Event
  /\ seen \subseteq Event
  /\ streaming \subseteq seen
  /\ parsed \subseteq seen
  /\ stored \subseteq Message
  /\ unread \in {NoConversation} \cup 0 .. Cardinality(Message)
  /\ handler \in [Handler -> [pc : Stage, event : Event \cup {NoEvent},
                              tries : 0 .. Attempts,
                              count : 0 .. Cardinality(Message)]]
  /\ answered \subseteq Event
  /\ handed \subseteq Event
  /\ streamed \in [Event -> Nat]
  /\ announced \in [Message -> Nat]
  /\ struck \subseteq Message
  /\ deliveries \in 0 .. MaxDeliveries
  /\ faults \in 0 .. MaxFaults

Init ==
  /\ receipts = [e \in Event |-> "none"]
  /\ letters = [e \in Event |-> "none"]
  /\ front = [r \in Front |-> Rest]
  /\ raw = {} /\ seen = {} /\ streaming = {} /\ parsed = {}
  /\ stored = {}
  /\ unread = NoConversation
  /\ handler = [h \in Handler |-> Free]
  /\ answered = {} /\ handed = {} /\ struck = {}
  /\ streamed = [e \in Event |-> 0]
  /\ announced = [m \in Message |-> 0]
  /\ deliveries = 0 /\ faults = 0

\* An event is in flight until the last replica has heard it.
Heard(events, e) == {events, events \ {e}}

Delivered == deliveries < MaxDeliveries /\ deliveries' = deliveries + 1
Faulty == faults < MaxFaults /\ faults' = faults + 1
Strike(m) == Faulty /\ struck' = struck \cup {m}

-----------------------------------------------------------------------------
(* webhook-ingestor. *)

At(r, step) == front[r].pc = step
GoTo(r, step) == front' = [front EXCEPT ![r].pc = step]
Finish(r) == front' = [front EXCEPT ![r] = Rest]
Begin(r, step, e) == front' = [front EXCEPT ![r] = [pc |-> step, event |-> e]]

Answer(e) == answered' = answered \cup {e}

\* Which receipt makes a delivery a duplicate; the bug of taking any for one.
MutantPublished(status) == status # "none"
Published(status) == status = "published"

\* The event was published before: the delivery is answered with 200 at once.
DuplicateDelivery(e) ==
  /\ Published(receipts[e])
  /\ Delivered
  /\ Answer(e)
  /\ UNCHANGED <<ingestor, raw, provider, parsed, chat, handed, reached, trouble>>

\* A delivery that is new, or whose publication has not been recorded: the
\* receipt is inserted unless the unique index refuses it.
handleWebhookPost(r, e) ==
  /\ At(r, "idle")
  /\ ~Published(receipts[e])
  /\ Delivered
  /\ receipts' = [receipts EXCEPT ![e] = IF @ = "none" THEN "received" ELSE @]
  /\ Begin(r, "publish", e)
  /\ UNCHANGED <<letters, raw, provider, parsed, chat, answered, handed,
                 reached, trouble>>

\* The replay endpoint has read a pending letter.
Replay(r, e) ==
  /\ At(r, "idle")
  /\ letters[e] = "pending"
  /\ Begin(r, "republish", e)
  /\ UNCHANGED <<receipts, letters, raw, provider, parsed, chat, answered,
                 handed, reached, deliveries, trouble>>

\* Redis counts a subscriber.
publishRawWebhook(r) ==
  LET e == front[r].event IN
  /\ \/ At(r, "publish") /\ GoTo(r, "accept")
     \/ At(r, "republish") /\ GoTo(r, "clear")
  /\ raw' = raw \cup {e}
  /\ handed' = handed \cup {e}
  /\ UNCHANGED <<receipts, letters, provider, parsed, chat, answered, reached,
                 deliveries, trouble>>

\* Redis is out of reach or counts no subscriber; or the receipt of a published
\* delivery cannot be updated.
PublishFails(r) ==
  /\ Faulty
  /\ \/ (At(r, "publish") \/ At(r, "accept")) /\ GoTo(r, "hold")
     \/ (At(r, "republish") \/ At(r, "clear") \/ At(r, "replayed"))
        /\ Finish(r)
  /\ UNCHANGED <<receipts, letters, raw, provider, parsed, chat, answered,
                 handed, reached, deliveries, struck>>

\* The receipt becomes published; a delivery is answered with 200.
MarkPublished(r) ==
  LET e == front[r].event IN
  /\ \/ At(r, "accept") /\ Finish(r) /\ Answer(e)
     \/ At(r, "clear") /\ GoTo(r, "replayed") /\ UNCHANGED answered
  /\ receipts' = [receipts EXCEPT ![e] = "published"]
  /\ UNCHANGED <<letters, raw, provider, parsed, chat, handed, reached,
                 deliveries, trouble>>

\* The letter becomes replayed.
MarkReplayed(r) ==
  /\ At(r, "replayed")
  /\ letters' = [letters EXCEPT ![front[r].event] = "replayed"]
  /\ Finish(r)
  /\ UNCHANGED <<receipts, raw, provider, parsed, chat, answered, handed,
                 reached, deliveries, trouble>>

\* After a failure the receipt becomes pending ...
MarkPending(r) ==
  /\ At(r, "hold")
  /\ receipts' = [receipts EXCEPT ![front[r].event] = "pending"]
  /\ GoTo(r, "park")
  /\ UNCHANGED <<letters, raw, provider, parsed, chat, answered, handed,
                 reached, deliveries, trouble>>

\* ... and the event is upserted into the dead letters; the answer is 503.
persistDeadLetter(r) ==
  LET e == front[r].event IN
  /\ At(r, "park")
  /\ letters' = [letters EXCEPT ![e] = "pending"]
  /\ Answer(e)
  /\ Finish(r)
  /\ UNCHANGED <<receipts, raw, provider, parsed, chat, handed, reached,
                 deliveries, trouble>>

\* The ingestor dies, or MongoDB fails outside the try block: no answer, or 500.
Die(r) ==
  /\ ~At(r, "idle")
  /\ Faulty
  /\ Finish(r)
  /\ UNCHANGED <<receipts, letters, raw, provider, parsed, chat, answered,
                 handed, reached, deliveries, struck>>

-----------------------------------------------------------------------------
(* service-provider. *)

\* The bug of streaming whatever the upsert returns.
MutantReceiveGupshup(e) ==
  /\ e \in raw
  /\ raw' \in Heard(raw, e)
  /\ seen' = seen \cup {e}
  /\ streaming' = streaming \cup {e}
  /\ UNCHANGED <<ingestor, parsed, chat, answered, handed, reached, deliveries,
                 trouble>>

\* The upsert returns the document there was: a duplicate goes no further.
receiveGupshup(e) ==
  /\ e \in raw
  /\ raw' \in Heard(raw, e)
  /\ seen' = seen \cup {e}
  /\ streaming' = IF e \in seen THEN streaming ELSE streaming \cup {e}
  /\ UNCHANGED <<ingestor, parsed, chat, answered, handed, reached, deliveries,
                 trouble>>

\* The parsed event is published, whoever listens.
send(e) ==
  /\ e \in streaming
  /\ streaming' = streaming \ {e}
  /\ parsed' = parsed \cup {e}
  /\ streamed' = [streamed EXCEPT ![e] = @ + 1]
  /\ UNCHANGED <<ingestor, raw, seen, chat, answered, handed, announced,
                 deliveries, trouble>>

\* The producer logs a failed publish and returns; or service-provider dies.
SendFails(e) ==
  /\ e \in streaming
  /\ Strike(Carries[e])
  /\ streaming' = streaming \ {e}
  /\ UNCHANGED <<ingestor, raw, seen, parsed, chat, answered, handed, reached,
                 deliveries>>

\* The subscriber is gone before it hears the event, or (raw) fails at it three
\* times and publishes it to a -dlq channel that has no subscriber.
Lose(e) ==
  /\ Strike(Carries[e])
  /\ \/ e \in raw /\ raw' = raw \ {e} /\ UNCHANGED parsed
     \/ e \in parsed /\ parsed' = parsed \ {e} /\ UNCHANGED raw
  /\ UNCHANGED <<ingestor, provider, chat, answered, handed, reached,
                 deliveries>>

-----------------------------------------------------------------------------
(* chat-service: processParsedMessage, under the retry loop of its caller. *)

In(h, stage) == handler[h].pc = stage
Go(h, stage) == handler' = [handler EXCEPT ![h].pc = stage]
Done(h) == handler' = [handler EXCEPT ![h] = Free]
MessageOf(h) == Carries[handler[h].event]
Has(h, n) == handler' = [handler EXCEPT ![h].pc = "store", ![h].count = n]

\* The bug of one attempt too few.
MutantThrow(h) ==
  IF handler[h].tries + 1 < Attempts
  THEN handler' = [handler EXCEPT ![h].pc = "find", ![h].tries = @ + 1]
  ELSE Done(h)

\* The bug of a retry that goes on behind the insertion.
MutantThrowOn(h) ==
  IF handler[h].tries < Attempts
  THEN handler' = [handler EXCEPT ![h].pc = "save", ![h].tries = @ + 1]
  ELSE Done(h)

\* An attempt throws: the next one starts over, the last one is followed by a
\* publication to parsed-message-events-dlq, which has no subscriber.
Throw(h) ==
  IF handler[h].tries < Attempts
  THEN handler' = [handler EXCEPT ![h].pc = "find", ![h].tries = @ + 1]
  ELSE Done(h)

Receive(h, e) ==
  /\ e \in parsed
  /\ In(h, "idle")
  /\ parsed' \in Heard(parsed, e)
  /\ handler' = [handler EXCEPT ![h] =
                   [pc |-> "find", event |-> e, tries |-> 1, count |-> 0]]
  /\ UNCHANGED <<ingestor, raw, provider, stored, unread, answered, handed,
                 reached, deliveries, trouble>>

\* "Duplicate message ignored", which is a success.
DuplicateMessage(h) ==
  /\ In(h, "find")
  /\ MessageOf(h) \in stored
  /\ Done(h)
  /\ UNCHANGED <<ingestor, raw, provider, parsed, stored, unread, answered,
                 handed, reached, deliveries, trouble>>

FindConversation(h) ==
  /\ In(h, "find")
  /\ MessageOf(h) \notin stored
  /\ IF unread = NoConversation THEN Go(h, "create") ELSE Has(h, unread)
  /\ UNCHANGED <<ingestor, raw, provider, parsed, stored, unread, answered,
                 handed, reached, deliveries, trouble>>

\* Conversation.create; a unique index allows one for a contact.
CreateConversation(h) ==
  /\ In(h, "create")
  /\ IF unread = NoConversation
     THEN unread' = 0 /\ Has(h, 0)
     ELSE Throw(h) /\ UNCHANGED unread
  /\ UNCHANGED <<ingestor, raw, provider, parsed, stored, answered, handed,
                 streamed, announced, deliveries, trouble>>

\* The bug of a Message collection without its unique index.
MutantStoreMessage(h) ==
  /\ In(h, "store")
  /\ Go(h, "save")
  /\ stored' = stored \cup {MessageOf(h)}
  /\ UNCHANGED <<ingestor, raw, provider, parsed, unread, answered, handed,
                 reached, deliveries, trouble>>

\* Message.create; a unique index allows one for a provider's message id.
StoreMessage(h) ==
  /\ In(h, "store")
  /\ IF MessageOf(h) \notin stored
     THEN Go(h, "save")
     ELSE Throw(h)
  /\ stored' = stored \cup {MessageOf(h)}
  /\ UNCHANGED <<ingestor, raw, provider, parsed, unread, answered, handed,
                 streamed, announced, deliveries, trouble>>

\* conversation.save() writes the counter computed from the one it read.
SaveConversation(h) ==
  /\ In(h, "save")
  /\ unread' = handler[h].count + 1
  /\ Go(h, "announce")
  /\ UNCHANGED <<ingestor, raw, provider, parsed, stored, answered, handed,
                 reached, deliveries, trouble>>

\* The realtime event is published and the automation engine called.
Announce(h) ==
  /\ In(h, "announce")
  /\ announced' = [announced EXCEPT ![MessageOf(h)] = @ + 1]
  /\ Done(h)
  /\ UNCHANGED <<ingestor, raw, provider, parsed, stored, unread, answered,
                 handed, streamed, deliveries, trouble>>

\* contact-service, MongoDB or Redis fails in an attempt.
Error(h) ==
  /\ ~In(h, "idle")
  /\ Strike(MessageOf(h))
  /\ Throw(h)
  /\ UNCHANGED <<ingestor, raw, provider, parsed, stored, unread, answered,
                 handed, streamed, announced, deliveries>>

\* chat-service dies at the handler, which leaves no trace.
Crash(h) ==
  /\ ~In(h, "idle")
  /\ Strike(MessageOf(h))
  /\ Done(h)
  /\ UNCHANGED <<ingestor, raw, provider, parsed, stored, unread, answered,
                 handed, reached, deliveries>>

-----------------------------------------------------------------------------
Ingest ==
  \/ \E e \in Event : DuplicateDelivery(e)
  \/ \E r \in Front, e \in Event : handleWebhookPost(r, e) \/ Replay(r, e)
  \/ \E r \in Front :
       publishRawWebhook(r) \/ PublishFails(r) \/ MarkPublished(r)
         \/ MarkReplayed(r) \/ MarkPending(r) \/ persistDeadLetter(r) \/ Die(r)

Stream == \E e \in Event : receiveGupshup(e) \/ send(e) \/ SendFails(e) \/ Lose(e)

Store ==
  \/ \E h \in Handler, e \in Event : Receive(h, e)
  \/ \E h \in Handler :
       DuplicateMessage(h) \/ FindConversation(h) \/ CreateConversation(h)
         \/ StoreMessage(h) \/ SaveConversation(h) \/ Announce(h)
         \/ Error(h) \/ Crash(h)

Next == Ingest \/ Stream \/ Store

Spec == Init /\ [][Next]_vars

-----------------------------------------------------------------------------
(* Correctness. *)

\* Whatever fails while deliveries and replays of an event overlap: an event
\* the ingestor has answered was handed over or waits among the dead letters,
\* and one it calls published or replayed was handed over.
Accounted ==
  \A e \in Event :
    /\ e \in answered => e \in handed \/ letters[e] = "pending"
    /\ receipts[e] = "published" \/ letters[e] = "replayed" => e \in handed

\* However often an event is delivered and replayed, chat-service is told of
\* it once.
StreamedOnce == \A e \in Event : streamed[e] <= 1

\* No race loses a message: one that was handed over and met no fault is on its way,
\* in a handler's hands, or announced.  A handler that loses the race for the
\* conversation or for the message needs its second attempt for this.
LostOnlyByFault ==
  \A e \in handed : Carries[e] \notin struck =>
    \/ e \in raw \cup streaming \cup parsed
    \/ \E h \in Handler : ~In(h, "idle") /\ MessageOf(h) = Carries[e]
    \/ announced[Carries[e]] > 0

\* Handlers that race with the same message, under two event ids, and their
\* retries: the inbox and the automation engine get it once at most, and it is
\* counted as unread once at most.
HandledOnce ==
  /\ \A m \in Message : announced[m] <= 1
  /\ unread <= Cardinality(stored)

\* Seen from outside, the three services are one pipeline: nothing is streamed before
\* it is handed over, stored before it is streamed or announced before it is stored,
\* and nothing twice.
Pipeline == INSTANCE MessagePipeline
              WITH accepted <- handed, parsed <- streamed, kept <- stored,
                   shown <- announced

ImplementsPipeline == Pipeline!Spec
=============================================================================
