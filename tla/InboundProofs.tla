--------------------------- MODULE InboundProofs ---------------------------
(***************************************************************************)
(* Proofs about Inbound, for any events, messages, requests, handlers,     *)
(* attempts and numbers of deliveries and faults.                          *)
(***************************************************************************)
EXTENDS Inbound, FiniteSetTheorems, TLAPS

-----------------------------------------------------------------------------
(* The shape of the state.  Counters are only naturals here: that they stay *)
(* within the number of messages is part of CountInv.                      *)

FrontRecord == [pc : Step, event : Event \cup {NoEvent}]
HandlerRecord == [pc : Stage, event : Event \cup {NoEvent},
                  tries : 0 .. Attempts, count : Nat]

IngestorShape ==
  /\ receipts \in [Event -> {"none", "received", "pending", "published"}]
  /\ letters \in [Event -> {"none", "pending", "replayed"}]
  /\ front \in [Front -> FrontRecord]
  /\ \A r \in Front : front[r].pc # "idle" => front[r].event \in Event
  /\ answered \subseteq Event
  /\ handed \subseteq Event
  /\ deliveries \in 0 .. MaxDeliveries

ChannelShape ==
  /\ raw \subseteq Event
  /\ seen \subseteq Event
  /\ streaming \subseteq seen
  /\ parsed \subseteq seen
  /\ streamed \in [Event -> Nat]
  /\ struck \subseteq Message
  /\ faults \in 0 .. MaxFaults

ChatShape ==
  /\ stored \subseteq Message
  /\ unread \in Nat \cup {NoConversation}
  /\ handler \in [Handler -> HandlerRecord]
  /\ \A h \in Handler : handler[h].pc # "idle" => handler[h].event \in Event
  /\ announced \in [Message -> Nat]

Shape == IngestorShape /\ ChannelShape /\ ChatShape

LEMMA ShapeInit == Init => Shape
BY InboundAssumption
   DEF Init, Shape, IngestorShape, ChannelShape, ChatShape, FrontRecord,
       HandlerRecord, Rest, Free, Step, Stage, NoConversation

LEMMA IngestKeepsShape == Shape /\ Ingest => Shape'
<1> SUFFICES ASSUME Shape, Ingest PROVE Shape'
  OBVIOUS
<1> USE InboundAssumption
    DEF Shape, IngestorShape, ChannelShape, ChatShape, FrontRecord, Rest, Step,
        At, GoTo, Finish, Begin, Answer, Delivered, Faulty, ingestor, provider,
        chat, reached, trouble
<1>1. ASSUME NEW e \in Event, DuplicateDelivery(e) PROVE Shape'
  BY <1>1 DEF DuplicateDelivery
<1>2. ASSUME NEW r \in Front, NEW e \in Event, handleWebhookPost(r, e)
      PROVE Shape'
  BY <1>2 DEF handleWebhookPost
<1>3. ASSUME NEW r \in Front, NEW e \in Event, Replay(r, e) PROVE Shape'
  BY <1>3 DEF Replay
<1>4. ASSUME NEW r \in Front, publishRawWebhook(r) PROVE Shape'
  <2>1. front[r].event \in Event
    BY <1>4 DEF publishRawWebhook
  <2>2. /\ front' \in [Front -> FrontRecord]
        /\ \A q \in Front : front'[q].pc # "idle" => front'[q].event \in Event
    <3>1. CASE GoTo(r, "accept")
      BY <2>1, <3>1
    <3>2. CASE GoTo(r, "clear")
      BY <2>1, <3>2
    <3> QED
      BY <1>4, <3>1, <3>2 DEF publishRawWebhook
  <2>3. ChannelShape' /\ ChatShape'
    BY <1>4, <2>1 DEF publishRawWebhook
  <2> QED
    BY <1>4, <2>1, <2>2, <2>3 DEF publishRawWebhook
<1>5. ASSUME NEW r \in Front, PublishFails(r) PROVE Shape'
  <2>1. CASE GoTo(r, "hold")
    BY <1>5, <2>1 DEF PublishFails
  <2>2. CASE Finish(r)
    BY <1>5, <2>2 DEF PublishFails
  <2> QED
    BY <1>5, <2>1, <2>2 DEF PublishFails
<1>6. ASSUME NEW r \in Front, MarkPublished(r) PROVE Shape'
  <2>1. front[r].event \in Event
    BY <1>6 DEF MarkPublished
  <2>2. receipts' \in [Event -> {"none", "received", "pending", "published"}]
    BY <1>6, <2>1 DEF MarkPublished
  <2>3. answered' \subseteq Event
    BY <1>6, <2>1 DEF MarkPublished
  <2>4. Finish(r) \/ GoTo(r, "replayed")
    BY <1>6 DEF MarkPublished
  <2>5. /\ front' \in [Front -> FrontRecord]
        /\ \A q \in Front : front'[q].pc # "idle" => front'[q].event \in Event
    <3>1. CASE Finish(r)
      BY <2>1, <3>1
    <3>2. CASE GoTo(r, "replayed")
      BY <2>1, <3>2
    <3> QED
      BY <2>4, <3>1, <3>2
  <2>7. ChannelShape' /\ ChatShape'
    BY <1>6 DEF MarkPublished
  <2> QED
    BY <1>6, <2>2, <2>3, <2>5, <2>7 DEF MarkPublished
<1>7. ASSUME NEW r \in Front, MarkReplayed(r) PROVE Shape'
  BY <1>7 DEF MarkReplayed
<1>8. ASSUME NEW r \in Front, MarkPending(r) PROVE Shape'
  BY <1>8 DEF MarkPending
<1>9. ASSUME NEW r \in Front, persistDeadLetter(r) PROVE Shape'
  BY <1>9 DEF persistDeadLetter
<1>10. ASSUME NEW r \in Front, Die(r) PROVE Shape'
  BY <1>10 DEF Die
<1> QED
  BY <1>1, <1>2, <1>3, <1>4, <1>5, <1>6, <1>7, <1>8, <1>9, <1>10 DEF Ingest

LEMMA StreamKeepsShape == Shape /\ Stream => Shape'
<1> SUFFICES ASSUME Shape, Stream PROVE Shape'
  OBVIOUS
<1> USE InboundAssumption
    DEF Shape, IngestorShape, ChannelShape, ChatShape, Faulty, Strike,
        MessageOf, ingestor, provider, chat, reached, trouble
<1>1. ASSUME NEW e \in Event, receiveGupshup(e) PROVE Shape'
  BY <1>1 DEF receiveGupshup, Heard
<1>2. ASSUME NEW e \in Event, send(e) PROVE Shape'
  BY <1>2 DEF send
<1>3. ASSUME NEW e \in Event, SendFails(e) PROVE Shape'
  BY <1>3 DEF SendFails
<1>4. ASSUME NEW e \in Event, Lose(e) PROVE Shape'
  BY <1>4 DEF Lose
<1> QED
  BY <1>1, <1>2, <1>3, <1>4 DEF Stream

\* What an attempt that throws leaves.
LEMMA ThrowKeepsShape ==
  ASSUME Shape, NEW h \in Handler, handler[h].pc # "idle", Throw(h)
  PROVE  /\ handler' \in [Handler -> HandlerRecord]
         /\ \A g \in Handler :
              handler'[g].pc # "idle" => handler'[g].event \in Event
BY InboundAssumption
   DEF Shape, ChatShape, HandlerRecord, Stage, Throw, Done, Free, MessageOf

LEMMA StoreKeepsShape == Shape /\ Store => Shape'
<1> SUFFICES ASSUME Shape, Store PROVE Shape'
  OBVIOUS
<1> USE InboundAssumption
    DEF Shape, IngestorShape, ChannelShape, ChatShape, Faulty, Strike,
        ingestor, provider, chat, reached, trouble, In, Go, Done, Free, Has, MessageOf,
        HandlerRecord, Stage, NoConversation
<1>1. ASSUME NEW h \in Handler, NEW e \in Event, Receive(h, e) PROVE Shape'
  <2>1. /\ handler' \in [Handler -> HandlerRecord]
        /\ \A g \in Handler : handler'[g].pc # "idle" => handler'[g].event \in Event
    BY <1>1 DEF Receive
  <2>2. IngestorShape' /\ ChannelShape'
    BY <1>1 DEF Receive, Heard
  <2> QED
    BY <1>1, <2>1, <2>2 DEF Receive
<1>2. ASSUME NEW h \in Handler, DuplicateMessage(h) PROVE Shape'
  BY <1>2 DEF DuplicateMessage
<1>3. ASSUME NEW h \in Handler, FindConversation(h) PROVE Shape'
  <2>1. handler[h].pc = "find" /\ (Go(h, "create") \/ (unread # -1 /\ Has(h, unread)))
    BY <1>3 DEF FindConversation
  <2>2. /\ handler' \in [Handler -> HandlerRecord]
        /\ \A g \in Handler : handler'[g].pc # "idle" => handler'[g].event \in Event
    <3>1. CASE Go(h, "create")
      BY <2>1, <3>1
    <3>2. CASE unread # -1 /\ Has(h, unread)
      BY <2>1, <3>2
    <3> QED
      BY <2>1, <3>1, <3>2
  <2>3. IngestorShape' /\ ChannelShape'
    BY <1>3 DEF FindConversation
  <2> QED
    BY <1>3, <2>2, <2>3 DEF FindConversation
<1>4. ASSUME NEW h \in Handler, CreateConversation(h) PROVE Shape'
  <2>1. CASE unread = NoConversation
    BY <1>4, <2>1 DEF CreateConversation
  <2>2. CASE unread # NoConversation
    <3>1. handler[h].pc # "idle" /\ Throw(h) /\ UNCHANGED unread
      BY <1>4, <2>2 DEF CreateConversation
    <3>2. IngestorShape' /\ ChannelShape'
      BY <1>4 DEF CreateConversation
    <3> QED
      BY <1>4, <3>1, <3>2, ThrowKeepsShape DEF CreateConversation
  <2> QED
    BY <2>1, <2>2
<1>5. ASSUME NEW h \in Handler, StoreMessage(h) PROVE Shape'
  <2>1. handler[h].pc = "store" /\ MessageOf(h) \in Message
    BY <1>5 DEF StoreMessage
  <2>2. /\ handler' \in [Handler -> HandlerRecord]
        /\ \A g \in Handler : handler'[g].pc # "idle" => handler'[g].event \in Event
    <3>1. CASE Go(h, "save")
      BY <2>1, <3>1
    <3>2. CASE Throw(h)
      BY <2>1, <3>2, ThrowKeepsShape
    <3> QED
      BY <1>5, <3>1, <3>2 DEF StoreMessage
  <2>3. IngestorShape' /\ ChannelShape'
    BY <1>5 DEF StoreMessage
  <2> QED
    BY <1>5, <2>1, <2>2, <2>3 DEF StoreMessage
<1>6. ASSUME NEW h \in Handler, SaveConversation(h) PROVE Shape'
  <2>1. handler[h].count \in Nat
    OBVIOUS
  <2>2. unread' \in Nat
    BY <1>6, <2>1 DEF SaveConversation
  <2> QED
    BY <1>6, <2>2 DEF SaveConversation
<1>7. ASSUME NEW h \in Handler, Announce(h) PROVE Shape'
  BY <1>7 DEF Announce
<1>8. ASSUME NEW h \in Handler, Error(h) PROVE Shape'
  BY <1>8, ThrowKeepsShape DEF Error
<1>9. ASSUME NEW h \in Handler, Crash(h) PROVE Shape'
  BY <1>9 DEF Crash
<1> QED
  BY <1>1, <1>2, <1>3, <1>4, <1>5, <1>6, <1>7, <1>8, <1>9 DEF Store

LEMMA ShapeNext == Shape /\ [Next]_vars => Shape'
<1>1. Shape /\ UNCHANGED vars => Shape'
  BY DEF Shape, IngestorShape, ChannelShape, ChatShape, vars, ingestor,
         provider, chat, reached, trouble
<1> QED
  BY <1>1, IngestKeepsShape, StreamKeepsShape, StoreKeepsShape DEF Next

-----------------------------------------------------------------------------
(* What the ingestor has answered: the requests that go on to write that an *)
(* event was published or replayed have handed it over.                     *)

AccountedInv ==
  /\ Accounted
  /\ \A r \in Front :
       front[r].pc \in {"accept", "clear", "replayed"}
       => front[r].event \in handed

LEMMA AccountedInit == Init => AccountedInv
BY DEF Init, AccountedInv, Accounted, Rest

LEMMA AccountedNext == Shape /\ AccountedInv /\ [Next]_vars => AccountedInv'
<1> SUFFICES ASSUME Shape, AccountedInv, [Next]_vars PROVE AccountedInv'
  OBVIOUS
<1> USE DEF AccountedInv, Accounted
<1>1. CASE Ingest
  <2> USE DEF Shape, IngestorShape, FrontRecord, Rest, At, GoTo, Finish, Begin,
              Answer, Published, ingestor
  <2>1. ASSUME NEW e \in Event, DuplicateDelivery(e) PROVE AccountedInv'
    BY <2>1 DEF DuplicateDelivery
  <2>2. ASSUME NEW r \in Front, NEW e \in Event, handleWebhookPost(r, e)
        PROVE AccountedInv'
    BY <2>2 DEF handleWebhookPost
  <2>3. ASSUME NEW r \in Front, NEW e \in Event, Replay(r, e)
        PROVE AccountedInv'
    BY <2>3 DEF Replay
  <2>4. ASSUME NEW r \in Front, publishRawWebhook(r) PROVE AccountedInv'
    BY <2>4 DEF publishRawWebhook
  <2>5. ASSUME NEW r \in Front, PublishFails(r) PROVE AccountedInv'
    BY <2>5 DEF PublishFails
  <2>6. ASSUME NEW r \in Front, MarkPublished(r) PROVE AccountedInv'
    BY <2>6 DEF MarkPublished
  <2>7. ASSUME NEW r \in Front, MarkReplayed(r) PROVE AccountedInv'
    BY <2>7 DEF MarkReplayed
  <2>8. ASSUME NEW r \in Front, MarkPending(r) PROVE AccountedInv'
    BY <2>8 DEF MarkPending
  <2>9. ASSUME NEW r \in Front, persistDeadLetter(r) PROVE AccountedInv'
    BY <2>9 DEF persistDeadLetter
  <2>10. ASSUME NEW r \in Front, Die(r) PROVE AccountedInv'
    BY <2>10 DEF Die
  <2> QED
    BY <1>1, <2>1, <2>2, <2>3, <2>4, <2>5, <2>6, <2>7, <2>8, <2>9, <2>10
       DEF Ingest
<1>2. CASE Stream \/ Store \/ UNCHANGED vars
  <2>1. UNCHANGED <<receipts, letters, front, answered, handed>>
    BY <1>2 DEF Stream, Store, vars, ingestor, receiveGupshup, send, SendFails,
           Lose, Receive, DuplicateMessage, FindConversation,
           CreateConversation, StoreMessage, SaveConversation, Announce, Error,
           Crash
  <2> QED
    BY <2>1
<1> QED
  BY <1>1, <1>2 DEF Next

-----------------------------------------------------------------------------
(* An event that is about to be streamed, or that was never seen, has not   *)
(* been streamed.                                                           *)

StreamedInv ==
  \A e \in Event :
    /\ streamed[e] <= 1
    /\ e \in streaming \/ e \notin seen => streamed[e] = 0

LEMMA StreamedInit == Init => StreamedInv
BY DEF Init, StreamedInv

LEMMA StreamedNext == Shape /\ StreamedInv /\ [Next]_vars => StreamedInv'
<1> SUFFICES ASSUME Shape, StreamedInv, [Next]_vars PROVE StreamedInv'
  OBVIOUS
<1> USE DEF StreamedInv, Shape, ChannelShape
<1>1. CASE Stream
  <2>1. ASSUME NEW e \in Event, receiveGupshup(e) PROVE StreamedInv'
    BY <2>1 DEF receiveGupshup, reached
  <2>2. ASSUME NEW e \in Event, send(e) PROVE StreamedInv'
    BY <2>2 DEF send
  <2>3. ASSUME NEW e \in Event, SendFails(e) PROVE StreamedInv'
    BY <2>3 DEF SendFails, reached
  <2>4. ASSUME NEW e \in Event, Lose(e) PROVE StreamedInv'
    BY <2>4 DEF Lose, reached, provider
  <2> QED
    BY <1>1, <2>1, <2>2, <2>3, <2>4 DEF Stream
<1>2. CASE Ingest \/ Store \/ UNCHANGED vars
  <2>1. UNCHANGED <<seen, streaming, streamed>>
    BY <1>2 DEF Ingest, Store, vars, provider, reached, DuplicateDelivery,
           handleWebhookPost, Replay, publishRawWebhook, PublishFails,
           MarkPublished, MarkReplayed, MarkPending, persistDeadLetter, Die,
           Receive, DuplicateMessage, FindConversation, CreateConversation,
           StoreMessage, SaveConversation, Announce, Error, Crash
  <2> QED
    BY <2>1
<1> QED
  BY <1>1, <1>2 DEF Next

-----------------------------------------------------------------------------
(* A message is past its insertion in one handler at most, and is announced *)
(* only from there, once: the unique index lets one handler through.        *)

Past(h) == handler[h].pc \in {"save", "announce"}

HandledInv ==
  /\ \A m \in Message :
       /\ announced[m] <= 1
       /\ m \notin stored => announced[m] = 0
  /\ \A h \in Handler :
       Past(h) => MessageOf(h) \in stored /\ announced[MessageOf(h)] = 0
  /\ \A g, h \in Handler :
       Past(g) /\ Past(h) /\ MessageOf(g) = MessageOf(h) => g = h

LEMMA HandledInit == Init => HandledInv
BY DEF Init, HandledInv, Past, Free

\* A step that brings no handler past an insertion, and none to another event.
LEMMA HandledFrame ==
  ASSUME Shape, HandledInv, UNCHANGED <<stored, announced>>,
         \A g \in Handler :
           Past(g)' => Past(g) /\ handler'[g].event = handler[g].event
  PROVE  HandledInv'
BY DEF HandledInv, MessageOf

\* An attempt that throws is such a step.
LEMMA ThrowFrame ==
  ASSUME Shape, NEW h \in Handler, Throw(h)
  PROVE  \A g \in Handler :
           Past(g)' => Past(g) /\ handler'[g].event = handler[g].event
BY DEF Shape, ChatShape, HandlerRecord, Throw, Done, Free, Past

LEMMA HandledNext == Shape /\ HandledInv /\ [Next]_vars => HandledInv'
<1> SUFFICES ASSUME Shape, HandledInv, [Next]_vars PROVE HandledInv'
  OBVIOUS
<1>1. CASE Store
  <2> USE DEF Shape, ChatShape, HandlerRecord, In, Go, Done, Free, Has, Past
  <2>1. ASSUME NEW h \in Handler, NEW e \in Event, Receive(h, e)
        PROVE HandledInv'
    BY <2>1, HandledFrame DEF Receive, reached
  <2>2. ASSUME NEW h \in Handler, DuplicateMessage(h) PROVE HandledInv'
    BY <2>2, HandledFrame DEF DuplicateMessage, reached
  <2>3. ASSUME NEW h \in Handler, FindConversation(h) PROVE HandledInv'
    <3>1. CASE Go(h, "create")
      BY <2>3, <3>1, HandledFrame DEF FindConversation, reached
    <3>2. CASE Has(h, unread)
      BY <2>3, <3>2, HandledFrame DEF FindConversation, reached
    <3> QED
      BY <2>3, <3>1, <3>2 DEF FindConversation
  <2>4. ASSUME NEW h \in Handler, CreateConversation(h) PROVE HandledInv'
    <3>1. CASE Has(h, 0)
      BY <2>4, <3>1, HandledFrame DEF CreateConversation
    <3>2. CASE Throw(h)
      BY <2>4, <3>2, HandledFrame, ThrowFrame DEF CreateConversation
    <3> QED
      BY <2>4, <3>1, <3>2 DEF CreateConversation
  <2>5. ASSUME NEW h \in Handler, StoreMessage(h) PROVE HandledInv'
    <3>1. CASE MessageOf(h) \in stored
      <4>1. UNCHANGED <<stored, announced>> /\ Throw(h)
        BY <2>5, <3>1 DEF StoreMessage
      <4> QED
        BY <4>1, HandledFrame, ThrowFrame
    <3>2. CASE MessageOf(h) \notin stored
      <4>1. /\ Go(h, "save")
            /\ UNCHANGED announced
            /\ stored' = stored \cup {MessageOf(h)}
            /\ handler[h].pc = "store"
        BY <2>5, <3>2 DEF StoreMessage
      <4>2. \A g \in Handler :
              /\ MessageOf(g)' = MessageOf(g)
              /\ g # h => (Past(g)' <=> Past(g))
        BY <4>1 DEF MessageOf
      <4>3. MessageOf(h) \in Message
        BY <4>1, InboundAssumption DEF MessageOf
      <4>4. \A g \in Handler : Past(g) => MessageOf(g) # MessageOf(h)
        BY <3>2 DEF HandledInv
      <4> QED
        BY <3>2, <4>1, <4>2, <4>3, <4>4 DEF HandledInv
    <3> QED
      BY <3>1, <3>2
  <2>6. ASSUME NEW h \in Handler, SaveConversation(h) PROVE HandledInv'
    BY <2>6, HandledFrame DEF SaveConversation, reached
  <2>7. ASSUME NEW h \in Handler, Announce(h) PROVE HandledInv'
    <3>1. /\ Past(h) /\ handler[h].event \in Event
          /\ Done(h)
          /\ UNCHANGED stored
          /\ announced' = [announced EXCEPT ![MessageOf(h)] = @ + 1]
      BY <2>7 DEF Announce
    <3>2. MessageOf(h) \in stored /\ announced[MessageOf(h)] = 0
      BY <3>1 DEF HandledInv
    <3>3. \A g \in Handler :
            Past(g)' => /\ g # h
                        /\ Past(g)
                        /\ MessageOf(g)' = MessageOf(g)
                        /\ MessageOf(g) # MessageOf(h)
      BY <3>1 DEF HandledInv, MessageOf
    <3> QED
      BY <3>1, <3>2, <3>3 DEF HandledInv
  <2>8. ASSUME NEW h \in Handler, Error(h) PROVE HandledInv'
    BY <2>8, HandledFrame, ThrowFrame DEF Error
  <2>9. ASSUME NEW h \in Handler, Crash(h) PROVE HandledInv'
    BY <2>9, HandledFrame DEF Crash, reached
  <2> QED
    BY <1>1, <2>1, <2>2, <2>3, <2>4, <2>5, <2>6, <2>7, <2>8, <2>9 DEF Store
<1>2. CASE Ingest \/ Stream \/ UNCHANGED vars
  <2>1. UNCHANGED <<stored, handler, announced>>
    BY <1>2 DEF Ingest, Stream, vars, chat, reached, DuplicateDelivery,
           handleWebhookPost, Replay, publishRawWebhook, PublishFails,
           MarkPublished, MarkReplayed, MarkPending, persistDeadLetter, Die,
           receiveGupshup, send, SendFails, Lose
  <2> QED
    BY <2>1, HandledFrame DEF Past
<1> QED
  BY <1>1, <1>2 DEF Next

-----------------------------------------------------------------------------
(* Every count of unread messages that is read or written is backed by as   *)
(* many stored messages, and one to be incremented by one more.             *)

CountInv ==
  /\ unread <= Cardinality(stored)
  /\ \A h \in Handler :
       /\ handler[h].count <= Cardinality(stored)
       /\ handler[h].pc = "save" => handler[h].count < Cardinality(stored)

LEMMA StoredIsFinite ==
  ASSUME Shape
  PROVE  /\ IsFiniteSet(stored)
         /\ Cardinality(stored) \in Nat
         /\ Cardinality(Message) \in Nat
         /\ Cardinality(stored) <= Cardinality(Message)
BY InboundAssumption, FS_Subset, FS_CardinalityType DEF Shape, ChatShape

LEMMA CountInit == Init => CountInv
BY FS_EmptySet DEF Init, CountInv, Free, NoConversation

\* A step that stores nothing and brings no handler to save.
LEMMA CountFrame ==
  ASSUME Shape, CountInv, UNCHANGED stored, unread' <= Cardinality(stored),
         \A g \in Handler :
           /\ handler'[g].count <= Cardinality(stored)
           /\ handler'[g].pc = "save" => handler'[g] = handler[g]
  PROVE  CountInv'
BY DEF CountInv

LEMMA ThrowCount ==
  ASSUME Shape, CountInv, NEW h \in Handler, Throw(h)
  PROVE  \A g \in Handler :
           /\ handler'[g].count <= Cardinality(stored)
           /\ handler'[g].pc = "save" => handler'[g] = handler[g]
BY StoredIsFinite
   DEF Shape, ChatShape, HandlerRecord, CountInv, Throw, Done, Free

LEMMA CountNext == Shape /\ CountInv /\ [Next]_vars => CountInv'
<1> SUFFICES ASSUME Shape, CountInv, [Next]_vars PROVE CountInv'
  OBVIOUS
<1> DEFINE N == Cardinality(stored)
<1>0. /\ N \in Nat
      /\ unread <= N
      /\ \A h \in Handler : handler[h].count <= N
  BY StoredIsFinite DEF CountInv
<1>1. CASE Store
  <2> USE DEF Shape, ChatShape, HandlerRecord, In, Go, Done, Free, Has
  <2>1. ASSUME NEW h \in Handler, NEW e \in Event, Receive(h, e)
        PROVE CountInv'
    BY <1>0, <2>1, CountFrame DEF Receive
  <2>2. ASSUME NEW h \in Handler, DuplicateMessage(h) PROVE CountInv'
    BY <1>0, <2>2, CountFrame DEF DuplicateMessage
  <2>3. ASSUME NEW h \in Handler, FindConversation(h) PROVE CountInv'
    <3>1. CASE Go(h, "create")
      BY <1>0, <2>3, <3>1, CountFrame DEF FindConversation
    <3>2. CASE Has(h, unread)
      BY <1>0, <2>3, <3>2, CountFrame DEF FindConversation
    <3> QED
      BY <2>3, <3>1, <3>2 DEF FindConversation
  <2>4. ASSUME NEW h \in Handler, CreateConversation(h) PROVE CountInv'
    <3>1. CASE unread = NoConversation
      BY <1>0, <2>4, <3>1, CountFrame DEF CreateConversation
    <3>2. CASE unread # NoConversation
      BY <1>0, <2>4, <3>2, CountFrame, ThrowCount DEF CreateConversation
    <3> QED
      BY <3>1, <3>2
  <2>5. ASSUME NEW h \in Handler, StoreMessage(h) PROVE CountInv'
    <3>1. CASE MessageOf(h) \in stored
      <4>1. UNCHANGED <<stored, unread>> /\ Throw(h)
        BY <2>5, <3>1 DEF StoreMessage
      <4> QED
        BY <1>0, <4>1, CountFrame, ThrowCount
    <3>2. CASE MessageOf(h) \notin stored
      <4>1. /\ Go(h, "save")
            /\ UNCHANGED unread
            /\ stored' = stored \cup {MessageOf(h)}
        BY <2>5, <3>2 DEF StoreMessage
      <4>2. Cardinality(stored') = N + 1
        BY <3>2, <4>1, StoredIsFinite, FS_AddElement
      <4>3. \A g \in Handler : handler'[g].count = handler[g].count
        BY <4>1
      <4>4. \A g \in Handler : handler[g].count \in Nat
        OBVIOUS
      <4>5. unread \in Int
        BY DEF NoConversation
      <4>6. \A g \in Handler : handler'[g].count < N + 1
        BY <1>0, <4>3, <4>4
      <4>7. unread' <= N + 1
        BY <1>0, <4>1, <4>5
      <4> QED
        BY <1>0, <4>2, <4>3, <4>4, <4>6, <4>7 DEF CountInv
    <3> QED
      BY <3>1, <3>2
  <2>6. ASSUME NEW h \in Handler, SaveConversation(h) PROVE CountInv'
    <3>1. /\ handler[h].count < N /\ handler[h].count \in Nat
          /\ unread' = handler[h].count + 1
          /\ UNCHANGED stored
          /\ Go(h, "announce")
      BY <2>6 DEF SaveConversation, CountInv
    <3>2. unread' <= N
      BY <1>0, <3>1
    <3> QED
      BY <1>0, <3>1, <3>2, CountFrame
  <2>7. ASSUME NEW h \in Handler, Announce(h) PROVE CountInv'
    BY <1>0, <2>7, CountFrame DEF Announce
  <2>8. ASSUME NEW h \in Handler, Error(h) PROVE CountInv'
    BY <1>0, <2>8, CountFrame, ThrowCount DEF Error
  <2>9. ASSUME NEW h \in Handler, Crash(h) PROVE CountInv'
    BY <1>0, <2>9, CountFrame DEF Crash
  <2> QED
    BY <1>1, <2>1, <2>2, <2>3, <2>4, <2>5, <2>6, <2>7, <2>8, <2>9 DEF Store
<1>2. CASE Ingest \/ Stream \/ UNCHANGED vars
  <2>1. UNCHANGED chat
    BY <1>2 DEF Ingest, Stream, vars, chat, DuplicateDelivery,
           handleWebhookPost, Replay, publishRawWebhook, PublishFails,
           MarkPublished, MarkReplayed, MarkPending, persistDeadLetter, Die,
           receiveGupshup, send, SendFails, Lose
  <2> QED
    BY <1>0, <2>1, CountFrame DEF chat
<1> QED
  BY <1>1, <1>2 DEF Next

-----------------------------------------------------------------------------
(* What was handed over and met no fault is somewhere: the next service has *)
(* it before the last one forgets it.                                       *)

Busy(h) == handler[h].pc # "idle"
InHands(m) == \E h \in Handler : Busy(h) /\ MessageOf(h) = m
Arrived(m) == announced[m] > 0 \/ InHands(m)

HandedInv ==
  \A e \in handed : Carries[e] \notin struck => e \in raw \cup seen

SeenInv ==
  \A e \in seen : Carries[e] \notin struck =>
    e \in streaming \cup parsed \/ Arrived(Carries[e])

\* What is stored was announced, or is in the hands of the handler that stored it.
StoredInv ==
  \A m \in stored \ struck :
    announced[m] > 0 \/ \E h \in Handler : Past(h) /\ MessageOf(h) = m

\* A handler creates a conversation in its first attempt or not at all: whoever
\* lost that race finds one.
TriesInv ==
  \A h \in Handler : Busy(h) =>
    /\ handler[h].pc \in {"store", "save", "announce"} => unread # NoConversation
    /\ MessageOf(h) \notin struck =>
         /\ handler[h].tries >= 1
         /\ handler[h].pc = "create" => handler[h].tries = 1
         /\ handler[h].tries > 1 => unread # NoConversation

LossInv == HandedInv /\ SeenInv /\ StoredInv /\ TriesInv

LEMMA LossInit == Init => LossInv
BY DEF Init, LossInv, HandedInv, SeenInv, StoredInv, TriesInv, Busy, Free

LEMMA HandedNext == Shape /\ HandedInv /\ [Next]_vars => HandedInv'
<1> SUFFICES ASSUME Shape, HandedInv, [Next]_vars PROVE HandedInv'
  OBVIOUS
<1> USE DEF HandedInv
<1>1. CASE Stream
  <2>1. ASSUME NEW e \in Event, receiveGupshup(e) PROVE HandedInv'
    BY <2>1 DEF receiveGupshup, Heard, trouble
  <2>2. ASSUME NEW e \in Event, send(e) PROVE HandedInv'
    BY <2>2 DEF send, trouble
  <2>3. ASSUME NEW e \in Event, SendFails(e) PROVE HandedInv'
    BY <2>3 DEF SendFails, Strike
  <2>4. ASSUME NEW e \in Event, Lose(e) PROVE HandedInv'
    BY <2>4 DEF Lose, Strike, provider
  <2> QED
    BY <1>1, <2>1, <2>2, <2>3, <2>4 DEF Stream
<1>2. CASE Ingest
  <2>1. ASSUME NEW r \in Front, publishRawWebhook(r) PROVE HandedInv'
    BY <2>1 DEF publishRawWebhook, provider, trouble
  <2>2. ASSUME ~(\E r \in Front : publishRawWebhook(r))
        PROVE  UNCHANGED <<handed, raw, seen, struck>>
    BY <1>2, <2>2 DEF Ingest, DuplicateDelivery, handleWebhookPost, Replay,
           PublishFails, MarkPublished, MarkReplayed, MarkPending,
           persistDeadLetter, Die, provider, trouble
  <2> QED
    BY <2>1, <2>2
<1>3. CASE Store \/ UNCHANGED vars
  <2>1. UNCHANGED <<handed, raw, seen>> /\ struck \subseteq struck'
    BY <1>3 DEF Store, vars, provider, trouble, Strike, Receive, DuplicateMessage,
           FindConversation, CreateConversation, StoreMessage, SaveConversation,
           Announce, Error, Crash
  <2> QED
    BY <2>1
<1> QED
  BY <1>1, <1>2, <1>3 DEF Next

\* What a step of one handler leaves of the others.
OneHandler(h) ==
  /\ \A g \in Handler \ {h} : handler'[g] = handler[g]
  /\ \A m \in Message : announced[m] > 0 => announced'[m] > 0
  /\ struck \subseteq struck'

\* The steps of chat-service but the first.
Works(h) ==
  \/ DuplicateMessage(h) \/ FindConversation(h) \/ CreateConversation(h)
  \/ StoreMessage(h) \/ SaveConversation(h) \/ Announce(h) \/ Error(h) \/ Crash(h)

LEMMA WorksAlone ==
  ASSUME Shape, NEW h \in Handler, Works(h)
  PROVE  /\ OneHandler(h)
         /\ Busy(h) /\ MessageOf(h) \in Message
         /\ UNCHANGED <<seen, streaming, parsed>>
<1> USE InboundAssumption
    DEF Shape, ChatShape, HandlerRecord, In, Go, Has, Done, Throw, reached, trouble,
        Busy, MessageOf, OneHandler, Strike, provider
<1>1. CASE DuplicateMessage(h)
  BY <1>1 DEF DuplicateMessage
<1>2. CASE FindConversation(h)
  BY <1>2 DEF FindConversation
<1>3. CASE CreateConversation(h)
  BY <1>3 DEF CreateConversation
<1>4. CASE StoreMessage(h)
  BY <1>4 DEF StoreMessage
<1>5. CASE SaveConversation(h)
  BY <1>5 DEF SaveConversation
<1>6. CASE Announce(h)
  BY <1>6 DEF Announce
<1>7. CASE Error(h)
  BY <1>7 DEF Error
<1>8. CASE Crash(h)
  BY <1>8 DEF Crash
<1> QED
  BY <1>1, <1>2, <1>3, <1>4, <1>5, <1>6, <1>7, <1>8 DEF Works

\* A message that met no fault is not dropped by the handler that has it: one that
\* gives up has lost the race for a message that another stored.
LEMMA WorksKeepsArrived ==
  ASSUME Shape, StoredInv, TriesInv, NEW h \in Handler, Works(h),
         NEW m \in Message, m \notin struck', Arrived(m)
  PROVE  Arrived(m)'
<1>0. /\ OneHandler(h)
      /\ Busy(h)
      /\ m \notin struck
  BY WorksAlone DEF OneHandler
<1>1. ASSUME NEW g \in Handler \ {h}, Busy(g), MessageOf(g) = m PROVE Arrived(m)'
  BY <1>0, <1>1 DEF Arrived, InHands, OneHandler, Busy, MessageOf
<1>2. CASE announced[m] > 0
  BY <1>0, <1>2 DEF Arrived, OneHandler
<1>3. CASE Busy(h) /\ MessageOf(h) = m
  <2> USE InboundAssumption DEF Shape, ChatShape, HandlerRecord
  <2>1. ASSUME m \in stored, ~Past(h) PROVE Arrived(m)'
    BY <1>0, <1>1, <1>2, <2>1 DEF StoredInv, Past, Busy
  <2>2. ASSUME Busy(h)', handler'[h].event = handler[h].event PROVE Arrived(m)'
    BY <1>3, <2>2 DEF Arrived, InHands, MessageOf
  <2>3. CASE DuplicateMessage(h)
    BY <1>3, <2>1, <2>3 DEF DuplicateMessage, In, Past
  <2>4. CASE FindConversation(h)
    BY <2>2, <2>4 DEF FindConversation, Go, Has, Busy
  <2>5. CASE CreateConversation(h)
    <3>1. CASE Has(h, 0)
      BY <2>2, <3>1 DEF Has, Busy
    <3>2. CASE Throw(h)
      <4>1. handler[h].tries = 1
        BY <1>0, <1>3, <2>5 DEF CreateConversation, In, TriesInv
      <4> QED
        BY <2>2, <3>2, <4>1 DEF Throw, Busy
    <3> QED
      BY <2>5, <3>1, <3>2 DEF CreateConversation
  <2>6. CASE StoreMessage(h)
    <3>1. CASE m \in stored
      BY <2>1, <2>6, <3>1 DEF StoreMessage, In, Past
    <3>2. CASE m \notin stored
      BY <1>3, <2>2, <2>6, <3>2 DEF StoreMessage, Go, Busy
    <3> QED
      BY <3>1, <3>2
  <2>7. CASE SaveConversation(h)
    BY <2>2, <2>7 DEF SaveConversation, Go, Busy
  <2>8. CASE Announce(h)
    BY <1>3, <2>8 DEF Announce, Arrived
  <2>9. CASE Error(h) \/ Crash(h)
    BY <1>3, <2>9 DEF Error, Crash, Strike
  <2> QED
    BY <2>3, <2>4, <2>5, <2>6, <2>7, <2>8, <2>9, WorksAlone DEF Works
<1> QED
  BY <1>1, <1>2, <1>3 DEF Arrived, InHands

LEMMA SeenNext ==
  Shape /\ SeenInv /\ StoredInv /\ TriesInv /\ [Next]_vars => SeenInv'
<1> SUFFICES ASSUME Shape, SeenInv, StoredInv, TriesInv, [Next]_vars PROVE SeenInv'
  OBVIOUS
<1>0. \A e \in seen : e \in Event /\ Carries[e] \in Message
  BY InboundAssumption DEF Shape, ChannelShape
<1>1. CASE Stream
  <2>0. \A m \in Message : Arrived(m)' = Arrived(m)
    BY <1>1 DEF Stream, receiveGupshup, send, SendFails, Lose, chat, reached, Arrived,
           InHands, Busy, MessageOf
  <2> USE <1>0, <2>0, InboundAssumption DEF SeenInv
  <2>1. ASSUME NEW e \in Event, receiveGupshup(e) PROVE SeenInv'
    BY <2>1 DEF receiveGupshup, trouble
  <2>2. ASSUME NEW e \in Event, send(e) PROVE SeenInv'
    BY <2>2 DEF send, trouble
  <2>3. ASSUME NEW e \in Event, SendFails(e) PROVE SeenInv'
    BY <2>3 DEF SendFails, Strike
  <2>4. ASSUME NEW e \in Event, Lose(e) PROVE SeenInv'
    BY <2>4 DEF Lose, Strike, provider
  <2> QED
    BY <1>1, <2>1, <2>2, <2>3, <2>4 DEF Stream
<1>2. ASSUME NEW h \in Handler, NEW e \in Event, Receive(h, e) PROVE SeenInv'
  <2>1. UNCHANGED <<seen, streaming, announced, struck>> /\ parsed \ {e} \subseteq parsed'
    BY <1>2 DEF Receive, Heard, provider, reached, trouble
  <2>2. \A m \in Message : Arrived(m) => Arrived(m)'
    BY <1>2 DEF Receive, In, reached, Arrived, InHands, Busy, MessageOf
  <2>3. Arrived(Carries[e])'
    BY <1>2 DEF Receive, Arrived, InHands, Busy, MessageOf, Shape, ChatShape
  <2> QED
    BY <1>0, <2>1, <2>2, <2>3 DEF SeenInv
<1>3. ASSUME NEW h \in Handler, Works(h) PROVE SeenInv'
  <2>1. UNCHANGED <<seen, streaming, parsed>> /\ struck \subseteq struck'
    BY <1>3, WorksAlone DEF OneHandler
  <2>2. \A m \in Message \ struck' : Arrived(m) => Arrived(m)'
    BY <1>3, WorksKeepsArrived
  <2> QED
    BY <1>0, <2>1, <2>2 DEF SeenInv
<1>4. CASE Ingest \/ UNCHANGED vars
  <2>1. UNCHANGED <<seen, streaming, parsed, handler, announced, struck>>
    BY <1>4 DEF Ingest, vars, chat, provider, reached, trouble, DuplicateDelivery,
           handleWebhookPost, Replay, publishRawWebhook, PublishFails,
           MarkPublished, MarkReplayed, MarkPending, persistDeadLetter, Die
  <2> QED
    BY <2>1 DEF SeenInv, Arrived, InHands, Busy, MessageOf
<1> QED
  BY <1>1, <1>2, <1>3, <1>4 DEF Next, Store, Works

LEMMA StoredNext == Shape /\ StoredInv /\ [Next]_vars => StoredInv'
<1> SUFFICES ASSUME Shape, StoredInv, [Next]_vars,
                    NEW m \in stored', m \notin struck'
             PROVE  (announced[m] > 0 \/ \E k \in Handler : Past(k) /\ MessageOf(k) = m)'
  BY DEF StoredInv
<1> DEFINE Kept == announced[m] > 0 \/ \E k \in Handler : Past(k) /\ MessageOf(k) = m
<1>1. ASSUME UNCHANGED <<stored, handler, announced>>, struck \subseteq struck'
      PROVE  Kept'
  BY <1>1 DEF StoredInv, Past, MessageOf
<1>2. ASSUME NEW h \in Handler, NEW e \in Event, Receive(h, e) PROVE Kept'
  BY <1>2 DEF Receive, In, reached, trouble, StoredInv, Past, MessageOf, Shape, ChatShape
<1>3. ASSUME NEW h \in Handler, Works(h) PROVE Kept'
  <2> USE InboundAssumption DEF Shape, ChatShape, HandlerRecord
  <2>0. /\ OneHandler(h)
        /\ m \notin struck
        /\ MessageOf(h) \in Message
    BY <1>3, WorksAlone DEF OneHandler
  <2>1. ASSUME NEW k \in Handler \ {h}, Past(k), MessageOf(k) = m PROVE Kept'
    BY <2>0, <2>1 DEF OneHandler, Past, MessageOf
  <2>2. ASSUME m \in stored, ~Past(h) PROVE Kept'
    BY <2>0, <2>1, <2>2 DEF StoredInv, OneHandler
  <2>3. ASSUME Past(h)', handler'[h].event = handler[h].event, MessageOf(h) = m
        PROVE  Kept'
    BY <2>3 DEF MessageOf
  <2>4. ASSUME m \in stored, Past(h), MessageOf(h) # m PROVE Kept'
    BY <2>0, <2>1, <2>4 DEF StoredInv, OneHandler
  <2>5. CASE DuplicateMessage(h) \/ FindConversation(h) \/ CreateConversation(h)
    BY <2>2, <2>5 DEF DuplicateMessage, FindConversation, CreateConversation, In, Past
  <2>6. CASE StoreMessage(h)
    <3>1. CASE m \in stored
      BY <2>2, <2>6, <3>1 DEF StoreMessage, In, Past
    <3>2. CASE m \notin stored
      BY <2>3, <2>6, <3>2 DEF StoreMessage, Go, Past
    <3> QED
      BY <3>1, <3>2
  <2>7. CASE SaveConversation(h)
    <3>1. m \in stored /\ Past(h)' /\ handler'[h].event = handler[h].event /\ Past(h)
      BY <2>7 DEF SaveConversation, In, Go, Past
    <3> QED
      BY <2>3, <2>4, <3>1
  <2>8. CASE Announce(h)
    <3>1. m \in stored /\ Past(h) /\ (MessageOf(h) = m => announced'[m] > 0)
      BY <2>0, <2>8 DEF Announce, In, Past
    <3> QED
      BY <2>4, <3>1
  <2>9. CASE Error(h) \/ Crash(h)
    <3>1. m \in stored /\ MessageOf(h) # m
      BY <2>9 DEF Error, Crash, Strike
    <3> QED
      BY <2>2, <2>4, <3>1
  <2> QED
    BY <1>3, <2>5, <2>6, <2>7, <2>8, <2>9 DEF Works
<1>4. CASE Ingest \/ Stream \/ UNCHANGED vars
  BY <1>1, <1>4 DEF Ingest, Stream, vars, chat, reached, trouble, Strike,
         DuplicateDelivery, handleWebhookPost, Replay, publishRawWebhook,
         PublishFails, MarkPublished, MarkReplayed, MarkPending, persistDeadLetter,
         Die, receiveGupshup, send, SendFails, Lose
<1> QED
  BY <1>2, <1>3, <1>4 DEF Next, Store, Works

\* The part of TriesInv that is about one handler.
Tried(h) ==
  /\ handler[h].pc \in {"store", "save", "announce"} => unread # NoConversation
  /\ MessageOf(h) \notin struck =>
       /\ handler[h].tries >= 1
       /\ handler[h].pc = "create" => handler[h].tries = 1
       /\ handler[h].tries > 1 => unread # NoConversation

LEMMA TriesNext == Shape /\ TriesInv /\ [Next]_vars => TriesInv'
<1> SUFFICES ASSUME Shape, TriesInv, [Next]_vars, NEW g \in Handler, Busy(g)'
             PROVE  Tried(g)'
  BY DEF TriesInv, Tried
<1>1. Busy(g) => Tried(g)
  BY DEF TriesInv, Tried
<1>2. ASSUME handler'[g] = handler[g], struck \subseteq struck',
             unread' # NoConversation \/ unread' = unread
      PROVE  Tried(g)'
  BY <1>1, <1>2 DEF Tried, Busy, MessageOf
<1>3. ASSUME NEW h \in Handler, NEW e \in Event, Receive(h, e) PROVE Tried(g)'
  <2>1. CASE g = h
    BY <1>3, <2>1 DEF Receive, Tried, Shape, ChatShape
  <2>2. CASE g # h
    BY <1>2, <1>3, <2>2 DEF Receive, trouble
  <2> QED
    BY <2>1, <2>2
<1>4. ASSUME NEW h \in Handler, Works(h) PROVE Tried(g)'
  <2> USE InboundAssumption DEF Shape, ChatShape, HandlerRecord
  <2>0. /\ OneHandler(h)
        /\ Busy(h)
        /\ struck \subseteq struck'
    BY <1>4, WorksAlone DEF OneHandler
  <2>1. unread' # NoConversation \/ unread' = unread
    BY <1>4 DEF Works, DuplicateMessage, FindConversation, CreateConversation,
           StoreMessage, SaveConversation, Announce, Error, Crash, NoConversation
  <2>2. CASE g # h
    BY <1>2, <2>0, <2>1, <2>2 DEF OneHandler
  <2>3. CASE g = h
    <3>0. Tried(h)
      BY <1>1, <2>0, <2>3
    <3>1. ASSUME Throw(h), unread # NoConversation, unread' = unread PROVE Tried(h)'
      BY <2>0, <2>3, <3>0, <3>1 DEF Throw, Done, Free, Tried, Busy, MessageOf
    <3>2. CASE DuplicateMessage(h) \/ Crash(h) \/ Announce(h)
      BY <2>3, <3>2 DEF DuplicateMessage, Crash, Announce, Done, Free, Busy
    <3>3. CASE FindConversation(h)
      <4>1. CASE unread = NoConversation
        BY <2>0, <2>3, <3>0, <3>3, <4>1 DEF FindConversation, Go, Tried, Busy, MessageOf
      <4>2. CASE unread # NoConversation
        BY <2>0, <2>3, <3>0, <3>3, <4>2 DEF FindConversation, Has, Tried, Busy, MessageOf
      <4> QED
        BY <4>1, <4>2
    <3>4. CASE CreateConversation(h)
      <4>1. CASE unread = NoConversation
        BY <2>0, <2>3, <3>0, <3>4, <4>1
           DEF CreateConversation, Has, Tried, Busy, MessageOf, NoConversation
      <4>2. CASE unread # NoConversation
        BY <2>3, <3>1, <3>4, <4>2 DEF CreateConversation
      <4> QED
        BY <4>1, <4>2
    <3>5. CASE StoreMessage(h)
      <4>1. unread # NoConversation /\ unread' = unread
        BY <3>0, <3>5 DEF StoreMessage, In, Tried
      <4>2. CASE Go(h, "save")
        BY <2>0, <2>3, <3>0, <4>1, <4>2 DEF Go, Tried, MessageOf
      <4> QED
        BY <2>3, <3>1, <3>5, <4>1, <4>2 DEF StoreMessage
    <3>6. CASE SaveConversation(h)
      BY <2>0, <2>3, <3>0, <3>6
         DEF SaveConversation, Go, Tried, Busy, MessageOf, NoConversation
    <3>7. CASE Error(h)
      <4>1. handler'[h].pc = "find" /\ handler'[h].event = handler[h].event
        BY <2>3, <3>7 DEF Error, Throw, Done, Free, Busy
      <4>2. MessageOf(h) \in struck'
        BY <3>7 DEF Error, Strike
      <4> QED
        BY <2>3, <4>1, <4>2 DEF Tried, MessageOf
    <3> QED
      BY <1>4, <2>3, <3>2, <3>3, <3>4, <3>5, <3>6, <3>7 DEF Works
  <2> QED
    BY <2>2, <2>3
<1>5. CASE Ingest \/ Stream \/ UNCHANGED vars
  BY <1>2, <1>5 DEF Ingest, Stream, vars, chat, trouble, Strike,
         DuplicateDelivery, handleWebhookPost, Replay, publishRawWebhook,
         PublishFails, MarkPublished, MarkReplayed, MarkPending, persistDeadLetter,
         Die, receiveGupshup, send, SendFails, Lose
<1> QED
  BY <1>3, <1>4, <1>5 DEF Next, Store, Works

LEMMA LossNext == Shape /\ LossInv /\ [Next]_vars => LossInv'
BY HandedNext, SeenNext, StoredNext, TriesNext DEF LossInv

-----------------------------------------------------------------------------
(* The pipeline: who has an event, or the message of one, has it from the   *)
(* service before.                                                          *)

PipelineInv ==
  /\ raw \cup seen \subseteq handed
  /\ \A e \in parsed : streamed[e] = 1
  /\ \A h \in Handler : Busy(h) => streamed[handler[h].event] = 1

LEMMA PipelineInit == Init => PipelineInv
BY DEF Init, PipelineInv, Busy, Free

LEMMA PipelineNext ==
  Shape /\ StreamedInv /\ PipelineInv /\ [Next]_vars => PipelineInv'
<1> SUFFICES ASSUME Shape, StreamedInv, PipelineInv, [Next]_vars PROVE PipelineInv'
  OBVIOUS
<1> USE DEF PipelineInv
<1>1. CASE Stream
  <2> USE DEF Busy, Shape, ChannelShape, ChatShape
  <2>1. ASSUME NEW e \in Event, receiveGupshup(e) PROVE PipelineInv'
    BY <2>1 DEF receiveGupshup, Heard, chat, reached
  <2>2. ASSUME NEW e \in Event, send(e) PROVE PipelineInv'
    <3>1. streamed[e] = 0
      BY <2>2 DEF send, StreamedInv
    <3> QED
      BY <2>2, <3>1 DEF send, chat
  <2>3. ASSUME NEW e \in Event, SendFails(e) PROVE PipelineInv'
    BY <2>3 DEF SendFails, chat, reached
  <2>4. ASSUME NEW e \in Event, Lose(e) PROVE PipelineInv'
    BY <2>4 DEF Lose, provider, chat, reached
  <2> QED
    BY <1>1, <2>1, <2>2, <2>3, <2>4 DEF Stream
<1>2. CASE Ingest \/ UNCHANGED vars
  <2>1. UNCHANGED <<seen, parsed, streamed, handler>>
    BY <1>2 DEF Ingest, vars, provider, chat, reached, DuplicateDelivery,
           handleWebhookPost, Replay, publishRawWebhook, PublishFails,
           MarkPublished, MarkReplayed, MarkPending, persistDeadLetter, Die
  <2>2. handed \subseteq handed' /\ raw' \subseteq raw \cup handed'
    BY <1>2 DEF Ingest, vars, DuplicateDelivery, handleWebhookPost, Replay,
           publishRawWebhook, PublishFails, MarkPublished, MarkReplayed,
           MarkPending, persistDeadLetter, Die
  <2> QED
    BY <2>1, <2>2 DEF Busy
<1>3. ASSUME NEW h \in Handler, NEW e \in Event, Receive(h, e) PROVE PipelineInv'
  BY <1>3 DEF Receive, Heard, provider, reached, Busy, Shape, ChatShape
<1>4. ASSUME NEW h \in Handler, Works(h) PROVE PipelineInv'
  <2>1. /\ Busy(h)
        /\ UNCHANGED <<seen, parsed>>
        /\ \A g \in Handler \ {h} : handler'[g] = handler[g]
    BY <1>4, WorksAlone DEF OneHandler
  <2>2. UNCHANGED <<raw, handed, streamed>>
    BY <1>4 DEF Works, DuplicateMessage, FindConversation, CreateConversation,
           StoreMessage, SaveConversation, Announce, Error, Crash, reached
  <2>3. Busy(h)' => handler'[h].event = handler[h].event
    BY <1>4 DEF Works, DuplicateMessage, FindConversation, CreateConversation,
           StoreMessage, SaveConversation, Announce, Error, Crash, Throw, Done, Go,
           Has, Free, Busy, Shape, ChatShape, HandlerRecord
  <2> QED
    BY <2>1, <2>2, <2>3 DEF Busy
<1> QED
  BY <1>1, <1>2, <1>3, <1>4 DEF Next, Store, Works

\* Every step is one of the pipeline's or leaves it alone.
LEMMA PipelineStep ==
  ASSUME Shape, StreamedInv, HandledInv, PipelineInv, [Next]_vars
  PROVE  [Pipeline!Next]_(Pipeline!vars)
<1> DEFINE Quiet == UNCHANGED <<handed, streamed, stored, announced>>
<1>0. Quiet => UNCHANGED Pipeline!vars
  BY DEF Pipeline!vars
<1>1. CASE Ingest
  <2>1. ASSUME NEW r \in Front, publishRawWebhook(r)
        PROVE  \E e \in Event : Pipeline!PassOn(e)
    <3>1. front[r].event \in Event
      BY <2>1 DEF publishRawWebhook, At, Shape, IngestorShape
    <3>2. Pipeline!PassOn(front[r].event)
      BY <2>1 DEF publishRawWebhook, chat, reached, Pipeline!PassOn
    <3> QED
      BY <3>1, <3>2
  <2>2. ASSUME ~(\E r \in Front : publishRawWebhook(r)) PROVE Quiet
    BY <1>1, <2>2 DEF Ingest, DuplicateDelivery, handleWebhookPost, Replay,
           PublishFails, MarkPublished, MarkReplayed, MarkPending,
           persistDeadLetter, Die, chat, reached
  <2> QED
    BY <1>0, <2>1, <2>2 DEF Pipeline!Next
<1>2. CASE Stream
  <2>1. ASSUME NEW e \in Event, send(e) PROVE Pipeline!Parse(e)
    <3>1. e \in handed
      BY <2>1 DEF send, PipelineInv, Shape, ChannelShape
    <3>2. streamed[e] = 0
      BY <2>1 DEF send, StreamedInv
    <3> QED
      BY <2>1, <3>1, <3>2 DEF send, chat, Pipeline!Parse
  <2>2. ASSUME ~(\E e \in Event : send(e)) PROVE Quiet
    BY <1>2, <2>2 DEF Stream, receiveGupshup, SendFails, Lose, chat, reached
  <2> QED
    BY <1>0, <2>1, <2>2 DEF Pipeline!Next
<1>3. ASSUME NEW h \in Handler, NEW e \in Event, Receive(h, e) PROVE Quiet
  BY <1>3 DEF Receive, reached
<1>4. ASSUME NEW h \in Handler, StoreMessage(h)
      PROVE  Quiet \/ Pipeline!Keep(MessageOf(h))
  <2>1. CASE MessageOf(h) \in stored
    BY <1>4, <2>1 DEF StoreMessage
  <2>2. CASE MessageOf(h) \notin stored
    <3>1. handler[h].event \in Event /\ streamed[handler[h].event] = 1
      BY <1>4 DEF StoreMessage, In, Busy, PipelineInv, Shape, ChatShape
    <3> QED
      BY <1>4, <2>2, <3>1 DEF StoreMessage, MessageOf, Pipeline!Keep
  <2> QED
    BY <2>1, <2>2
<1>5. ASSUME NEW h \in Handler, Announce(h) PROVE Pipeline!Show(MessageOf(h))
  <2>1. MessageOf(h) \in stored /\ announced[MessageOf(h)] = 0
    BY <1>5 DEF Announce, In, Past, HandledInv
  <2> QED
    BY <1>5, <2>1 DEF Announce, Pipeline!Show
<1>6. ASSUME NEW h \in Handler,
             \/ DuplicateMessage(h) \/ FindConversation(h) \/ CreateConversation(h)
             \/ SaveConversation(h) \/ Error(h) \/ Crash(h)
      PROVE  Quiet
  BY <1>6 DEF DuplicateMessage, FindConversation, CreateConversation,
         SaveConversation, Error, Crash, reached
<1>7. CASE UNCHANGED vars
  BY <1>0, <1>7 DEF vars, chat, reached
<1>8. ASSUME NEW h \in Handler, Works(h) PROVE MessageOf(h) \in Message
  BY <1>8, WorksAlone
<1> QED
  BY <1>0, <1>1, <1>2, <1>3, <1>4, <1>5, <1>6, <1>7, <1>8
     DEF Next, Store, Works, Pipeline!Next

-----------------------------------------------------------------------------
(* The theorems. *)

IInv ==
  /\ Shape
  /\ AccountedInv /\ StreamedInv /\ HandledInv /\ CountInv
  /\ LossInv /\ PipelineInv

LEMMA Inductive == Spec => []IInv
<1>1. Init => IInv
  BY ShapeInit, AccountedInit, StreamedInit, HandledInit, CountInit, LossInit,
     PipelineInit
     DEF IInv
<1>2. IInv /\ [Next]_vars => IInv'
  BY ShapeNext, AccountedNext, StreamedNext, HandledNext, CountNext, LossNext,
     PipelineNext
     DEF IInv
<1> QED
  BY <1>1, <1>2, PTL DEF Spec

\* Every state has the shape TypeOK gives it; in particular the unread counter
\* and the copies handlers hold of it stay within the number of messages.
THEOREM TypeCorrect == Spec => []TypeOK
<1>1. IInv => TypeOK
  <2> SUFFICES ASSUME IInv PROVE TypeOK
    OBVIOUS
  <2>1. unread \in {NoConversation} \cup 0 .. Cardinality(Message)
    BY StoredIsFinite DEF IInv, CountInv, Shape, ChatShape, NoConversation
  <2>2. \A h \in Handler : handler[h].count \in 0 .. Cardinality(Message)
    BY StoredIsFinite DEF IInv, CountInv, Shape, ChatShape, HandlerRecord
  <2>3. handler \in [Handler -> [pc : Stage, event : Event \cup {NoEvent},
                                 tries : 0 .. Attempts,
                                 count : 0 .. Cardinality(Message)]]
    BY <2>2 DEF IInv, Shape, ChatShape, HandlerRecord
  <2> QED
    BY <2>1, <2>3
       DEF IInv, Shape, IngestorShape, ChannelShape, ChatShape, FrontRecord,
           TypeOK
<1> QED
  BY <1>1, Inductive, PTL

\* Whatever fails between a webhook's receipt, its publication and its dead
\* letter, no event that was answered is forgotten by the ingestor.
THEOREM AnsweredEventsAccounted == Spec => []Accounted
<1>1. IInv => Accounted
  BY DEF IInv, AccountedInv
<1> QED
  BY <1>1, Inductive, PTL

\* The upsert of bsp_webhook_events makes receiveGupshup stream an event once,
\* however often it is delivered and replayed.
THEOREM EventsStreamOnce == Spec => []StreamedOnce
<1>1. IInv => StreamedOnce
  BY DEF IInv, StreamedInv, StreamedOnce
<1> QED
  BY <1>1, Inductive, PTL

\* The unique index and the retries of processParsedMessage: a message reaches
\* the inbox and the automation engine once at most, and no more messages
\* count as unread than are stored.
THEOREM MessagesHandledOnce == Spec => []HandledOnce
<1>1. IInv => HandledOnce
  BY DEF IInv, HandledInv, CountInv, HandledOnce
<1> QED
  BY <1>1, Inductive, PTL

\* Deliveries, handlers and retries that race lose nothing: receiveGupshup and the
\* attempts at processParsedMessage pass a message on, unless a fault meets it after
\* it was handed over.  Two attempts suffice, whatever the number of handlers.
THEOREM MessagesAreLostOnlyByFault == Spec => []LostOnlyByFault
<1>1. IInv => LostOnlyByFault
  BY InboundAssumption
     DEF IInv, Shape, IngestorShape, LossInv, HandedInv, SeenInv, Arrived, InHands,
         Busy, In, LostOnlyByFault
<1> QED
  BY <1>1, Inductive, PTL

\* The three services with their receipts, dead letters, replays and retries do what
\* the pipeline allows: publishRawWebhook passes an event on, send streams it,
\* Message.create keeps the message, the realtime event shows it, in this order.
THEOREM InboundImplementsPipeline == Spec => ImplementsPipeline
<1>1. Init => Pipeline!Init
  BY DEF Init, Pipeline!Init
<1>2. IInv /\ [Next]_vars => [Pipeline!Next]_(Pipeline!vars)
  BY PipelineStep DEF IInv
<1> QED
  BY <1>1, <1>2, Inductive, PTL DEF Spec, ImplementsPipeline, Pipeline!Spec
=============================================================================
