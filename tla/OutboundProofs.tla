--------------------------- MODULE OutboundProofs ---------------------------
(***************************************************************************)
(* Proofs about Outbound, for any number of calls, keys and ids, however   *)
(* keys and ids are shared among the calls, and any number of faults.      *)
(***************************************************************************)
EXTENDS Outbound, FiniteSetTheorems, TLAPS

-----------------------------------------------------------------------------
(* Types.  A call that is about to store or count has a message.           *)

ChatRecord == [pc : Step, charged : BOOLEAN, message : Call \cup {NoCall}]
HandlerRecord == [pc : Stage, loaded : {"dispatching", "failed"},
                  message : Call \cup {NoCall}]
DispatchRecord == [status : {"none", "accepted", "failed"} \cup Uncertain,
                   message : Call \cup {NoCall}]

ChatOK ==
  /\ chat \in [Call -> ChatRecord]
  /\ \A c \in Call : chat[c].pc \in {"store", "count"} => chat[c].message \in Call

HandlerOK ==
  /\ handler \in [Call -> HandlerRecord]
  /\ record \in [Id -> DispatchRecord]
  /\ accepted \subseteq Call
  /\ refused \subseteq Id

MoneyOK ==
  /\ taken \in [Key -> Nat]
  /\ charges \subseteq Key
  /\ refunds \subseteq Key
  /\ spoiled \subseteq Key
  /\ faults \in 0 .. MaxFaults

InboxOK ==
  /\ reports \in [Call -> SUBSET Outcome]
  /\ rows \in [Call -> {"none"} \cup Status]
  /\ counted \in Nat

Shape == ChatOK /\ HandlerOK /\ MoneyOK /\ InboxOK

\* The assumptions as the steps need them, one call at a time.
LEMMA Own ==
  ASSUME NEW c \in Call
  PROVE  KeyOf[c] \in Key /\ IdOf[c] \in Id /\ c # NoCall /\ MaxFaults \in Nat
BY OutboundAssumption

LEMMA ShapeInit == Init => Shape
BY OutboundAssumption
   DEF Init, Shape, ChatOK, HandlerOK, MoneyOK, InboxOK, ChatRecord,
       HandlerRecord, DispatchRecord, Rest, Step, Stage, Uncertain, Status

\* The two ways a call leaves a step without anything to remember.
LEMMA EndKeepsChat ==
  ASSUME ChatOK, NEW c \in Call, End(c) PROVE ChatOK'
BY DEF ChatOK, ChatRecord, End, Over, Rest, Step

LEMMA GoToKeepsChat ==
  ASSUME ChatOK, NEW c \in Call,
         NEW s \in Step \ {"store", "count"}, GoTo(c, s)
  PROVE  ChatOK'
BY DEF ChatOK, ChatRecord, GoTo, Step

LEMMA FailKeepsChat ==
  ASSUME ChatOK, NEW c \in Call, Fail(c) PROVE ChatOK'
<1>1. "refund" \in Step \ {"store", "count"}
  BY DEF Step
<1> QED
  BY <1>1, EndKeepsChat, GoToKeepsChat DEF Fail

LEMMA ChargeKeepsShape ==
  ASSUME Shape, NEW c \in Call, Charge(c)
  PROVE  Shape'
<1>0. KeyOf[c] \in Key /\ IdOf[c] \in Id /\ c # NoCall /\ MaxFaults \in Nat
  BY Own
<1> USE <1>0 DEF Shape, money, inbox, provider, Sound, At, In
<1>1. CASE Unbilled(c)
  <2>1. ChatOK'
    BY <1>1 DEF Unbilled, ChatOK, GoTo, ChatRecord, Step
  <2>2. HandlerOK' /\ MoneyOK' /\ InboxOK'
    BY <1>1 DEF Unbilled, HandlerOK, MoneyOK, InboxOK
  <2> QED
    BY <2>1, <2>2
<1>2. CASE chargeTemplateMessage(c)
  <2>1. ChatOK'
    BY <1>2 DEF chargeTemplateMessage, ChatOK, GoTo, ChatRecord, Step
  <2>2. HandlerOK' /\ MoneyOK' /\ InboxOK'
    BY <1>2 DEF chargeTemplateMessage, HandlerOK, MoneyOK, InboxOK
  <2> QED
    BY <2>1, <2>2
<1>3. CASE deduct(c)
  <2>1. ChatOK'
    BY <1>3, EndKeepsChat DEF deduct, ChatOK, ChatRecord, Step
  <2>2. MoneyOK'
    BY <1>3 DEF deduct, MoneyOK
  <2>3. HandlerOK' /\ InboxOK'
    BY <1>3 DEF deduct, HandlerOK, InboxOK
  <2> QED
    BY <2>1, <2>2, <2>3
<1>4. CASE ChargeFails(c)
  <2>1. ChatOK'
    BY <1>4, EndKeepsChat DEF ChargeFails, ChatOK
  <2>2. MoneyOK'
    BY <1>4 DEF ChargeFails, MoneyOK, Faulty
  <2>3. HandlerOK' /\ InboxOK'
    BY <1>4 DEF ChargeFails, HandlerOK, InboxOK
  <2> QED
    BY <2>1, <2>2, <2>3
<1> QED
  BY <1>1, <1>2, <1>3, <1>4 DEF Charge

LEMMA FollowKeepsShape ==
  ASSUME Shape, NEW c \in Call, Follow(c)
  PROVE  Shape'
<1>0. KeyOf[c] \in Key /\ IdOf[c] \in Id /\ c # NoCall /\ MaxFaults \in Nat
  BY Own
<1> USE <1>0 DEF Shape, money, inbox, provider, Sound, At, In
<1>1. CASE POST(c)
  <2>1. ChatOK'
    BY <1>1 DEF POST, ChatOK, GoTo, ChatRecord, Step
  <2>2. HandlerOK'
    BY <1>1 DEF POST, HandlerOK, Go, HandlerRecord, Stage
  <2>3. MoneyOK' /\ InboxOK'
    BY <1>1 DEF POST, MoneyOK, InboxOK
  <2> QED
    BY <2>1, <2>2, <2>3
<1>2. CASE Answered(c)
  <2>1. ChatOK'
    <3>1. CASE handler[c].message = NoCall
      BY <1>2, <3>1, FailKeepsChat DEF Answered
    <3>2. CASE handler[c].message # NoCall
      BY <1>2, <3>2 DEF Answered, ChatOK, HandlerOK, ChatRecord, HandlerRecord,
      Step
    <3> QED
      BY <3>1, <3>2
  <2>2. HandlerOK' /\ MoneyOK' /\ InboxOK'
    BY <1>2 DEF Answered, HandlerOK, MoneyOK, InboxOK
  <2> QED
    BY <2>1, <2>2
<1>3. CASE TimeOut(c)
  <2>1. ChatOK'
    BY <1>3, FailKeepsChat DEF TimeOut, ChatOK
  <2>2. HandlerOK'
    BY <1>3 DEF TimeOut, HandlerOK, Go, HandlerRecord, Stage
  <2>3. MoneyOK' /\ InboxOK'
    BY <1>3 DEF TimeOut, MoneyOK, InboxOK
  <2> QED
    BY <2>1, <2>2, <2>3
<1>4. CASE refundTemplateCharge(c)
  <2>1. ChatOK'
    BY <1>4, EndKeepsChat DEF refundTemplateCharge, ChatOK
  <2>2. MoneyOK'
    BY <1>4 DEF refundTemplateCharge, MoneyOK, Faulty
  <2>3. HandlerOK' /\ InboxOK'
    BY <1>4 DEF refundTemplateCharge, HandlerOK, InboxOK
  <2> QED
    BY <2>1, <2>2, <2>3
<1>5. CASE StoreMessage(c)
  <2>1. ChatOK'
    BY <1>5, EndKeepsChat DEF StoreMessage, ChatOK, GoTo, ChatRecord, Step
  <2>2. InboxOK'
    BY <1>5 DEF StoreMessage, InboxOK, Status, ChatOK
  <2>3. HandlerOK' /\ MoneyOK'
    BY <1>5 DEF StoreMessage, HandlerOK, MoneyOK
  <2> QED
    BY <2>1, <2>2, <2>3
<1>6. CASE applyOutboundConversationUpdate(c)
  <2>1. ChatOK'
    BY <1>6, EndKeepsChat DEF applyOutboundConversationUpdate, ChatOK
  <2>2. InboxOK'
    BY <1>6 DEF applyOutboundConversationUpdate, InboxOK
  <2>3. HandlerOK' /\ MoneyOK'
    BY <1>6 DEF applyOutboundConversationUpdate, HandlerOK, MoneyOK
  <2> QED
    BY <2>1, <2>2, <2>3
<1>7. CASE Crash(c)
  <2>1. ChatOK'
    BY <1>7, EndKeepsChat DEF Crash, ChatOK
  <2>2. MoneyOK'
    BY <1>7 DEF Crash, MoneyOK, Faulty
  <2>3. HandlerOK' /\ InboxOK'
    BY <1>7 DEF Crash, HandlerOK, InboxOK
  <2> QED
    BY <2>1, <2>2, <2>3
<1> QED
  BY <1>1, <1>2, <1>3, <1>4, <1>5, <1>6, <1>7 DEF Follow

LEMMA ServeKeepsShape ==
  ASSUME Shape, NEW c \in Call, Serve(c)
  PROVE  Shape'
<1>0. KeyOf[c] \in Key /\ IdOf[c] \in Id /\ c # NoCall /\ MaxFaults \in Nat
  BY Own
<1> USE <1>0 DEF Shape, money, inbox, provider, Sound, At, In
<1>1. CASE FindDispatch(c)
  <2>1. HandlerOK'
    BY <1>1
       DEF FindDispatch, HandlerOK, Go, Answer, HandlerRecord, Stage,
           DispatchRecord, Uncertain
  <2>2. ChatOK' /\ MoneyOK' /\ InboxOK'
    BY <1>1 DEF FindDispatch, ChatOK, MoneyOK, InboxOK
  <2> QED
    BY <2>1, <2>2
<1>2. CASE CreateDispatch(c)
  <2>1. HandlerOK'
    BY <1>2
       DEF CreateDispatch, HandlerOK, Go, Answer, HandlerRecord, Stage,
           DispatchRecord, Uncertain
  <2>2. ChatOK' /\ MoneyOK' /\ InboxOK'
    BY <1>2 DEF CreateDispatch, ChatOK, MoneyOK, InboxOK
  <2> QED
    BY <2>1, <2>2
<1>3. CASE Accept(c)
  <2>1. HandlerOK'
    BY <1>3 DEF Accept, HandlerOK, Go, HandlerRecord, Stage
  <2>2. ChatOK' /\ MoneyOK' /\ InboxOK'
    BY <1>3 DEF Accept, ChatOK, MoneyOK, InboxOK
  <2> QED
    BY <2>1, <2>2
<1>4. CASE Refuse(c)
  <2>1. HandlerOK'
    BY <1>4 DEF Refuse, HandlerOK, Go, HandlerRecord, Stage
  <2>2. ChatOK' /\ MoneyOK' /\ InboxOK'
    BY <1>4 DEF Refuse, ChatOK, MoneyOK, InboxOK
  <2> QED
    BY <2>1, <2>2
<1>5. CASE NoAnswer(c)
  <2>1. HandlerOK'
    BY <1>5 DEF NoAnswer, HandlerOK, Go, HandlerRecord, Stage
  <2>2. ChatOK' /\ MoneyOK' /\ InboxOK'
    BY <1>5 DEF NoAnswer, ChatOK, MoneyOK, InboxOK
  <2> QED
    BY <2>1, <2>2
<1>6. CASE SaveAccepted(c)
  <2>1. HandlerOK'
    <3>1. record' \in [Id -> DispatchRecord]
      BY <1>6 DEF SaveAccepted, HandlerOK, DispatchRecord, Uncertain
    <3>2. handler' \in [Call -> HandlerRecord]
      BY <1>6 DEF SaveAccepted, HandlerOK, Answer, HandlerRecord, Stage
    <3> QED
      BY <1>6, <3>1, <3>2 DEF SaveAccepted, HandlerOK
  <2>2. ChatOK' /\ MoneyOK' /\ InboxOK'
    BY <1>6 DEF SaveAccepted, ChatOK, MoneyOK, InboxOK
  <2> QED
    BY <2>1, <2>2
<1>7. CASE SaveFails(c)
  <2>1. HandlerOK'
    BY <1>7 DEF SaveFails, HandlerOK, Go, HandlerRecord, Stage
  <2>2. MoneyOK'
    BY <1>7 DEF SaveFails, MoneyOK, Faulty
  <2>3. ChatOK' /\ InboxOK'
    BY <1>7 DEF SaveFails, ChatOK, InboxOK
  <2> QED
    BY <2>1, <2>2, <2>3
<1>8. CASE SaveError(c)
  <2>1. HandlerOK'
    <3>1. record' \in [Id -> DispatchRecord]
      BY <1>8 DEF SaveError, HandlerOK, DispatchRecord, Uncertain
    <3>2. handler' \in [Call -> HandlerRecord]
      <4>1. Answer(c, NoCall)
        BY <1>8 DEF SaveError
      <4> QED
        BY <4>1 DEF HandlerOK, Answer, HandlerRecord, Stage
    <3>3. accepted' = accepted /\ refused' = refused
      BY <1>8 DEF SaveError
    <3> QED
      BY <3>1, <3>2, <3>3 DEF HandlerOK
  <2>2. ChatOK' /\ MoneyOK' /\ InboxOK'
    BY <1>8 DEF SaveError, ChatOK, MoneyOK, InboxOK
  <2> QED
    BY <2>1, <2>2
<1>9. CASE Die(c)
  <2>1. HandlerOK'
    BY <1>9 DEF Die, HandlerOK, Answer, HandlerRecord, Stage
  <2>2. MoneyOK'
    BY <1>9 DEF Die, MoneyOK, Faulty
  <2>3. ChatOK' /\ InboxOK'
    BY <1>9 DEF Die, ChatOK, InboxOK
  <2> QED
    BY <2>1, <2>2, <2>3
<1> QED
  BY <1>1, <1>2, <1>3, <1>4, <1>5, <1>6, <1>7, <1>8, <1>9 DEF Serve

LEMMA ReportKeepsShape ==
  ASSUME Shape, NEW m \in Call, NEW s \in Outcome,
         Report(m, s) \/ updateStatus(m, s)
  PROVE  Shape'
<1>1. InboxOK'
  BY DEF Shape, InboxOK, Report, updateStatus, Status, Stored, inbox
<1>2. HandlerOK' /\ MoneyOK' /\ ChatOK'
  BY DEF Shape, HandlerOK, MoneyOK, ChatOK, Report, updateStatus, Sound, money
<1> QED
  BY <1>1, <1>2 DEF Shape

LEMMA StepKeepsShape == Shape /\ [Next]_vars => Shape'
<1>1. Shape /\ UNCHANGED vars => Shape'
  BY DEF Shape, ChatOK, HandlerOK, MoneyOK, InboxOK, vars, money, inbox,
  provider
<1> QED
  BY <1>1, ChargeKeepsShape, FollowKeepsShape, ServeKeepsShape,
  ReportKeepsShape
     DEF Next

\* Every reachable state has its type, whatever interleaves or dies.
THEOREM TypeCorrect == Spec => []TypeOK
<1>1. Spec => []Shape
  BY ShapeInit, StepKeepsShape, PTL DEF Spec
<1>2. Shape => TypeOK
  BY DEF Shape, ChatOK, HandlerOK, MoneyOK, InboxOK, TypeOK, ChatRecord,
         HandlerRecord, DispatchRecord
<1> QED
  BY <1>1, <1>2, PTL

-----------------------------------------------------------------------------
(* Money.  A charge is known to have been taken before anything else is told *)
(* of it.                                                                   *)

Charged(k) == taken[k] > 0

MoneyInv ==
  /\ \A k \in charges \cup refunds : Charged(k)
  /\ \A c \in Call : chat[c].charged => Charged(KeyOf[c])
  /\ \A c \in Call : chat[c].pc = "refund" => chat[c].charged

LEMMA MoneyInit == Init => MoneyInv
BY DEF Init, MoneyInv, Rest

\* Deductions are never undone, so only new charges and refunds matter.
LEMMA MoneyStep == Shape /\ MoneyInv /\ [Next]_vars => MoneyInv'
<1> SUFFICES ASSUME Shape, MoneyInv, [Next]_vars PROVE MoneyInv'
  OBVIOUS
<1> USE DEF MoneyInv, Charged, Shape, ChatOK, MoneyOK, ChatRecord, At, money, Sound
<1>1. CASE UNCHANGED <<chat, money>>
  BY <1>1
<1>2. ASSUME NEW c \in Call, UNCHANGED money,
             \/ End(c)
             \/ \E s \in Step \ {"refund"} : GoTo(c, s)
             \/ Fail(c)
      PROVE  MoneyInv'
  <2>1. CASE End(c)
    BY <1>2, <2>1 DEF End, Over, Rest
  <2>2. ASSUME NEW s \in Step \ {"refund"}, GoTo(c, s) PROVE MoneyInv'
    BY <1>2, <2>2 DEF GoTo
  <2>3. CASE chat[c].charged /\ GoTo(c, "refund")
    BY <1>2, <2>3 DEF GoTo
  <2> QED
    BY <1>2, <2>1, <2>2, <2>3 DEF Fail
<1>3. ASSUME NEW c \in Call, Charge(c) PROVE MoneyInv'
  <2>0. KeyOf[c] \in Key
    BY Own
  <2>1. CASE Unbilled(c)
    BY <2>1, <1>2 DEF Unbilled, Step
  <2>2. CASE chargeTemplateMessage(c)
    BY <2>0, <2>2 DEF chargeTemplateMessage, GoTo
  <2>3. CASE deduct(c)
    BY <2>0, <2>3 DEF deduct, End, Over, Rest
  <2>4. CASE ChargeFails(c)
    <3>1. End(c) /\ refunds' = refunds
      BY <2>4 DEF ChargeFails
    <3>2. /\ \A k \in Key : taken[k] > 0 => taken'[k] > 0
          /\ \A k \in charges' : taken'[k] > 0
      <4>1. CASE taken' = taken /\ charges' = charges
        BY <4>1
      <4>2. CASE /\ taken' = [taken EXCEPT ![KeyOf[c]] = @ + 1]
                 /\ charges' \in {charges, charges \cup {KeyOf[c]}}
        BY <2>0, <4>2
      <4> QED
        BY <2>4, <4>1, <4>2 DEF ChargeFails
    <3>3. \A d \in Call :
            /\ chat'[d].charged => chat[d].charged
            /\ chat'[d].pc = "refund" => chat'[d].charged
      BY <3>1 DEF End, Over, Rest
    <3> QED
      BY <3>1, <3>2, <3>3, Own
  <2> QED
    BY <1>3, <2>1, <2>2, <2>3, <2>4 DEF Charge
<1>4. ASSUME NEW c \in Call, Follow(c) PROVE MoneyInv'
  <2>1. CASE POST(c)
    BY <2>1, <1>2 DEF POST, Step
  <2>2. CASE Answered(c)
    <3>1. CASE Fail(c)
      BY <2>2, <3>1, <1>2 DEF Answered
    <3>2. CASE ~Fail(c)
      BY <2>2, <3>2 DEF Answered
    <3> QED
      BY <3>1, <3>2
  <2>3. CASE TimeOut(c)
    BY <2>3, <1>2 DEF TimeOut
  <2>4. CASE refundTemplateCharge(c)
    BY <2>4, Own DEF refundTemplateCharge, End, Over, Rest
  <2>5. CASE StoreMessage(c)
    BY <2>5, <1>2 DEF StoreMessage, Step
  <2>6. CASE applyOutboundConversationUpdate(c)
    BY <2>6, <1>2 DEF applyOutboundConversationUpdate
  <2>7. CASE Crash(c)
    BY <2>7, <1>2 DEF Crash
  <2> QED
    BY <1>4, <2>1, <2>2, <2>3, <2>4, <2>5, <2>6, <2>7 DEF Follow
<1>5. ASSUME NEW c \in Call, Serve(c) PROVE MoneyInv'
  <2>1. UNCHANGED <<chat, money>>
    BY <1>5 DEF Serve, FindDispatch, CreateDispatch, Accept, Refuse, NoAnswer,
                SaveAccepted, SaveFails, SaveError, Die
  <2> QED
    BY <1>1, <2>1
<1>6. ASSUME NEW m \in Call, NEW s \in Outcome, Report(m, s) \/ updateStatus(m, s)
      PROVE  MoneyInv'
  BY <1>6, <1>1 DEF Report, updateStatus
<1> QED
  BY <1>1, <1>3, <1>4, <1>5, <1>6 DEF Next, vars

\* The money of a key goes back only if it was taken.
THEOREM RefundsAreBacked == Spec => []RefundsAreOwed
<1>1. Spec => []Shape
  BY ShapeInit, StepKeepsShape, PTL DEF Spec
<1>2. Spec => []MoneyInv
  BY <1>1, MoneyInit, MoneyStep, PTL DEF Spec
<1>3. MoneyInv => RefundsAreOwed
  BY DEF MoneyInv, Charged, RefundsAreOwed
<1> QED
  BY <1>2, <1>3, PTL

-----------------------------------------------------------------------------
(* Dispatches.  Whoever has a record open is its creator or came after a     *)
(* refusal.                                                                 *)

Sends(c) == c \in accepted \/ handler[c].pc = "send"

\* What a handler knows, and what a call was told.
AheadInv ==
  \A c \in Call : chat[c].pc \in {"idle", "take", "dispatch"}
                  => handler[c].pc = "idle"

HeardInv ==
  /\ \A c \in Call : handler[c].pc \in {"accepted", "unsaved"} => c \in accepted
  /\ \A c \in Call : handler[c].pc = "refused" => IdOf[c] \in refused

LoadedInv ==
  \A c \in Call : handler[c].loaded = "failed" =>
    /\ IdOf[c] \in refused
    /\ record[IdOf[c]].status \notin {"none", "dispatching"}

ToldInv ==
  /\ \A c \in Call : handler[c].pc # "answered" => handler[c].message = NoCall
  /\ \A c \in Call : handler[c].message # NoCall
       => handler[c].message \in SentFor(IdOf[c])
  /\ \A c \in Call : chat[c].pc \in {"store", "count"}
       => chat[c].message \in SentFor(IdOf[c])

KnowledgeInv == AheadInv /\ HeardInv /\ LoadedInv /\ ToldInv

\* What a record says.
RecordInv ==
  \A i \in Id :
    /\ record[i].status = "none" =>
         /\ record[i].message = NoCall
         /\ \A c \in Call : IdOf[c] = i => ~Sends(c) /\ ~Working(c)
    /\ record[i].status = "accepted" => record[i].message # NoCall
    /\ record[i].message # NoCall => record[i].message \in SentFor(i)
    /\ record[i].status = "failed" => i \in refused
    /\ record[i].status = "dispatching"
       => \E c \in Call : IdOf[c] = i /\ (Working(c) \/ KeyOf[c] \in spoiled)

\* A handler sends once, and two send for one id only after a refusal.
SenderInv ==
  /\ \A c \in accepted :
       handler[c].pc \notin {"idle", "find", "create", "send", "refused"}
  /\ \A c, d \in Call : Sends(c) /\ Sends(d) /\ IdOf[c] = IdOf[d]
                        /\ IdOf[c] \notin refused => c = d

DispatchInv == KnowledgeInv /\ RecordInv /\ SenderInv

LEMMA DispatchInit == Init => DispatchInv
BY OutboundAssumption
   DEF Init, DispatchInv, KnowledgeInv, AheadInv, HeardInv, LoadedInv, ToldInv,
       RecordInv, SenderInv, Sends, Working,
       SentFor, Rest

\* What a step leaves alone cannot break the invariant.
LEMMA DispatchFrame ==
  ASSUME DispatchInv, UNCHANGED <<handler, record, accepted, refused>>,
         spoiled \subseteq spoiled',
         \A c \in Call :
           \/ chat'[c] = chat[c]
           \/ chat'[c].pc \in {"refund", "done"}
           \/ /\ handler[c].pc = "idle"
              /\ chat'[c].pc \notin {"store", "count"}
           \/ /\ chat'[c].pc \in {"store", "count"}
              /\ chat'[c].message \in SentFor(IdOf[c])
  PROVE  DispatchInv'
<1>1. KnowledgeInv'
  BY DEF DispatchInv, KnowledgeInv, AheadInv, HeardInv, LoadedInv, ToldInv, SentFor
<1>2. RecordInv'
  BY DEF DispatchInv, RecordInv, Sends, Working, SentFor
<1>3. SenderInv'
  BY DEF DispatchInv, SenderInv, Sends
<1> QED
  BY <1>1, <1>2, <1>3 DEF DispatchInv

LEMMA ChatKeepsDispatch ==
  ASSUME Shape, DispatchInv, NEW c \in Call, Charge(c) \/ Follow(c),
         ~POST(c), ~TimeOut(c)
  PROVE  DispatchInv'
<1> USE DEF Shape, ChatOK, HandlerOK, ChatRecord, HandlerRecord, At, In, Sound,
            money, inbox, provider
<1> DEFINE Moves ==
      \A d \in Call :
        \/ chat'[d] = chat[d]
        \/ chat'[d].pc \in {"refund", "done"}
        \/ /\ handler[d].pc = "idle"
           /\ chat'[d].pc \notin {"store", "count"}
        \/ /\ chat'[d].pc \in {"store", "count"}
           /\ chat'[d].message \in SentFor(IdOf[d])
<1>1. Fail(c) \/ End(c) => Moves
  BY DEF Fail, GoTo, End, Over, Rest
<1>2. Charge(c) => Moves
  BY <1>1 DEF Charge, Unbilled, chargeTemplateMessage, deduct, ChargeFails, GoTo,
              DispatchInv, KnowledgeInv, AheadInv
<1>3. Follow(c) => Moves
  <2>1. Answered(c) => Moves
    <3>1. ASSUME Answered(c), handler[c].message # NoCall PROVE Moves
      BY <3>1 DEF Answered, DispatchInv, KnowledgeInv, ToldInv
    <3> QED
      BY <1>1, <3>1 DEF Answered
  <2>2. StoreMessage(c) => Moves
    BY <1>1 DEF StoreMessage, GoTo, DispatchInv, KnowledgeInv, ToldInv
  <2> QED
    BY <1>1, <2>1, <2>2
       DEF Follow, refundTemplateCharge, applyOutboundConversationUpdate, Crash
<1>4. UNCHANGED <<handler, record, accepted, refused>> /\ spoiled \subseteq spoiled'
  BY DEF Charge, Unbilled, chargeTemplateMessage, deduct, ChargeFails, Follow,
         Answered, refundTemplateCharge, StoreMessage,
         applyOutboundConversationUpdate, Crash, Faulty
<1> QED
  BY <1>2, <1>3, <1>4, DispatchFrame

\* The four ways out of the look for a record, which is only read.
LEMMA FindOutcome ==
  ASSUME NEW c \in Call, FindDispatch(c)
  PROVE  /\ UNCHANGED <<chat, record, accepted, refused, spoiled>>
         /\ handler[c].pc = "find"
         /\ \/ /\ record[IdOf[c]].message # NoCall
               /\ Answer(c, record[IdOf[c]].message)
            \/ Answer(c, NoCall)
            \/ /\ record[IdOf[c]].status = "failed"
               /\ handler' = [handler EXCEPT ![c].pc = "send",
                                             ![c].loaded = "failed"]
            \/ Go(c, "create")
BY DEF FindDispatch, In, Sound, provider

\* The two ends of the creation of a record.
LEMMA CreateOutcome ==
  ASSUME NEW c \in Call, CreateDispatch(c)
  PROVE  /\ UNCHANGED <<chat, accepted, refused, spoiled>>
         /\ handler[c].pc = "create"
         /\ \/ /\ record[IdOf[c]].status = "none"
               /\ record' = [record EXCEPT ![IdOf[c]].status = "dispatching"]
               /\ Go(c, "send")
            \/ /\ record' = record
               /\ Answer(c, NoCall)
BY DEF CreateDispatch, In, Sound, provider

LEMMA ServeKeepsAhead ==
  ASSUME Shape, DispatchInv, NEW c \in Call, Serve(c)
  PROVE  AheadInv'
<1>0. /\ IdOf[c] \in Id /\ c # NoCall
      /\ \A d \in Call : IdOf[d] \in Id /\ d # NoCall
  BY Own
<1> USE <1>0 DEF Shape, ChatOK, HandlerOK, HandlerRecord, DispatchRecord, In, Go,
            Answer, Sound, provider, DispatchInv, KnowledgeInv, AheadInv
<1>1. CASE FindDispatch(c)
  <2>0. UNCHANGED <<chat, record, accepted, refused, spoiled>>
        /\ handler[c].pc = "find"
    BY <1>1, FindOutcome
  <2>1. CASE Answer(c, record[IdOf[c]].message) /\ record[IdOf[c]].message # NoCall
    BY <2>0, <2>1
  <2>2. CASE Answer(c, NoCall)
    BY <2>0, <2>2
  <2>3. CASE /\ record[IdOf[c]].status = "failed"
             /\ handler' = [handler EXCEPT ![c].pc = "send",
                                           ![c].loaded = "failed"]
    BY <2>0, <2>3
  <2>4. CASE Go(c, "create")
    BY <2>0, <2>4
  <2> QED
    BY <1>1, <2>1, <2>2, <2>3, <2>4, FindOutcome
<1>2. CASE CreateDispatch(c)
  BY <1>2 DEF CreateDispatch
<1>3. CASE Accept(c)
  BY <1>3 DEF Accept
<1>4. CASE Refuse(c)
  BY <1>4 DEF Refuse
<1>5. CASE NoAnswer(c)
  BY <1>5 DEF NoAnswer
<1>6. CASE SaveAccepted(c)
  BY <1>6 DEF SaveAccepted
<1>7. CASE SaveFails(c)
  BY <1>7 DEF SaveFails, Faulty
<1>8. CASE SaveError(c)
  BY <1>8 DEF SaveError
<1>9. CASE Die(c)
  BY <1>9 DEF Die, Faulty
<1> QED
  BY <1>1, <1>2, <1>3, <1>4, <1>5, <1>6, <1>7, <1>8, <1>9 DEF Serve

LEMMA ServeKeepsHeard ==
  ASSUME Shape, DispatchInv, NEW c \in Call, Serve(c)
  PROVE  HeardInv'
<1>0. /\ IdOf[c] \in Id /\ c # NoCall
      /\ \A d \in Call : IdOf[d] \in Id /\ d # NoCall
  BY Own
<1> USE <1>0 DEF Shape, ChatOK, HandlerOK, HandlerRecord, DispatchRecord, In, Go,
            Answer, Sound, provider, DispatchInv, KnowledgeInv, HeardInv
<1>1. CASE FindDispatch(c)
  <2>0. UNCHANGED <<chat, record, accepted, refused, spoiled>>
        /\ handler[c].pc = "find"
    BY <1>1, FindOutcome
  <2>1. CASE Answer(c, record[IdOf[c]].message) /\ record[IdOf[c]].message # NoCall
    BY <2>0, <2>1
  <2>2. CASE Answer(c, NoCall)
    BY <2>0, <2>2
  <2>3. CASE /\ record[IdOf[c]].status = "failed"
             /\ handler' = [handler EXCEPT ![c].pc = "send",
                                           ![c].loaded = "failed"]
    BY <2>0, <2>3
  <2>4. CASE Go(c, "create")
    BY <2>0, <2>4
  <2> QED
    BY <1>1, <2>1, <2>2, <2>3, <2>4, FindOutcome
<1>2. CASE CreateDispatch(c)
  <2>0. UNCHANGED <<chat, accepted, refused, spoiled>> /\ handler[c].pc = "create"
    BY <1>2, CreateOutcome
  <2>1. CASE /\ record[IdOf[c]].status = "none"
             /\ record' = [record EXCEPT ![IdOf[c]].status = "dispatching"]
             /\ Go(c, "send")
    BY <2>0, <2>1
  <2>2. CASE record' = record /\ Answer(c, NoCall)
    BY <2>0, <2>2
  <2> QED
    BY <1>2, <2>1, <2>2, CreateOutcome
<1>3. CASE Accept(c)
  BY <1>3 DEF Accept
<1>4. CASE Refuse(c)
  BY <1>4 DEF Refuse
<1>5. CASE NoAnswer(c)
  BY <1>5 DEF NoAnswer
<1>6. CASE SaveAccepted(c)
  BY <1>6 DEF SaveAccepted
<1>7. CASE SaveFails(c)
  BY <1>7 DEF SaveFails, Faulty
<1>8. CASE SaveError(c)
  BY <1>8 DEF SaveError
<1>9. CASE Die(c)
  BY <1>9 DEF Die, Faulty
<1> QED
  BY <1>1, <1>2, <1>3, <1>4, <1>5, <1>6, <1>7, <1>8, <1>9 DEF Serve

LEMMA ServeKeepsLoaded ==
  ASSUME Shape, DispatchInv, NEW c \in Call, Serve(c)
  PROVE  LoadedInv'
<1>0. /\ IdOf[c] \in Id /\ c # NoCall
      /\ \A d \in Call : IdOf[d] \in Id /\ d # NoCall
  BY Own
<1> USE <1>0 DEF Shape, ChatOK, HandlerOK, HandlerRecord, DispatchRecord, In, Go,
            Answer, Sound, provider, DispatchInv, KnowledgeInv, LoadedInv,
            RecordInv
<1>1. CASE FindDispatch(c)
  <2>0. UNCHANGED <<chat, record, accepted, refused, spoiled>>
        /\ handler[c].pc = "find"
    BY <1>1, FindOutcome
  <2>1. CASE Answer(c, record[IdOf[c]].message) /\ record[IdOf[c]].message # NoCall
    BY <2>0, <2>1
  <2>2. CASE Answer(c, NoCall)
    BY <2>0, <2>2
  <2>3. CASE /\ record[IdOf[c]].status = "failed"
             /\ handler' = [handler EXCEPT ![c].pc = "send",
                                           ![c].loaded = "failed"]
    BY <2>0, <2>3
  <2>4. CASE Go(c, "create")
    BY <2>0, <2>4
  <2> QED
    BY <1>1, <2>1, <2>2, <2>3, <2>4, FindOutcome
<1>2. CASE CreateDispatch(c)
  BY <1>2 DEF CreateDispatch
<1>3. CASE Accept(c)
  BY <1>3 DEF Accept
<1>4. CASE Refuse(c)
  BY <1>4 DEF Refuse
<1>5. CASE NoAnswer(c)
  BY <1>5 DEF NoAnswer
<1>6. CASE SaveAccepted(c)
  BY <1>6 DEF SaveAccepted
<1>7. CASE SaveFails(c)
  BY <1>7 DEF SaveFails, Faulty
<1>8. CASE SaveError(c)
  BY <1>8 DEF SaveError
<1>9. CASE Die(c)
  BY <1>9 DEF Die, Faulty
<1> QED
  BY <1>1, <1>2, <1>3, <1>4, <1>5, <1>6, <1>7, <1>8, <1>9 DEF Serve

LEMMA ServeKeepsTold ==
  ASSUME Shape, DispatchInv, NEW c \in Call, Serve(c)
  PROVE  ToldInv'
<1>0. /\ IdOf[c] \in Id /\ c # NoCall
      /\ \A d \in Call : IdOf[d] \in Id /\ d # NoCall
  BY Own
<1> USE <1>0 DEF Shape, ChatOK, HandlerOK, HandlerRecord, DispatchRecord, In, Go,
            Answer, Sound, provider, DispatchInv, KnowledgeInv, HeardInv,
            ToldInv, RecordInv, SentFor
<1>1. CASE FindDispatch(c)
  <2>0. UNCHANGED <<chat, record, accepted, refused, spoiled>>
        /\ handler[c].pc = "find"
    BY <1>1, FindOutcome
  <2>1. CASE Answer(c, record[IdOf[c]].message) /\ record[IdOf[c]].message # NoCall
    BY <2>0, <2>1
  <2>2. CASE Answer(c, NoCall)
    BY <2>0, <2>2
  <2>3. CASE /\ record[IdOf[c]].status = "failed"
             /\ handler' = [handler EXCEPT ![c].pc = "send",
                                           ![c].loaded = "failed"]
    BY <2>0, <2>3
  <2>4. CASE Go(c, "create")
    BY <2>0, <2>4
  <2> QED
    BY <1>1, <2>1, <2>2, <2>3, <2>4, FindOutcome
<1>2. CASE CreateDispatch(c)
  <2>0. UNCHANGED <<chat, accepted, refused, spoiled>> /\ handler[c].pc = "create"
    BY <1>2, CreateOutcome
  <2>1. CASE /\ record[IdOf[c]].status = "none"
             /\ record' = [record EXCEPT ![IdOf[c]].status = "dispatching"]
             /\ Go(c, "send")
    BY <2>0, <2>1
  <2>2. CASE record' = record /\ Answer(c, NoCall)
    BY <2>0, <2>2
  <2> QED
    BY <1>2, <2>1, <2>2, CreateOutcome
<1>3. CASE Accept(c)
  BY <1>3 DEF Accept
<1>4. CASE Refuse(c)
  BY <1>4 DEF Refuse
<1>5. CASE NoAnswer(c)
  BY <1>5 DEF NoAnswer
<1>6. CASE SaveAccepted(c)
  BY <1>6 DEF SaveAccepted
<1>7. CASE SaveFails(c)
  BY <1>7 DEF SaveFails, Faulty
<1>8. CASE SaveError(c)
  BY <1>8 DEF SaveError
<1>9. CASE Die(c)
  BY <1>9 DEF Die, Faulty
<1> QED
  BY <1>1, <1>2, <1>3, <1>4, <1>5, <1>6, <1>7, <1>8, <1>9 DEF Serve

LEMMA ServeKeepsRecord ==
  ASSUME Shape, DispatchInv, NEW c \in Call, Serve(c)
  PROVE  RecordInv'
<1>0. /\ IdOf[c] \in Id /\ c # NoCall
      /\ \A d \in Call : IdOf[d] \in Id /\ d # NoCall
  BY Own
<1> USE <1>0 DEF Shape, ChatOK, HandlerOK, HandlerRecord, DispatchRecord, In, Go,
            Answer, Sound, provider, DispatchInv, RecordInv, KnowledgeInv,
            HeardInv, LoadedInv, SenderInv, Sends, Working, SentFor, Uncertain
<1>1. CASE FindDispatch(c)
  <2>0. UNCHANGED <<chat, record, accepted, refused, spoiled>>
        /\ handler[c].pc = "find"
    BY <1>1, FindOutcome
  <2>1. CASE Answer(c, record[IdOf[c]].message) /\ record[IdOf[c]].message # NoCall
    BY <2>0, <2>1
  <2>2. CASE Answer(c, NoCall)
    BY <2>0, <2>2
  <2>3. CASE /\ record[IdOf[c]].status = "failed"
             /\ handler' = [handler EXCEPT ![c].pc = "send",
                                           ![c].loaded = "failed"]
    BY <2>0, <2>3
  <2>4. CASE Go(c, "create")
    BY <2>0, <2>4
  <2> QED
    BY <1>1, <2>1, <2>2, <2>3, <2>4, FindOutcome
<1>2. CASE CreateDispatch(c)
  <2>0. UNCHANGED <<chat, accepted, refused, spoiled>> /\ handler[c].pc = "create"
    BY <1>2, CreateOutcome
  <2>1. CASE /\ record[IdOf[c]].status = "none"
             /\ record' = [record EXCEPT ![IdOf[c]].status = "dispatching"]
             /\ Go(c, "send")
    <3>1. \A d \in Call : Sends(d)' => Sends(d) \/ d = c
      BY <2>0, <2>1
    <3>2. Working(c)'
      BY <2>1
    <3>3. \A i \in Id \ {IdOf[c]} : record'[i] = record[i]
      BY <2>1
    <3>4. /\ record'[IdOf[c]].status = "dispatching"
          /\ record'[IdOf[c]].message = record[IdOf[c]].message
      BY <2>1
    <3> QED
      BY <2>0, <2>1, <3>1, <3>2, <3>3, <3>4
  <2>2. CASE record' = record /\ Answer(c, NoCall)
    BY <2>0, <2>2
  <2> QED
    BY <1>2, <2>1, <2>2, CreateOutcome
<1>3. CASE Accept(c)
  <2>1. /\ UNCHANGED <<record, refused, spoiled>>
        /\ accepted' = accepted \cup {c}
        /\ handler[c].pc = "send"
        /\ \A d \in Call \ {c} : handler'[d] = handler[d]
        /\ handler'[c].pc \in {"accepted", "lost"}
    BY <1>3 DEF Accept
  <2>2. record[IdOf[c]].status # "none" /\ Working(c)'
    BY <2>1
  <2> QED
    BY <2>1, <2>2
<1>4. CASE Refuse(c)
  BY <1>4 DEF Refuse
<1>5. CASE NoAnswer(c)
  BY <1>5 DEF NoAnswer
<1>6. CASE SaveAccepted(c)
  BY <1>6 DEF SaveAccepted
<1>7. CASE SaveFails(c)
  BY <1>7 DEF SaveFails, Faulty
<1>8. CASE SaveError(c)
  <2>0. /\ UNCHANGED <<accepted, refused, spoiled>>
        /\ handler[c].pc \in {"refused", "lost", "unsaved"}
        /\ Answer(c, NoCall)
    BY <1>8 DEF SaveError
  <2>1. \A d \in Call : Sends(d)' => Sends(d)
    BY <2>0
  <2>2. \A d \in Call : d # c => Working(d)' = Working(d)
    BY <2>0
  <2>3. \A i \in Id : i # IdOf[c] => record'[i] = record[i]
    BY <1>8 DEF SaveError
  <2>4. record[IdOf[c]].status # "none" /\ record[IdOf[c]].message # NoCall
        => record[IdOf[c]].message \in SentFor(IdOf[c])
    OBVIOUS
  <2>5. record[IdOf[c]].status # "none"
    BY <2>0
  <2>6. /\ record'[IdOf[c]].status \notin {"none", "dispatching"}
        /\ record'[IdOf[c]].status = "accepted" => record' = record
        /\ record'[IdOf[c]].status = "failed" => IdOf[c] \in refused
        /\ record'[IdOf[c]].message \in {record[IdOf[c]].message, c}
        /\ record'[IdOf[c]].message = c => c \in accepted \/ record[IdOf[c]].message = c
    BY <1>8, <2>0, <2>5 DEF SaveError
  <2> SUFFICES ASSUME NEW i \in Id
               PROVE  /\ record'[i].status = "none" =>
                           /\ record'[i].message = NoCall
                           /\ \A d \in Call : IdOf[d] = i => ~Sends(d)' /\ ~Working(d)'
                      /\ record'[i].status = "accepted" => record'[i].message # NoCall
                      /\ record'[i].message # NoCall => record'[i].message \in SentFor(i)'
                      /\ record'[i].status = "failed" => i \in refused'
                      /\ record'[i].status = "dispatching"
                         => \E d \in Call :
                              IdOf[d] = i /\ (Working(d)' \/ KeyOf[d] \in spoiled')
    OBVIOUS
  <2>7. CASE i = IdOf[c]
    BY <2>0, <2>4, <2>5, <2>6, <2>7
  <2>8. CASE i # IdOf[c]
    <3>1. \A d \in Call : IdOf[d] = i => Working(d)' = Working(d)
      BY <2>2, <2>8
    <3> HIDE DEF Sends, Working
    <3> QED
      BY <2>0, <2>1, <2>3, <2>8, <3>1
  <2> QED
    BY <2>7, <2>8
<1>9. CASE Die(c)
  BY <1>9 DEF Die, Faulty
<1> QED
  BY <1>1, <1>2, <1>3, <1>4, <1>5, <1>6, <1>7, <1>8, <1>9 DEF Serve

LEMMA ServeKeepsSender ==
  ASSUME Shape, DispatchInv, NEW c \in Call, Serve(c)
  PROVE  SenderInv'
<1>0. /\ IdOf[c] \in Id /\ c # NoCall
      /\ \A d \in Call : IdOf[d] \in Id /\ d # NoCall
  BY Own
<1> USE <1>0 DEF Shape, ChatOK, HandlerOK, HandlerRecord, DispatchRecord, In, Go,
            Answer, Sound, provider, DispatchInv, SenderInv, RecordInv,
            KnowledgeInv, HeardInv, LoadedInv, Sends, Uncertain
<1>1. CASE FindDispatch(c)
  <2>0. UNCHANGED <<chat, record, accepted, refused, spoiled>>
        /\ handler[c].pc = "find"
    BY <1>1, FindOutcome
  <2>1. CASE Answer(c, record[IdOf[c]].message) /\ record[IdOf[c]].message # NoCall
    BY <2>0, <2>1
  <2>2. CASE Answer(c, NoCall)
    BY <2>0, <2>2
  <2>3. CASE /\ record[IdOf[c]].status = "failed"
             /\ handler' = [handler EXCEPT ![c].pc = "send",
                                           ![c].loaded = "failed"]
    BY <2>0, <2>3
  <2>4. CASE Go(c, "create")
    BY <2>0, <2>4
  <2> QED
    BY <1>1, <2>1, <2>2, <2>3, <2>4, FindOutcome
<1>2. CASE CreateDispatch(c)
  <2>0. UNCHANGED <<chat, accepted, refused, spoiled>> /\ handler[c].pc = "create"
    BY <1>2, CreateOutcome
  <2>1. CASE /\ record[IdOf[c]].status = "none"
             /\ record' = [record EXCEPT ![IdOf[c]].status = "dispatching"]
             /\ Go(c, "send")
    BY <2>0, <2>1
  <2>2. CASE record' = record /\ Answer(c, NoCall)
    BY <2>0, <2>2
  <2> QED
    BY <1>2, <2>1, <2>2, CreateOutcome
<1>3. CASE Accept(c)
  BY <1>3 DEF Accept
<1>4. CASE Refuse(c)
  BY <1>4 DEF Refuse
<1>5. CASE NoAnswer(c)
  BY <1>5 DEF NoAnswer
<1>6. CASE SaveAccepted(c)
  BY <1>6 DEF SaveAccepted
<1>7. CASE SaveFails(c)
  BY <1>7 DEF SaveFails, Faulty
<1>8. CASE SaveError(c)
  BY <1>8 DEF SaveError
<1>9. CASE Die(c)
  BY <1>9 DEF Die, Faulty
<1> QED
  BY <1>1, <1>2, <1>3, <1>4, <1>5, <1>6, <1>7, <1>8, <1>9 DEF Serve

\* A caller starts a handler, or leaves one that has not begun.
LEMMA POSTKeepsDispatch ==
  ASSUME Shape, DispatchInv, NEW c \in Call, POST(c) PROVE DispatchInv'
<1>1. /\ UNCHANGED <<record, accepted, refused, spoiled>>
      /\ handler[c].pc = "idle"
      /\ handler' = [handler EXCEPT ![c].pc = "find"]
      /\ chat'[c].pc = "await"
      /\ \A d \in Call \ {c} : chat'[d] = chat[d]
  BY DEF POST, Go, GoTo, At, Sound, provider, DispatchInv, KnowledgeInv, AheadInv,
         Shape, ChatOK, ChatRecord
<1>2. KnowledgeInv'
  <2> USE <1>1 DEF DispatchInv, KnowledgeInv, Shape, HandlerOK, HandlerRecord
  <2>1. AheadInv'
    BY DEF AheadInv
  <2>2. HeardInv' /\ LoadedInv'
    BY DEF HeardInv, LoadedInv
  <2>3. ToldInv'
    <3>1. \A d \in Call : handler'[d].message = handler[d].message
                         /\ (handler'[d].pc = "answered" <=> handler[d].pc = "answered")
      OBVIOUS
    <3> QED
      BY <3>1 DEF ToldInv, SentFor
  <2> QED
    BY <2>1, <2>2, <2>3
<1>3. RecordInv'
  BY <1>1 DEF DispatchInv, RecordInv, Sends, Working, SentFor, Shape, HandlerOK,
              HandlerRecord
<1>4. SenderInv'
  BY <1>1 DEF DispatchInv, SenderInv, Sends, Shape, HandlerOK, HandlerRecord
<1> QED
  BY <1>2, <1>3, <1>4 DEF DispatchInv

LEMMA TimeOutKeepsDispatch ==
  ASSUME Shape, DispatchInv, NEW c \in Call, TimeOut(c) PROVE DispatchInv'
<1>1. /\ UNCHANGED <<record, accepted, refused, spoiled>>
      /\ \/ handler' = handler
         \/ /\ handler[c].pc = "find"
            /\ handler' = [handler EXCEPT ![c].pc = "answered"]
  BY DEF TimeOut, Go, In, Sound, provider
<1>2. \A d \in Call : \/ chat'[d] = chat[d]
                      \/ d = c /\ chat'[d].pc \in {"refund", "done"}
  BY DEF TimeOut, Fail, GoTo, End, Over, Rest, Shape, ChatOK, ChatRecord
<1>3. KnowledgeInv'
  BY <1>1, <1>2 DEF DispatchInv, KnowledgeInv, AheadInv, HeardInv, LoadedInv,
                    ToldInv, SentFor, Shape, HandlerOK, HandlerRecord
<1>4. RecordInv'
  BY <1>1 DEF DispatchInv, RecordInv, Sends, Working, SentFor, Shape, HandlerOK,
              HandlerRecord
<1>5. SenderInv'
  BY <1>1 DEF DispatchInv, SenderInv, Sends, Shape, HandlerOK, HandlerRecord
<1> QED
  BY <1>3, <1>4, <1>5 DEF DispatchInv

LEMMA DispatchStep == Shape /\ DispatchInv /\ [Next]_vars => DispatchInv'
<1> SUFFICES ASSUME Shape, DispatchInv, [Next]_vars PROVE DispatchInv'
  OBVIOUS
<1>1. CASE UNCHANGED <<chat, handler, record, accepted, refused, spoiled>>
  BY <1>1, DispatchFrame
<1>2. ASSUME NEW c \in Call, Charge(c) \/ Follow(c) PROVE DispatchInv'
  BY <1>2, ChatKeepsDispatch, POSTKeepsDispatch, TimeOutKeepsDispatch
<1>3. ASSUME NEW c \in Call, Serve(c) PROVE DispatchInv'
  BY <1>3, ServeKeepsAhead, ServeKeepsHeard, ServeKeepsLoaded, ServeKeepsTold,
     ServeKeepsRecord, ServeKeepsSender
     DEF DispatchInv, KnowledgeInv
<1>4. ASSUME NEW m \in Call, NEW s \in Outcome, Report(m, s) \/ updateStatus(m, s)
      PROVE  DispatchInv'
  BY <1>4, <1>1 DEF Report, updateStatus, Sound
<1>5. CASE UNCHANGED vars
  BY <1>1, <1>5 DEF vars, provider
<1> QED
  BY <1>2, <1>3, <1>4, <1>5 DEF Next

LEMMA DispatchAlways == Spec => [](Shape /\ DispatchInv)
BY ShapeInit, StepKeepsShape, DispatchInit, DispatchStep, PTL DEF Spec

\* One internalMessageId puts two messages on the customer's phone only after the
\* provider has refused one.
THEOREM OneMessagePerDispatch == Spec => []SentOnce
<1>1. ASSUME Shape, DispatchInv PROVE SentOnce
  <2>1. SUFFICES ASSUME NEW i \in Id \ refused
                 PROVE  Cardinality(SentFor(i)) <= 1
    BY DEF SentOnce
  <2>2. \A c, d \in SentFor(i) : c = d
    BY <1>1, <2>1 DEF SentFor, DispatchInv, SenderInv, Sends, Shape, HandlerOK
  <2>3. CASE SentFor(i) = {}
    BY <2>3, FS_EmptySet
  <2>4. CASE SentFor(i) # {}
    <3>1. PICK c \in SentFor(i) : SentFor(i) = {c}
      BY <2>2, <2>4
    <3> QED
      BY <3>1, FS_Singleton
  <2> QED
    BY <2>3, <2>4
<1> QED
  BY <1>1, DispatchAlways, PTL

\* The dispatch record can be trusted.
THEOREM RecordsTell == Spec => []RecordTells
<1>1. ASSUME Shape, DispatchInv PROVE RecordTells
  BY <1>1 DEF DispatchInv, RecordInv, RecordTells, SentFor, Sends, Shape, HandlerOK
<1> QED
  BY <1>1, DispatchAlways, PTL

-----------------------------------------------------------------------------
(* Paid and sent, or paid back.  A deduction without either has a call that  *)
(* still works on it, which remembers the charge.                           *)

Pending(c) == chat[c].charged /\ chat[c].pc \in {"dispatch", "await", "refund"}

PaidInv ==
  \A k \in Key \ spoiled :
    Charged(k) => \/ k \in refunds
                  \/ \E c \in Call : KeyOf[c] = k /\ SentFor(IdOf[c]) # {}
                  \/ \E c \in Call : KeyOf[c] = k /\ Pending(c)

LEMMA PaidInit == Init => PaidInv
BY DEF Init, PaidInv, Charged

\* A step that takes no money keeps what is settled, and leaves a pending call
\* pending, settled or spoiled.
LEMMA PaidFrame ==
  ASSUME PaidInv, taken' = taken, refunds \subseteq refunds',
         accepted \subseteq accepted', spoiled \subseteq spoiled',
         \A c \in Call : Pending(c) =>
           \/ Pending(c)'
           \/ KeyOf[c] \in refunds' \cup spoiled'
           \/ SentFor(IdOf[c])' # {}
  PROVE  PaidInv'
BY DEF PaidInv, Charged, SentFor

LEMMA PaidStep ==
  Shape /\ MoneyInv /\ DispatchInv /\ PaidInv /\ [Next]_vars => PaidInv'
<1> SUFFICES ASSUME Shape, MoneyInv, DispatchInv, PaidInv, [Next]_vars
             PROVE  PaidInv'
  OBVIOUS
<1> USE DEF Shape, ChatOK, ChatRecord, HandlerOK, At, money, provider, Sound
<1>1. CASE UNCHANGED <<chat, taken, refunds, spoiled>>
           /\ accepted \subseteq accepted'
  BY <1>1, PaidFrame DEF Pending
<1>2. ASSUME NEW c \in Call, ~Pending(c), taken' = taken,
             UNCHANGED <<refunds, accepted>>, spoiled \subseteq spoiled',
             \A d \in Call \ {c} : chat'[d] = chat[d]
      PROVE  PaidInv'
  BY <1>2, PaidFrame DEF Pending
<1>3. ASSUME NEW c \in Call, Charge(c) PROVE PaidInv'
  <2>1. CASE Unbilled(c) \/ chargeTemplateMessage(c)
    BY <1>2, <2>1 DEF Unbilled, chargeTemplateMessage, GoTo, Pending
  <2>2. CASE deduct(c)
    <3>1. /\ taken' = [taken EXCEPT ![KeyOf[c]] = @ + 1]
          /\ UNCHANGED <<refunds, accepted, spoiled>>
          /\ chat[c].pc = "take"
          /\ KeyOf[c] \in Key
      BY <2>2, Own DEF deduct
    <3>2. \A d \in Call \ {c} : chat'[d] = chat[d]
      BY <2>2 DEF deduct, End
    <3>3. CASE KeyOf[c] \in charges
      BY <3>1, <3>2, <3>3
         DEF PaidInv, Charged, MoneyInv, Pending, SentFor, MoneyOK
    <3>4. CASE KeyOf[c] \notin charges
      <4>1. Pending(c)'
        BY <2>2, <3>4 DEF deduct, Pending
      <4> QED
        BY <3>1, <3>2, <4>1 DEF PaidInv, Charged, Pending, SentFor, MoneyOK
    <3> QED
      BY <3>3, <3>4
  <2>3. CASE ChargeFails(c)
    <3>1. /\ UNCHANGED <<refunds, accepted>>
          /\ chat[c].pc = "take"
          /\ spoiled \subseteq spoiled'
          /\ \A d \in Call \ {c} : chat'[d] = chat[d]
      BY <2>3 DEF ChargeFails, Faulty, End
    <3>2. CASE taken' = taken
      BY <1>2, <3>1, <3>2 DEF Pending
    <3>3. CASE taken' # taken
      <4>1. /\ taken' = [taken EXCEPT ![KeyOf[c]] = @ + 1]
            /\ KeyOf[c] \in spoiled'
        BY <2>3, <3>3 DEF ChargeFails, Faulty
      <4> QED
        BY <3>1, <4>1 DEF PaidInv, Charged, Pending, SentFor, MoneyOK
    <3> QED
      BY <3>2, <3>3
  <2> QED
    BY <1>3, <2>1, <2>2, <2>3 DEF Charge
<1>4. ASSUME NEW c \in Call, Follow(c) PROVE PaidInv'
  <2>0. /\ taken' = taken
        /\ refunds \subseteq refunds'
        /\ accepted' = accepted
        /\ spoiled \subseteq spoiled'
        /\ \A d \in Call \ {c} : chat'[d] = chat[d]
    BY <1>4 DEF Follow, POST, Answered, TimeOut, refundTemplateCharge, StoreMessage,
                applyOutboundConversationUpdate, Crash, Fail, GoTo, End, Faulty
  <2>1. Pending(c) => \/ Pending(c)'
                      \/ KeyOf[c] \in refunds' \cup spoiled'
                      \/ SentFor(IdOf[c])' # {}
    <3>1. Fail(c) /\ Pending(c) => Pending(c)'
      BY DEF Fail, GoTo, Pending
    <3>2. CASE POST(c)
      BY <3>2 DEF POST, GoTo, Pending
    <3>3. CASE Answered(c)
      BY <2>0, <3>1, <3>3
         DEF Answered, DispatchInv, KnowledgeInv, ToldInv, SentFor
    <3>4. CASE TimeOut(c)
      BY <3>1, <3>4 DEF TimeOut
    <3>5. CASE refundTemplateCharge(c)
      BY <3>5 DEF refundTemplateCharge, Faulty
    <3>6. CASE StoreMessage(c) \/ applyOutboundConversationUpdate(c)
      BY <3>6 DEF StoreMessage, applyOutboundConversationUpdate, Pending
    <3>7. CASE Crash(c)
      BY <3>7 DEF Crash, Faulty
    <3> QED
      BY <1>4, <3>2, <3>3, <3>4, <3>5, <3>6, <3>7 DEF Follow
  <2> QED
    BY <2>0, <2>1, PaidFrame DEF Pending
<1>5. ASSUME NEW c \in Call, Serve(c) PROVE PaidInv'
  <2>1. /\ UNCHANGED <<chat, taken, refunds>>
        /\ spoiled \subseteq spoiled'
        /\ accepted \subseteq accepted'
    BY <1>5 DEF Serve, FindDispatch, CreateDispatch, Accept, Refuse, NoAnswer,
                SaveAccepted, SaveFails, SaveError, Die, Faulty
  <2> QED
    BY <2>1, PaidFrame DEF Pending
<1>6. ASSUME NEW m \in Call, NEW s \in Outcome, Report(m, s) \/ updateStatus(m, s)
      PROVE  PaidInv'
  BY <1>1, <1>6 DEF Report, updateStatus
<1>7. CASE UNCHANGED vars
  BY <1>1, <1>7 DEF vars
<1> QED
  BY <1>3, <1>4, <1>5, <1>6, <1>7 DEF Next

\* What is paid is sent or paid back, unless a fault hit a call of that key.
THEOREM PaidIsSentOrReturned == Spec => []PaidMeansSent
<1>1. Spec => []MoneyInv
  BY DispatchAlways, MoneyInit, MoneyStep, PTL DEF Spec
<1>2. Spec => []PaidInv
  BY <1>1, DispatchAlways, PaidInit, PaidStep, PTL DEF Spec
<1>3. PaidInv => PaidMeansSent
  BY DEF PaidInv, PaidMeansSent, Charged, Pending, At
<1> QED
  BY <1>2, <1>3, PTL

-----------------------------------------------------------------------------
(* The inbox.  What is stored and still to be counted leaves room for it.    *)

ToCount == {m \in Call : \E c \in Call : chat[c].pc = "count" /\ chat[c].message = m}

CountInv ==
  /\ Stored \subseteq accepted
  /\ ToCount \subseteq Stored
  /\ counted <= Cardinality(Stored \ ToCount)
  /\ \A c, d \in Call : chat[c].pc = "count" /\ chat[d].pc = "count"
                        /\ chat[c].message = chat[d].message => c = d

LEMMA CountInit == Init => CountInv
<1> SUFFICES ASSUME Init PROVE CountInv
  OBVIOUS
<1>1. \A c \in Call : rows[c] = "none" /\ chat[c].pc = "idle"
  BY DEF Init, Rest
<1>2. Stored = {} /\ ToCount = {}
  BY <1>1 DEF Stored, ToCount
<1>3. counted <= Cardinality(Stored \ ToCount)
  <2>1. Stored \ ToCount = {} /\ counted = 0
    BY <1>2 DEF Init
  <2> QED
    BY <2>1, FS_EmptySet
<1> QED
  BY <1>1, <1>2, <1>3 DEF CountInv

\* Room does not shrink when nothing is stored anew and nobody begins to count.
LEMMA CountFrame ==
  ASSUME Shape, CountInv, UNCHANGED <<counted>>, Stored' = Stored,
         accepted \subseteq accepted',
         \A c \in Call : chat'[c].pc = "count" => chat'[c] = chat[c]
  PROVE  CountInv'
<1>1. ToCount' \subseteq ToCount
  BY DEF ToCount
<1>2. IsFiniteSet(Stored \ ToCount')
  BY OutboundAssumption, FS_Subset DEF Stored
<1>3. Cardinality(Stored \ ToCount) <= Cardinality(Stored \ ToCount')
  BY <1>1, <1>2, FS_Subset
<1>4. /\ IsFiniteSet(Stored \ ToCount)
      /\ Cardinality(Stored \ ToCount) \in Nat
      /\ Cardinality(Stored \ ToCount') \in Nat
  BY <1>2, OutboundAssumption, FS_Subset, FS_CardinalityType DEF Stored
<1>5. counted' <= Cardinality(Stored' \ ToCount')
  BY <1>3, <1>4 DEF CountInv, Shape, InboxOK
<1>6. /\ ToCount' \subseteq Stored'
      /\ Stored' \subseteq accepted'
  BY <1>1 DEF CountInv
<1>7. \A c, d \in Call : chat'[c].pc = "count" /\ chat'[d].pc = "count"
                         /\ chat'[c].message = chat'[d].message => c = d
  BY DEF CountInv
<1> QED
  BY <1>5, <1>6, <1>7 DEF CountInv

LEMMA StoreKeepsCount ==
  ASSUME Shape, DispatchInv, CountInv, NEW c \in Call, StoreMessage(c)
  PROVE  CountInv'
<1> DEFINE m == chat[c].message
<1>1. /\ m \in Call /\ m \in accepted
      /\ UNCHANGED <<counted, accepted>>
      /\ chat[c].pc = "store"
  BY DEF StoreMessage, At, Shape, ChatOK, DispatchInv, KnowledgeInv, ToldInv,
         SentFor, provider
<1>2. CASE m \in Stored
  <2>1. rows' = rows /\ End(c)
    BY <1>2 DEF StoreMessage
  <2>2. Stored' = Stored
    BY <2>1 DEF Stored
  <2>3. \A d \in Call : chat'[d].pc = "count" => chat'[d] = chat[d]
    BY <2>1 DEF End, Over, Rest, Shape, ChatOK
  <2> QED
    BY <1>1, <2>2, <2>3, CountFrame
<1>3. CASE m \notin Stored
  <2>1. /\ rows' = [rows EXCEPT ![m] = "sent"]
        /\ chat' = [chat EXCEPT ![c].pc = "count"]
    BY <1>3 DEF StoreMessage, GoTo
  <2>2. Stored' = Stored \cup {m}
    BY <1>1, <2>1 DEF Stored, Shape, InboxOK
  <2>3. /\ \A d \in Call \ {c} : chat'[d] = chat[d]
        /\ chat'[c].pc = "count" /\ chat'[c].message = m
    BY <2>1 DEF Shape, ChatOK, ChatRecord
  <2>4. ToCount' = ToCount \cup {m}
    BY <1>1, <2>3 DEF ToCount
  <2>5. m \notin ToCount
    BY <1>3 DEF CountInv
  <2>6. Stored' \ ToCount' = Stored \ ToCount
    BY <1>3, <2>2, <2>4
  <2>7. \A d \in Call \ {c} : chat[d].pc = "count" => chat[d].message # m
    BY <1>1, <2>5 DEF ToCount
  <2>8. /\ Stored' \subseteq accepted'
        /\ ToCount' \subseteq Stored'
        /\ counted' <= Cardinality(Stored' \ ToCount')
    BY <1>1, <2>2, <2>4, <2>6 DEF CountInv
  <2>9. \A b, d \in Call : chat'[b].pc = "count" /\ chat'[d].pc = "count"
                           /\ chat'[b].message = chat'[d].message => b = d
    BY <2>3, <2>7 DEF CountInv
  <2> QED
    BY <2>8, <2>9 DEF CountInv
<1> QED
  BY <1>2, <1>3

LEMMA UpdateKeepsCount ==
  ASSUME Shape, CountInv, NEW c \in Call, applyOutboundConversationUpdate(c)
  PROVE  CountInv'
<1> DEFINE m == chat[c].message
<1>1. /\ chat[c].pc = "count"
      /\ chat' = [chat EXCEPT ![c] = Over]
      /\ UNCHANGED <<accepted, rows>>
      /\ counted' = counted + 1
      /\ m \in Call
  BY DEF applyOutboundConversationUpdate, At, End, provider, Shape, ChatOK
<1>2. Stored' = Stored
  BY <1>1 DEF Stored
<1>3. m \in ToCount /\ m \in Stored
  BY <1>1 DEF ToCount, CountInv
<1>4. \A d \in Call : chat'[d].pc = "count" => d # c /\ chat'[d] = chat[d]
  BY <1>1 DEF Over, Rest, Shape, ChatOK
<1>5. ToCount' = ToCount \ {m}
  <2>1. \A d \in Call \ {c} : chat'[d] = chat[d]
    BY <1>1
  <2>2. \A d \in Call \ {c} : chat[d].pc = "count" => chat[d].message # m
    BY <1>1 DEF CountInv
  <2> QED
    BY <1>4, <2>1, <2>2 DEF ToCount
<1>6. Stored' \ ToCount' = (Stored \ ToCount) \cup {m}
  BY <1>2, <1>3, <1>5
<1>7. IsFiniteSet(Stored \ ToCount)
  BY OutboundAssumption, FS_Subset DEF Stored
<1>8. /\ Cardinality(Stored' \ ToCount') = Cardinality(Stored \ ToCount) + 1
      /\ Cardinality(Stored \ ToCount) \in Nat
  BY <1>3, <1>6, <1>7, FS_AddElement, FS_CardinalityType
<1>9. counted' <= Cardinality(Stored' \ ToCount')
  BY <1>1, <1>8 DEF CountInv, Shape, InboxOK
<1>10. Stored' \subseteq accepted' /\ ToCount' \subseteq Stored'
  BY <1>1, <1>2, <1>5 DEF CountInv
<1>11. \A b, d \in Call : chat'[b].pc = "count" /\ chat'[d].pc = "count"
                          /\ chat'[b].message = chat'[d].message => b = d
  BY <1>4 DEF CountInv
<1> QED
  BY <1>9, <1>10, <1>11 DEF CountInv

LEMMA CountStep == Shape /\ DispatchInv /\ CountInv /\ [Next]_vars => CountInv'
<1> SUFFICES ASSUME Shape, DispatchInv, CountInv, [Next]_vars PROVE CountInv'
  OBVIOUS
<1> USE DEF inbox, provider
<1>1. ASSUME NEW c \in Call, Charge(c) PROVE CountInv'
  <2>1. UNCHANGED <<counted, accepted, rows>>
    BY <1>1 DEF Charge, Unbilled, chargeTemplateMessage, deduct, ChargeFails
  <2>2. \A d \in Call : chat'[d].pc = "count" => chat'[d] = chat[d]
    BY <1>1 DEF Charge, Unbilled, chargeTemplateMessage, deduct, ChargeFails, GoTo,
                End, Over, Rest, Shape, ChatOK, ChatRecord
  <2> QED
    BY <2>1, <2>2, CountFrame DEF Stored
<1>2. ASSUME NEW c \in Call, Follow(c) PROVE CountInv'
  <2>1. CASE StoreMessage(c) \/ applyOutboundConversationUpdate(c)
    BY <2>1, StoreKeepsCount, UpdateKeepsCount
  <2>2. CASE ~StoreMessage(c) /\ ~applyOutboundConversationUpdate(c)
    <3>1. UNCHANGED <<counted, accepted, rows>>
      BY <1>2, <2>2 DEF Follow, POST, Answered, TimeOut, refundTemplateCharge, Crash
    <3>2. \A d \in Call : chat'[d].pc = "count" => chat'[d] = chat[d]
      BY <1>2, <2>2
         DEF Follow, POST, Answered, TimeOut, refundTemplateCharge, Crash, Fail,
             GoTo, End, Over, Rest, Shape, ChatOK, ChatRecord
    <3> QED
      BY <3>1, <3>2, CountFrame DEF Stored
  <2> QED
    BY <2>1, <2>2
<1>3. ASSUME NEW c \in Call, Serve(c) PROVE CountInv'
  <2>1. UNCHANGED <<counted, rows, chat>> /\ accepted \subseteq accepted'
    BY <1>3 DEF Serve, FindDispatch, CreateDispatch, Accept, Refuse, NoAnswer,
                SaveAccepted, SaveFails, SaveError, Die
  <2> QED
    BY <2>1, CountFrame DEF Stored
<1>4. ASSUME NEW m \in Call, NEW s \in Outcome, Report(m, s) \/ updateStatus(m, s)
      PROVE  CountInv'
  <2>1. UNCHANGED <<counted, chat, accepted>>
    BY <1>4 DEF Report, updateStatus
  <2>2. Stored' = Stored
    <3>1. s # "none"
      BY OutboundAssumption
    <3>2. CASE Report(m, s)
      BY <3>2 DEF Report, Stored
    <3>3. CASE updateStatus(m, s)
      BY <3>1, <3>3 DEF updateStatus, Stored, Shape, InboxOK
    <3> QED
      BY <1>4, <3>2, <3>3
  <2> QED
    BY <2>1, <2>2, CountFrame
<1>5. CASE UNCHANGED vars
  BY <1>5, CountFrame DEF vars, Stored
<1> QED
  BY <1>1, <1>2, <1>3, <1>4, <1>5 DEF Next

\* The inbox shows and counts only what the provider took, once.
THEOREM InboxIsTruthful == Spec => []InboxTruthful
<1>1. Spec => [](Shape /\ CountInv)
  BY DispatchAlways, CountInit, CountStep, PTL DEF Spec
<1>2. ASSUME Shape, CountInv PROVE InboxTruthful
  <2>1. IsFiniteSet(Stored)
    BY OutboundAssumption, FS_Subset DEF Stored
  <2>2. /\ Cardinality(Stored \ ToCount) <= Cardinality(Stored)
        /\ Cardinality(Stored) \in Nat
        /\ Cardinality(Stored \ ToCount) \in Nat
    BY <2>1, FS_Subset, FS_CardinalityType
  <2> QED
    BY <1>2, <2>2 DEF CountInv, InboxTruthful, Shape, InboxOK
<1> QED
  BY <1>1, <1>2, PTL

-----------------------------------------------------------------------------
(* The deliveries: every step is one of TemplateDelivery's or none.         *)

\* What a step of Charge and Follow that neither takes nor returns money, nor stores
\* nor counts, leaves; and a step of a handler that does not send.
Hidden == UNCHANGED <<taken, refunds, accepted, refused, rows, counted>>

LEMMA HiddenStutters == Hidden => UNCHANGED Delivery!vars
BY DEF Hidden, Delivery!vars, Stored

LEMMA ChargeDelivers ==
  ASSUME Shape, NEW c \in Call, Charge(c)
  PROVE  Hidden \/ Delivery!Take(KeyOf[c])
<1> USE DEF Hidden, money, provider, inbox, Stored, Delivery!Take
<1>1. CASE Unbilled(c)
  BY <1>1 DEF Unbilled
<1>2. CASE chargeTemplateMessage(c)
  BY <1>2 DEF chargeTemplateMessage
<1>3. CASE deduct(c)
  BY <1>3 DEF deduct
<1>4. CASE ChargeFails(c)
  BY <1>4 DEF ChargeFails
<1> QED
  BY <1>1, <1>2, <1>3, <1>4 DEF Charge

LEMMA FollowDelivers ==
  ASSUME Shape, MoneyInv, DispatchInv, CountInv, NEW c \in Call, Follow(c)
  PROVE  \/ Hidden
         \/ Delivery!Return(KeyOf[c])
         \/ \E m \in Call : Delivery!Show(m)
         \/ Delivery!Count
<1> USE DEF Hidden, money, provider, inbox
<1>1. CASE refundTemplateCharge(c)
  <2>1. taken[KeyOf[c]] > 0
    BY <1>1 DEF refundTemplateCharge, At, MoneyInv, Charged
  <2> QED
    BY <1>1, <2>1 DEF refundTemplateCharge, Stored, Delivery!Return
<1>2. CASE StoreMessage(c)
  <2> DEFINE m == chat[c].message
  <2>1. CASE m \in Stored
    BY <1>2, <2>1 DEF StoreMessage
  <2>2. CASE m \notin Stored
    <3>1. m \in Call /\ m \in accepted
      BY <1>2 DEF StoreMessage, At, Shape, ChatOK, DispatchInv, KnowledgeInv,
             ToldInv, SentFor
    <3>2. rows' = [rows EXCEPT ![m] = "sent"]
      BY <1>2, <2>2 DEF StoreMessage
    <3>3. Stored' = Stored \cup {m}
      BY <3>1, <3>2 DEF Stored, Shape, InboxOK
    <3>4. Delivery!Show(m)
      BY <1>2, <2>2, <3>1, <3>3 DEF StoreMessage, Delivery!Show
    <3> QED
      BY <3>1, <3>4
  <2> QED
    BY <2>1, <2>2
<1>3. CASE applyOutboundConversationUpdate(c)
  <2>1. /\ chat[c].pc = "count" /\ chat[c].message \in Call
        /\ counted' = counted + 1
        /\ UNCHANGED <<taken, refunds, accepted, refused, Stored>>
    BY <1>3 DEF applyOutboundConversationUpdate, At, Shape, ChatOK, Stored
  <2>2. chat[c].message \in Stored \cap ToCount
    BY <2>1 DEF ToCount, CountInv
  <2>3. counted < Cardinality(Stored)
    <3>1. IsFiniteSet(Stored)
      BY OutboundAssumption, FS_Subset DEF Stored
    <3>2. Stored \ ToCount \subseteq Stored \ {chat[c].message}
      BY <2>2
    <3>3. IsFiniteSet(Stored \ {chat[c].message})
      BY <3>1, FS_RemoveElement
    <3>4. Cardinality(Stored \ ToCount) <= Cardinality(Stored \ {chat[c].message})
      BY <3>2, <3>3, FS_Subset
    <3>5. Cardinality(Stored \ {chat[c].message}) = Cardinality(Stored) - 1
      BY <2>2, <3>1, FS_RemoveElement
    <3>6. /\ Cardinality(Stored) \in Nat
          /\ Cardinality(Stored \ ToCount) \in Nat
      BY <3>1, FS_Subset, FS_CardinalityType
    <3> QED
      BY <3>4, <3>5, <3>6 DEF CountInv, Shape, InboxOK
  <2>4. Delivery!Cardinality(Stored) = Cardinality(Stored)
    BY Zenon DEF Cardinality, Delivery!Cardinality
  <2> QED
    BY <2>1, <2>3, <2>4 DEF Delivery!Count
<1>4. CASE POST(c) \/ Answered(c) \/ TimeOut(c) \/ Crash(c)
  BY <1>4 DEF POST, Answered, TimeOut, Crash
<1> QED
  BY <1>1, <1>2, <1>3, <1>4 DEF Follow

LEMMA ServeDelivers ==
  ASSUME Shape, DispatchInv, NEW c \in Call, Serve(c)
  PROVE  Hidden \/ Delivery!Send(c) \/ Delivery!Refuse(IdOf[c])
<1> USE DEF Hidden, money, provider, inbox
<1>1. CASE Accept(c)
  <2>1. /\ handler[c].pc = "send"
        /\ accepted' = accepted \cup {c}
        /\ UNCHANGED <<taken, refunds, refused, Stored, counted>>
    BY <1>1 DEF Accept, In, Stored
  <2>2. c \notin accepted
    BY <2>1 DEF DispatchInv, SenderInv
  <2>3. IdOf[c] \notin refused => \A d \in accepted : IdOf[d] # IdOf[c]
    BY <2>1, <2>2 DEF DispatchInv, SenderInv, Sends, Shape, HandlerOK
  <2> QED
    BY <2>1, <2>2, <2>3 DEF Delivery!Send
<1>2. CASE Refuse(c)
  BY <1>2 DEF Refuse, Stored, Delivery!Refuse
<1>3. CASE \/ FindDispatch(c) \/ CreateDispatch(c) \/ NoAnswer(c) \/ SaveAccepted(c)
           \/ SaveFails(c) \/ SaveError(c) \/ Die(c)
  BY <1>3 DEF FindDispatch, CreateDispatch, NoAnswer, SaveAccepted, SaveFails,
         SaveError, Die
<1> QED
  BY <1>1, <1>2, <1>3 DEF Serve

LEMMA ReportDelivers ==
  ASSUME Shape, NEW m \in Call, NEW s \in Outcome, Report(m, s) \/ updateStatus(m, s)
  PROVE  UNCHANGED Delivery!vars
<1>1. UNCHANGED <<taken, refunds, accepted, refused, counted>>
  BY DEF Report, updateStatus, money, inbox
<1>2. Stored' = Stored
  <2>1. s # "none"
    BY OutboundAssumption
  <2>2. CASE Report(m, s)
    BY <2>2 DEF Report, inbox, Stored
  <2>3. CASE updateStatus(m, s)
    BY <2>1, <2>3 DEF updateStatus, Stored, Shape, InboxOK
  <2> QED
    BY <2>2, <2>3
<1> QED
  BY <1>1, <1>2 DEF Delivery!vars

LEMMA DeliveryStep ==
  ASSUME Shape, MoneyInv, DispatchInv, CountInv, [Next]_vars
  PROVE  [Delivery!Next]_(Delivery!vars)
<1>1. ASSUME NEW c \in Call, Charge(c) \/ Follow(c) \/ Serve(c)
      PROVE  [Delivery!Next]_(Delivery!vars)
  BY <1>1, Own, HiddenStutters, ChargeDelivers, FollowDelivers, ServeDelivers
     DEF Delivery!Next
<1>2. CASE UNCHANGED vars
  BY <1>2, HiddenStutters DEF vars, money, provider, inbox, Hidden
<1> QED
  BY <1>1, <1>2, ReportDelivers DEF Next

\* Charge, dispatch, refund and inbox together, for any calls that share keys and ids
\* in any way: what service-provider sends, billing-service takes and gives back, and
\* the inbox shows and counts is what TemplateDelivery allows.
THEOREM OutboundImplementsDelivery == Spec => ImplementsDelivery
<1>1. Init => Delivery!Init
  BY DEF Init, Stored, Delivery!Init
<1>2. Spec => [](Shape /\ DispatchInv /\ MoneyInv /\ CountInv)
  BY DispatchAlways, MoneyInit, MoneyStep, CountInit, CountStep, PTL DEF Spec
<1>3. Shape /\ DispatchInv /\ MoneyInv /\ CountInv /\ [Next]_vars
        => [Delivery!Next]_(Delivery!vars)
  BY DeliveryStep
<1> QED
  BY <1>1, <1>2, <1>3, PTL DEF Spec, ImplementsDelivery, Delivery!Spec
=============================================================================
