--------------------------- MODULE MessagePipeline ---------------------------
(***************************************************************************)
(* What webhook-ingestor, service-provider and chat-service promise        *)
(* together about the messages of a customer: an event is passed on by one *)
(* service before the next knows of it, and streamed once; a message is    *)
(* stored once, and announced once to the inbox and to the automation      *)
(* engine, when it is stored.                                              *)
(*                                                                         *)
(* Deliveries, receipts, dead letters, replays, retries, replicas and      *)
(* crashes are not seen here.  Nothing has to happen: a message may be lost *)
(* on its way, of which Inbound!LostOnlyByFault says more.                 *)
(***************************************************************************)
EXTENDS Naturals

CONSTANTS
  Event,     \* event ids
  Message,   \* the provider's message ids
  Carries    \* event -> the message in it

VARIABLES
  accepted,  \* events the ingestor has passed on
  parsed,    \* event -> times service-provider has streamed it
  kept,      \* messages in the database
  shown      \* message -> times it was announced

vars == <<accepted, parsed, kept, shown>>

Init ==
  /\ accepted = {}
  /\ parsed = [e \in Event |-> 0]
  /\ kept = {}
  /\ shown = [m \in Message |-> 0]

PassOn(e) ==
  /\ accepted' = accepted \cup {e}
  /\ UNCHANGED <<parsed, kept, shown>>

Parse(e) ==
  /\ e \in accepted
  /\ parsed[e] = 0
  /\ parsed' = [parsed EXCEPT ![e] = 1]
  /\ UNCHANGED <<accepted, kept, shown>>

Keep(m) ==
  /\ m \notin kept
  /\ \E e \in Event : Carries[e] = m /\ parsed[e] = 1
  /\ kept' = kept \cup {m}
  /\ UNCHANGED <<accepted, parsed, shown>>

Show(m) ==
  /\ m \in kept
  /\ shown[m] = 0
  /\ shown' = [shown EXCEPT ![m] = 1]
  /\ UNCHANGED <<accepted, parsed, kept>>

Next ==
  \/ \E e \in Event : PassOn(e) \/ Parse(e)
  \/ \E m \in Message : Keep(m) \/ Show(m)

Spec == Init /\ [][Next]_vars
=============================================================================
