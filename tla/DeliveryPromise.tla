-------------------------- MODULE DeliveryPromise --------------------------
(***************************************************************************)
(* What publishing a notification event promises to the monitoring side    *)
(* and to the chat, whatever the queue and the worker do in between: an    *)
(* event is opened once, its message goes out at most once and only while  *)
(* the event is open, and it is closed for good, after its message unless  *)
(* the delivery was abandoned before one went out.                         *)
(***************************************************************************)
EXTENDS Naturals

CONSTANT Events   \* the event identifiers

VARIABLES
  phase,      \* "unknown", "open", "abandoned" or "closed"
  messages    \* messages delivered to the chat for the event

promiseVars == <<phase, messages>>

PromiseInit ==
  /\ phase = [e \in Events |-> "unknown"]
  /\ messages = [e \in Events |-> 0]

Open(e) ==
  /\ phase[e] = "unknown"
  /\ phase' = [phase EXCEPT ![e] = "open"]
  /\ UNCHANGED messages

Message(e) ==
  /\ phase[e] = "open"
  /\ messages[e] = 0
  /\ messages' = [messages EXCEPT ![e] = 1]
  /\ UNCHANGED phase

\* A restart abandons every delivery that it interrupts before the message.
Abandon(E) ==
  /\ \A e \in E : phase[e] = "open" /\ messages[e] = 0
  /\ phase' = [e \in Events |-> IF e \in E THEN "abandoned" ELSE phase[e]]
  /\ UNCHANGED messages

Close(e) ==
  /\ \/ phase[e] = "open" /\ messages[e] = 1
     \/ phase[e] = "abandoned"
  /\ phase' = [phase EXCEPT ![e] = "closed"]
  /\ UNCHANGED messages

PromiseNext ==
  \/ \E e \in Events : Open(e) \/ Message(e) \/ Close(e)
  \/ \E E \in SUBSET Events : Abandon(E)

PromiseSpec == PromiseInit /\ [][PromiseNext]_promiseVars
=============================================================================
