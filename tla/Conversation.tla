---------------------------- MODULE Conversation ----------------------------
(***************************************************************************)
(* BotService: one chat's entry of the conversations Map, under updates    *)
(* that are handled at the same time.                                      *)
(*                                                                         *)
(* Telegraf starts the handlers of a polled batch together and gives up    *)
(* waiting for one after a while without stopping it, so any handler may   *)
(* act between two awaits of another.  A check is the handling of a link;  *)
(* the checks are numbered in the order they begin, and a pending product  *)
(* is the number of the check that found it.                               *)
(*                                                                         *)
(* Every chat has an entry of its own.  What is saved, /stop and /list     *)
(* concern the subscriptions (PriceTracking); /help and the answer to a    *)
(* text that is no price only reply.                                       *)
(***************************************************************************)
EXTENDS Naturals

CONSTANTS
  Updates,    \* handlers that may run at once
  MaxChecks,  \* bound on the links the chat sends
  Faults,     \* the calls that may reject, among those named below
  MaxFaults   \* bound on their number

(***************************************************************************)
(* Kinds of fault:                                                         *)
(*   "announce"  the reply that the product is being checked               *)
(*   "reply"     a reply inside the try block of handleText                *)
(*   "save"      the upsert                                                *)
(*   "confirm"   a reply of completeSubscription                           *)
(*   "restart"   the process dies and is restarted                         *)
(***************************************************************************)
ASSUME ConversationAssumption == {MaxChecks, MaxFaults} \subseteq Nat

Checks == 1..MaxChecks

VARIABLES
  conversation,  \* [seq, pending]: requestSequence, 0 without an entry, and the
                 \* pending product, 0 without one
  update,        \* what each handler does next, with its local variables
  faults,        \* faults so far
  begun,         \* checks begun so far (ghost)
  cleared,       \* checks begun when the entry was last deleted (ghost)
  cancelled,     \* checks begun when the chat last sent /cancel or /start (ghost)
  outcome        \* what became of each check (ghost)

conversationVars == <<conversation, update, faults, begun, cleared, cancelled, outcome>>

NoConversation == [seq |-> 0, pending |-> 0]

(***************************************************************************)
(* A handler's locals: its step, its check and the sequence it was given,  *)
(* whether the price came with the link, and the product it saves.         *)
(***************************************************************************)
IdleUpdate == [step |-> "idle", check |-> 0, seq |-> 0, priced |-> FALSE, saving |-> 0]

ConversationInit ==
  /\ conversation = NoConversation
  /\ update = [u \in Updates |-> IdleUpdate]
  /\ faults = 0
  /\ begun = 0
  /\ cleared = 0
  /\ cancelled = 0
  /\ outcome = [n \in Checks |-> "none"]

Rejects(kind) ==
  /\ kind \in Faults
  /\ faults < MaxFaults
  /\ faults' = faults + 1

Goto(u, next) == update' = [update EXCEPT ![u].step = next]

End(u) == update' = [update EXCEPT ![u] = IdleUpdate]

Answer(u, what) == outcome' = [outcome EXCEPT ![update[u].check] = what]

\* conversations.delete(key), whatever the entry is by then.
Delete ==
  /\ conversation' = NoConversation
  /\ cleared' = begun

-----------------------------------------------------------------------------
(* handleText: a link, with or without a price. *)

\* Mutant: a link does not move the sequence on.
LinkKeepsSequence(u, priced) ==
  /\ update[u].step = "idle"
  /\ conversation.pending = 0
  /\ begun < MaxChecks
  /\ begun' = begun + 1
  /\ conversation' = [seq |-> 1, pending |-> 0]
  /\ update' = [update EXCEPT ![u] = [step |-> "announce", check |-> begun + 1,
                                      seq |-> 1, priced |-> priced, saving |-> 0]]
  /\ outcome' = [outcome EXCEPT ![begun + 1] = "open"]
  /\ UNCHANGED <<faults, cleared, cancelled>>

\* Mutant: the entry keeps the sequence of the link before.
LinkStoresOldSequence(u, priced) ==
  /\ update[u].step = "idle"
  /\ conversation.pending = 0
  /\ begun < MaxChecks
  /\ begun' = begun + 1
  /\ UNCHANGED conversation
  /\ update' = [update EXCEPT ![u] = [step |-> "announce", check |-> begun + 1,
                                      seq |-> conversation.seq + 1,
                                      priced |-> priced, saving |-> 0]]
  /\ outcome' = [outcome EXCEPT ![begun + 1] = "open"]
  /\ UNCHANGED <<faults, cleared, cancelled>>

\* While no product is pending, a text is taken for a link, a price sent too early
\* included.
Link(u, priced) ==
  /\ update[u].step = "idle"
  /\ conversation.pending = 0
  /\ begun < MaxChecks
  /\ begun' = begun + 1
  /\ conversation' = [seq |-> conversation.seq + 1, pending |-> 0]
  /\ update' = [update EXCEPT ![u] = [step |-> "announce", check |-> begun + 1,
                                      seq |-> conversation.seq + 1,
                                      priced |-> priced, saving |-> 0]]
  /\ outcome' = [outcome EXCEPT ![begun + 1] = "open"]
  /\ UNCHANGED <<faults, cleared, cancelled>>

Announced(u) ==
  /\ update[u].step = "announce"
  /\ Goto(u, "fetch")
  /\ UNCHANGED <<conversation, faults, begun, cleared, cancelled, outcome>>

\* The announcement is outside the try block: the entry stays.
AnnounceFails(u) ==
  /\ update[u].step = "announce"
  /\ Rejects("announce")
  /\ End(u)
  /\ Answer(u, "unannounced")
  /\ UNCHANGED <<conversation, begun, cleared, cancelled>>

\* Mutant: only another sequence overtakes a check, a deleted entry does not.
CurrentIfPresent(u) == conversation.seq \in {0, update[u].seq}

\* The answer of the check is for the conversation there is now.
Current(u) == conversation.seq = update[u].seq

\* The answer is dropped: the entry is gone or belongs to a newer link.
Overtaken(u) ==
  /\ update[u].step = "fetch"
  /\ ~Current(u)
  /\ End(u)
  /\ Answer(u, "dropped")
  /\ UNCHANGED <<conversation, faults, begun, cleared, cancelled>>

NoOffers(u) ==
  /\ update[u].step = "fetch"
  /\ Current(u)
  /\ Delete
  /\ Goto(u, "reply")
  /\ Answer(u, "answered")
  /\ UNCHANGED <<faults, begun, cancelled>>

\* The product becomes pending; with a price it is saved at once, otherwise the
\* chat is shown its offers and asked for a price.
OffersFound(u) ==
  /\ update[u].step = "fetch"
  /\ Current(u)
  /\ conversation' = [seq |-> update[u].seq, pending |-> update[u].check]
  /\ update' = [update EXCEPT
       ![u].step = IF update[u].priced THEN "save" ELSE "reply",
       ![u].saving = IF update[u].priced THEN update[u].check ELSE 0]
  /\ Answer(u, "answered")
  /\ UNCHANGED <<faults, begun, cleared, cancelled>>

\* Mutant: the catch block leaves the entry alone.
CheckFailsQuietly(u) ==
  /\ update[u].step = "fetch"
  /\ Answer(u, "failed")
  /\ End(u)
  /\ UNCHANGED <<conversation, faults, begun, cleared, cancelled>>

\* The catch block of handleText: the text was no product link, or Noon failed.
CheckFails(u) ==
  /\ update[u].step = "fetch"
  /\ Delete
  /\ Answer(u, "failed")
  /\ End(u)
  /\ UNCHANGED <<faults, begun, cancelled>>

Replied(u) ==
  /\ update[u].step = "reply"
  /\ End(u)
  /\ UNCHANGED <<conversation, faults, begun, cleared, cancelled, outcome>>

\* The same catch block, after the product was made pending.
ReplyFails(u) ==
  /\ update[u].step = "reply"
  /\ Rejects("reply")
  /\ Delete
  /\ Answer(u, "failed")
  /\ End(u)
  /\ UNCHANGED <<begun, cancelled>>

-----------------------------------------------------------------------------
(* The price, or none, and completeSubscription. *)

Save(u) ==
  update' = [update EXCEPT ![u] = [IdleUpdate EXCEPT !.step = "save",
                                                     !.saving = conversation.pending]]

Price(u) ==
  /\ update[u].step = "idle"
  /\ conversation.pending # 0
  /\ Save(u)
  /\ UNCHANGED <<conversation, faults, begun, cleared, cancelled, outcome>>

\* The button stays under the message and may be pressed at any time after; a query
\* that cannot be answered any more is as if it was not pressed.
Skip(u) ==
  /\ update[u].step = "idle"
  /\ \E n \in Checks : outcome[n] = "answered"
  /\ Goto(u, "skip")
  /\ UNCHANGED <<conversation, faults, begun, cleared, cancelled, outcome>>

\* answerCbQuery returned; without a pending product the chat is asked for a link.
Skipped(u) ==
  /\ update[u].step = "skip"
  /\ IF conversation.pending = 0 THEN End(u) ELSE Save(u)
  /\ UNCHANGED <<conversation, faults, begun, cleared, cancelled, outcome>>

\* The upsert returned; the entry is deleted, whatever it is by then.
Saved(u) ==
  /\ update[u].step = "save"
  /\ Delete
  /\ Goto(u, "confirm")
  /\ UNCHANGED <<faults, begun, cancelled, outcome>>

\* The catch block of completeSubscription: the product stays pending.
SaveFails(u) ==
  /\ update[u].step = "save"
  /\ Rejects("save")
  /\ Goto(u, "sorry")
  /\ UNCHANGED <<conversation, begun, cleared, cancelled, outcome>>

Confirmed(u) ==
  /\ update[u].step \in {"confirm", "sorry"}
  /\ End(u)
  /\ UNCHANGED <<conversation, faults, begun, cleared, cancelled, outcome>>

\* The same catch block: the chat is told that nothing was saved.
ConfirmFails(u) ==
  /\ update[u].step = "confirm"
  /\ Rejects("confirm")
  /\ Goto(u, "sorry")
  /\ UNCHANGED <<conversation, begun, cleared, cancelled, outcome>>

\* Its reply rejects too: within handleText's try block that is one more failed check.
SorryFails(u) ==
  /\ update[u].step = "sorry"
  /\ Rejects("confirm")
  /\ IF update[u].priced
       THEN Delete /\ Answer(u, "failed")
       ELSE UNCHANGED <<conversation, cleared, outcome>>
  /\ End(u)
  /\ UNCHANGED <<begun, cancelled>>

-----------------------------------------------------------------------------
\* Mutant: the entry is left in the Map.
ResetKeepsEntry ==
  /\ cancelled' = begun
  /\ UNCHANGED <<conversation, update, faults, begun, cleared, outcome>>

\* resetConversation: /cancel or /start.
Reset ==
  /\ Delete
  /\ cancelled' = begun
  /\ UNCHANGED <<update, faults, begun, outcome>>

\* The Map and the handlers are gone.
Restart ==
  /\ Rejects("restart")
  /\ Delete
  /\ update' = [u \in Updates |-> IdleUpdate]
  /\ outcome' = [n \in Checks |-> IF outcome[n] = "open" THEN "dropped" ELSE outcome[n]]
  /\ UNCHANGED <<begun, cancelled>>

\* A call a handler awaits returns, or rejects.
CallReturns(u) ==
  \/ Announced(u) \/ Overtaken(u) \/ NoOffers(u) \/ OffersFound(u) \/ CheckFails(u)
  \/ Replied(u) \/ Skipped(u) \/ Saved(u) \/ Confirmed(u)

CallRejects(u) ==
  AnnounceFails(u) \/ ReplyFails(u) \/ SaveFails(u) \/ ConfirmFails(u) \/ SorryFails(u)

ConversationNext ==
  \/ Reset \/ Restart
  \/ \E u \in Updates :
       \/ \E priced \in BOOLEAN : Link(u, priced)
       \/ Price(u) \/ Skip(u) \/ CallReturns(u) \/ CallRejects(u)

ConversationSpec == ConversationInit /\ [][ConversationNext]_conversationVars

\* Every call returns or rejects.  The chat owes nothing.
FairConversationSpec ==
  ConversationSpec /\ \A u \in Updates : WF_conversationVars(CallReturns(u))

-----------------------------------------------------------------------------
(* Properties. *)

\* Every variable has its type.
ConversationTypeOK ==
  /\ conversation \in [seq : 0..MaxChecks, pending : 0..MaxChecks]
  /\ update \in [Updates -> [step : {"idle", "announce", "fetch", "reply", "skip",
                                     "save", "confirm", "sorry"},
                             check : 0..MaxChecks, seq : 0..MaxChecks,
                             priced : BOOLEAN, saving : 0..MaxChecks]]
  /\ faults \in 0..MaxFaults
  /\ begun \in 0..MaxChecks
  /\ cleared \in 0..begun
  /\ cancelled \in 0..cleared
  /\ outcome \in [Checks -> {"none", "open", "unannounced", "answered", "failed", "dropped"}]

\* requestSequence keeps the answer of an old link from replacing a newer one: the
\* pending product is that of the newest link, unless the entry was deleted, and
\* the numbering began again, after its link.
OvertakenIsDropped ==
  conversation.pending # 0 =>
    conversation.pending = begun \/ conversation.pending <= cleared

\* And it drops nothing else: the answer to a link is dropped only when a newer link
\* was sent or the entry was deleted.
NewestIsKept ==
  \A n \in Checks : outcome[n] = "dropped" => n < begun \/ n <= cleared

\* Once an entry was deleted (/cancel, a failure, a subscription saved) nothing but a
\* new link makes another, however many answers are still on their way.
NothingAfterDelete == conversation # NoConversation => begun > cleared

UnderWay(n) ==
  \E u \in Updates : update[u].step \in {"announce", "fetch"} /\ update[u].check = n

\* An entry without a product waits for the check of the newest link: no path through
\* handleText leaves it behind, except that of an announcement that was not delivered.
NeverWaitsInVain ==
  conversation.seq # 0 /\ conversation.pending = 0 =>
    outcome[begun] = "unannounced" \/ UnderWay(begun)

\* The newest link is answered with offers or an error, unless a newer one is sent
\* or the entry is deleted meanwhile.
LinkIsAnswered ==
  \A n \in Checks :
    outcome[n] = "open" ~>
      outcome[n] \in {"answered", "failed", "unannounced"} \/ n < begun \/ n <= cleared

\* After /cancel no product becomes pending but that of a link sent since.
CancelHolds == conversation.pending # 0 => conversation.pending > cancelled
=============================================================================
