------------------------- MODULE ConversationProofs -------------------------
(***************************************************************************)
(* Proofs about Conversation, for any number of handlers and links and     *)
(* every failure.  The numbers tell everything: requestSequence is the     *)
(* number of links since the entry was last deleted, and a check keeps the *)
(* number it was given as long as its link is not older than that.         *)
(***************************************************************************)
EXTENDS Conversation, TLAPS

Waiting(u) == update[u].step \in {"announce", "fetch"}

SequenceCounts == conversation.seq = begun - cleared

ChecksAreNumbered ==
  \A u \in Updates :
    /\ update[u].check <= begun
    /\ Waiting(u) =>
         /\ update[u].check # 0
         /\ update[u].seq # 0
         /\ update[u].check > cleared => update[u].seq = update[u].check - cleared

PendingIsNewest ==
  conversation.pending # 0 =>
    /\ conversation.seq # 0
    /\ conversation.pending = begun \/ conversation.pending <= cleared

OutcomesAreOfBegun == \A n \in Checks : outcome[n] # "none" => n <= begun

ConversationInv ==
  /\ ConversationTypeOK
  /\ SequenceCounts
  /\ ChecksAreNumbered
  /\ PendingIsNewest
  /\ OutcomesAreOfBegun
  /\ NewestIsKept
  /\ NeverWaitsInVain

LEMMA ConversationInvInit == ConversationInit => ConversationInv
  BY ConversationAssumption
  DEF ConversationInit, ConversationInv, ConversationTypeOK, SequenceCounts,
      ChecksAreNumbered, PendingIsNewest, OutcomesAreOfBegun, NewestIsKept,
      NeverWaitsInVain, NoConversation, IdleUpdate, Waiting, Checks

\* A handler that waits for the answer to the newest link of an entry is not overtaken.
LEMMA NewestIsCurrent ==
  ASSUME ConversationInv, NEW u \in Updates, Waiting(u), update[u].check > cleared
  PROVE  Current(u) <=> update[u].check = begun
  BY ConversationAssumption
  DEF ConversationInv, ConversationTypeOK, SequenceCounts, ChecksAreNumbered, Current

\* Typing of the functions most steps change.
Steps == {"idle", "announce", "fetch", "reply", "skip", "save", "confirm", "sorry"}

Handling == [step : Steps, check : 0..MaxChecks, seq : 0..MaxChecks,
             priced : BOOLEAN, saving : 0..MaxChecks]

LEMMA AnswerIsTyped ==
  ASSUME ConversationTypeOK, NEW u \in Updates,
         NEW what \in {"unannounced", "answered", "failed", "dropped"}, Answer(u, what)
  PROVE  outcome' \in [Checks -> {"none", "open", "unannounced", "answered", "failed",
                                  "dropped"}]
  BY DEF ConversationTypeOK, Answer

LEMMA EndIsTyped ==
  ASSUME ConversationTypeOK, NEW u \in Updates, End(u)
  PROVE  update' \in [Updates -> Handling]
  BY ConversationAssumption DEF ConversationTypeOK, Handling, Steps, End, IdleUpdate

LEMMA GotoIsTyped ==
  ASSUME ConversationTypeOK, NEW u \in Updates, NEW next \in Steps, Goto(u, next)
  PROVE  update' \in [Updates -> Handling]
  BY DEF ConversationTypeOK, Handling, Goto, Steps

LEMMA SaveIsTyped ==
  ASSUME ConversationTypeOK, NEW u \in Updates, Save(u)
  PROVE  update' \in [Updates -> Handling]
<1>1. [IdleUpdate EXCEPT !.step = "save", !.saving = conversation.pending] \in Handling
  <2>1. conversation.pending \in 0..MaxChecks /\ 0 \in 0..MaxChecks
    BY ConversationAssumption DEF ConversationTypeOK
  <2> QED BY <2>1 DEF Handling, Steps, IdleUpdate
<1> QED BY <1>1 DEF ConversationTypeOK, Handling, Steps, Save

LEMMA RejectsIsTyped ==
  ASSUME ConversationTypeOK, NEW kind, Rejects(kind)
  PROVE  faults' \in 0..MaxFaults
  BY ConversationAssumption DEF ConversationTypeOK, Rejects

LEMMA LinkKeepsInv ==
  ASSUME ConversationInv, NEW u \in Updates, NEW priced \in BOOLEAN, Link(u, priced)
  PROVE  ConversationInv'
<1> USE ConversationAssumption DEF ConversationInv, Link, Checks
<1>1. ConversationTypeOK' /\ SequenceCounts'
  BY DEF ConversationTypeOK, SequenceCounts
<1>2. ChecksAreNumbered'
  BY DEF ConversationTypeOK, SequenceCounts, ChecksAreNumbered, Waiting
<1>3. PendingIsNewest' /\ OutcomesAreOfBegun' /\ NewestIsKept'
  BY DEF ConversationTypeOK, PendingIsNewest, OutcomesAreOfBegun, NewestIsKept
<1>4. NeverWaitsInVain'
  BY DEF ConversationTypeOK, NeverWaitsInVain, UnderWay
<1> QED BY <1>1, <1>2, <1>3, <1>4

\* Deleting the entry and ending or moving on one handler that no longer waits.
LEMMA DeleteKeepsInv ==
  ASSUME ConversationInv, Delete, UNCHANGED begun, ConversationTypeOK',
         \A u \in Updates :
           /\ update'[u].check \in {0, update[u].check}
           /\ Waiting(u)' => Waiting(u) /\ update'[u] = update[u],
         \A n \in Checks : outcome'[n] # "none" => n <= begun
  PROVE  ConversationInv'
<1> USE ConversationAssumption DEF ConversationInv, Delete, NoConversation, Checks
<1>1. SequenceCounts' /\ PendingIsNewest' /\ OutcomesAreOfBegun' /\ NeverWaitsInVain'
  BY DEF ConversationTypeOK, SequenceCounts, PendingIsNewest, OutcomesAreOfBegun,
         NeverWaitsInVain
<1>2. ChecksAreNumbered'
  BY DEF ConversationTypeOK, ChecksAreNumbered, Waiting
<1>3. NewestIsKept'
  BY DEF ConversationTypeOK, NewestIsKept
<1> QED BY <1>1, <1>2, <1>3

\* A step of a handler that does not wait for an answer leaves the numbers alone.
LEMMA OtherStepKeepsInv ==
  ASSUME ConversationInv, NEW u \in Updates, ~Waiting(u), ConversationTypeOK',
         UNCHANGED <<conversation, begun, cleared, outcome>>,
         \A v \in Updates \ {u} : update'[v] = update[v],
         ~Waiting(u)', update'[u].check \in {0, update[u].check}
  PROVE  ConversationInv'
<1> USE ConversationAssumption DEF ConversationInv
<1>1. SequenceCounts' /\ PendingIsNewest' /\ OutcomesAreOfBegun' /\ NewestIsKept'
  BY DEF SequenceCounts, PendingIsNewest, OutcomesAreOfBegun, NewestIsKept
<1>2. ChecksAreNumbered'
  BY DEF ConversationTypeOK, ChecksAreNumbered, Waiting
<1>3. NeverWaitsInVain'
  BY DEF NeverWaitsInVain, UnderWay, Waiting
<1> QED BY <1>1, <1>2, <1>3

LEMMA AnnouncedKeepsInv ==
  ASSUME ConversationInv, NEW u \in Updates, Announced(u)
  PROVE  ConversationInv'
<1> USE ConversationAssumption DEF ConversationInv, Announced, Goto
<1>1. ConversationTypeOK' /\ SequenceCounts' /\ PendingIsNewest'
  BY DEF ConversationTypeOK, SequenceCounts, PendingIsNewest
<1>2. ChecksAreNumbered'
  BY DEF ConversationTypeOK, ChecksAreNumbered, Waiting
<1>3. OutcomesAreOfBegun' /\ NewestIsKept'
  BY DEF OutcomesAreOfBegun, NewestIsKept
<1>4. NeverWaitsInVain'
  BY DEF ConversationTypeOK, NeverWaitsInVain, UnderWay
<1> QED BY <1>1, <1>2, <1>3, <1>4

LEMMA AnnounceFailsKeepsInv ==
  ASSUME ConversationInv, NEW u \in Updates, AnnounceFails(u)
  PROVE  ConversationInv'
<1>0. ConversationTypeOK'
  BY AnswerIsTyped, EndIsTyped, RejectsIsTyped
  DEF ConversationInv, ConversationTypeOK, Handling, Steps, AnnounceFails
<1> USE ConversationAssumption
    DEF ConversationInv, AnnounceFails, Rejects, End, Answer, IdleUpdate, Checks
<1>1. ConversationTypeOK' /\ SequenceCounts' /\ PendingIsNewest'
  BY <1>0 DEF SequenceCounts, PendingIsNewest
<1>2. ChecksAreNumbered'
  BY DEF ConversationTypeOK, ChecksAreNumbered, Waiting
<1>3. OutcomesAreOfBegun' /\ NewestIsKept'
  BY DEF ConversationTypeOK, ChecksAreNumbered, OutcomesAreOfBegun, NewestIsKept
<1>4. NeverWaitsInVain'
  BY DEF ConversationTypeOK, SequenceCounts, NeverWaitsInVain, UnderWay
<1> QED BY <1>1, <1>2, <1>3, <1>4

LEMMA OvertakenKeepsInv ==
  ASSUME ConversationInv, NEW u \in Updates, Overtaken(u)
  PROVE  ConversationInv'
<1>0. ConversationTypeOK'
  BY AnswerIsTyped, EndIsTyped
  DEF ConversationInv, ConversationTypeOK, Handling, Steps, Overtaken
<1> USE ConversationAssumption
    DEF ConversationInv, Overtaken, End, Answer, IdleUpdate, Checks
<1>1. update[u].check = begun => begun <= cleared
  BY NewestIsCurrent DEF ConversationTypeOK, Waiting
<1>2. ConversationTypeOK' /\ SequenceCounts' /\ PendingIsNewest'
  BY <1>0 DEF SequenceCounts, PendingIsNewest
<1>3. ChecksAreNumbered'
  BY DEF ConversationTypeOK, ChecksAreNumbered, Waiting
<1>4. OutcomesAreOfBegun' /\ NewestIsKept'
  BY <1>1 DEF ConversationTypeOK, ChecksAreNumbered, OutcomesAreOfBegun, NewestIsKept
<1>5. NeverWaitsInVain'
  BY <1>1 DEF ConversationTypeOK, SequenceCounts, NeverWaitsInVain, UnderWay
<1> QED BY <1>2, <1>3, <1>4, <1>5

LEMMA OffersFoundKeepsInv ==
  ASSUME ConversationInv, NEW u \in Updates, OffersFound(u)
  PROVE  ConversationInv'
<1> USE ConversationAssumption DEF ConversationInv, OffersFound, Answer, Checks
<1>1. update[u].check = begun \/ update[u].check <= cleared
  BY NewestIsCurrent DEF ConversationTypeOK, Waiting
<1>2. ConversationTypeOK'
  <2>1. conversation' \in [seq : 0..MaxChecks, pending : 0..MaxChecks]
    BY DEF ConversationTypeOK
  <2>2. update' \in [Updates -> Handling]
    <3>1. \A n \in 0..MaxChecks, step \in Steps :
            [update[u] EXCEPT !.step = step, !.saving = n] \in Handling
      BY DEF ConversationTypeOK, Handling, Steps
    <3>2. /\ (IF update[u].priced THEN "save" ELSE "reply") \in Steps
          /\ (IF update[u].priced THEN update[u].check ELSE 0) \in 0..MaxChecks
      BY DEF ConversationTypeOK, Steps
    <3> DEFINE found ==
          [update[u] EXCEPT !.step = IF update[u].priced THEN "save" ELSE "reply",
                            !.saving = IF update[u].priced THEN update[u].check ELSE 0]
    <3>3. found \in Handling
      BY <3>1, <3>2
    <3>4. update' = [update EXCEPT ![u] = found]
      BY DEF ConversationTypeOK
    <3> HIDE DEF found
    <3> QED BY <3>3, <3>4 DEF ConversationTypeOK, Handling, Steps
  <2> QED BY <2>1, <2>2, AnswerIsTyped DEF ConversationTypeOK, Handling, Steps
<1>3. SequenceCounts' /\ PendingIsNewest'
  BY <1>1 DEF ConversationTypeOK, SequenceCounts, PendingIsNewest, Current,
              ChecksAreNumbered, Waiting
<1>4. ChecksAreNumbered'
  BY DEF ConversationTypeOK, ChecksAreNumbered, Waiting
<1>5. OutcomesAreOfBegun' /\ NewestIsKept'
  BY DEF ConversationTypeOK, ChecksAreNumbered, OutcomesAreOfBegun, NewestIsKept
<1>6. NeverWaitsInVain'
  BY DEF ConversationTypeOK, ChecksAreNumbered, NeverWaitsInVain, Waiting
<1> QED BY <1>2, <1>3, <1>4, <1>5, <1>6

\* The steps that delete the entry.
LEMMA DeletingStepKeepsInv ==
  ASSUME ConversationInv, NEW u \in Updates,
         NoOffers(u) \/ CheckFails(u) \/ ReplyFails(u) \/ Saved(u)
  PROVE  ConversationInv'
<1> USE ConversationAssumption DEF ConversationInv
<1>1. Delete /\ UNCHANGED <<begun, cancelled>>
  BY DEF NoOffers, CheckFails, ReplyFails, Saved
<1>2. update' \in [Updates -> Handling]
  <2>1. CASE NoOffers(u) \/ Saved(u)
    BY <2>1, GotoIsTyped DEF NoOffers, Saved, Steps
  <2>2. CASE CheckFails(u) \/ ReplyFails(u)
    BY <2>2, EndIsTyped DEF CheckFails, ReplyFails
  <2> QED BY <2>1, <2>2
<1>3. /\ faults' \in 0..MaxFaults
      /\ outcome' \in [Checks -> {"none", "open", "unannounced", "answered", "failed",
                                  "dropped"}]
  BY AnswerIsTyped, RejectsIsTyped
  DEF ConversationTypeOK, NoOffers, CheckFails, ReplyFails, Saved
<1>4. ConversationTypeOK'
  BY <1>1, <1>2, <1>3
  DEF ConversationTypeOK, Handling, Steps, Delete, NoConversation
<1>5. ASSUME NEW v \in Updates
      PROVE  /\ update'[v].check \in {0, update[v].check}
             /\ Waiting(v)' => Waiting(v) /\ update'[v] = update[v]
  <2>1. \E step \in {"reply", "confirm"} : Goto(u, step) \/ End(u)
    BY DEF NoOffers, CheckFails, ReplyFails, Saved
  <2>2. CASE End(u)
    BY <2>2 DEF ConversationTypeOK, Waiting, End, IdleUpdate
  <2>3. ASSUME NEW step \in {"reply", "confirm"}, Goto(u, step)
        PROVE  /\ update'[v].check \in {0, update[v].check}
               /\ Waiting(v)' => Waiting(v) /\ update'[v] = update[v]
    BY <2>3 DEF ConversationTypeOK, Waiting, Goto
  <2> QED BY <2>1, <2>2, <2>3
<1>6. \A n \in Checks : outcome'[n] # "none" => n <= begun
  BY DEF ConversationTypeOK, OutcomesAreOfBegun, ChecksAreNumbered, Answer,
         NoOffers, CheckFails, ReplyFails, Saved
<1> QED BY <1>1, <1>4, <1>5, <1>6, DeleteKeepsInv

LEMMA SorryFailsKeepsInv ==
  ASSUME ConversationInv, NEW u \in Updates, SorryFails(u)
  PROVE  ConversationInv'
<1> USE ConversationAssumption
    DEF ConversationInv, SorryFails, Answer, End, IdleUpdate, Checks
<1>1. ConversationTypeOK'
  <2>1. update' \in [Updates -> Handling] /\ faults' \in 0..MaxFaults
    BY EndIsTyped, RejectsIsTyped
  <2>2. outcome' \in [Checks -> {"none", "open", "unannounced", "answered", "failed",
                                 "dropped"}]
    BY AnswerIsTyped DEF ConversationTypeOK
  <2> QED BY <2>1, <2>2 DEF ConversationTypeOK, Handling, Steps, Delete, NoConversation
<1>2. \A v \in Updates : /\ update'[v].check \in {0, update[v].check}
                         /\ Waiting(v)' => Waiting(v) /\ update'[v] = update[v]
  BY DEF ConversationTypeOK, Waiting
<1>3. CASE update[u].priced
  <2>1. \A n \in Checks : outcome'[n] # "none" => n <= begun
    BY <1>3 DEF ConversationTypeOK, OutcomesAreOfBegun, ChecksAreNumbered
  <2> QED BY <1>1, <1>2, <1>3, <2>1, DeleteKeepsInv
<1>4. CASE ~update[u].priced
  BY <1>1, <1>4, OtherStepKeepsInv DEF ConversationTypeOK, Waiting
<1> QED BY <1>3, <1>4

\* The steps of handlers that neither wait for an answer nor touch the entry.
LEMMA QuietStepKeepsInv ==
  ASSUME ConversationInv, NEW u \in Updates,
         \/ Price(u) \/ Skip(u) \/ Skipped(u)
         \/ Replied(u) \/ SaveFails(u) \/ Confirmed(u) \/ ConfirmFails(u)
  PROVE  ConversationInv'
<1> USE ConversationAssumption DEF ConversationInv
<1>1. \/ End(u) \/ Save(u)
      \/ \E step \in {"skip", "sorry"} : Goto(u, step)
  BY DEF Price, Skip, Skipped, Replied, SaveFails, Confirmed, ConfirmFails
<1>2. /\ UNCHANGED <<conversation, begun, cleared, cancelled, outcome>>
      /\ update[u].step \in Steps \ {"announce", "fetch"}
  BY DEF Price, Skip, Skipped, Replied, SaveFails, Confirmed, ConfirmFails, Steps
<1>3. faults' \in 0..MaxFaults
  BY RejectsIsTyped
  DEF ConversationTypeOK, Price, Skip, Skipped, Replied, SaveFails, Confirmed, ConfirmFails
<1>4. update' \in [Updates -> Handling]
  BY <1>1, EndIsTyped, SaveIsTyped, GotoIsTyped DEF Steps
<1>5. ConversationTypeOK'
  BY <1>2, <1>3, <1>4 DEF ConversationTypeOK, Handling, Steps
<1>6. /\ ~Waiting(u)'
      /\ update'[u].check \in {0, update[u].check}
      /\ \A v \in Updates \ {u} : update'[v] = update[v]
  <2>1. CASE End(u)
    BY <2>1 DEF ConversationTypeOK, Waiting, End, IdleUpdate
  <2>2. CASE Save(u)
    BY <2>2 DEF ConversationTypeOK, Waiting, Save, IdleUpdate
  <2>3. CASE \E step \in {"skip", "sorry"} : Goto(u, step)
    BY <2>3 DEF ConversationTypeOK, Waiting, Goto
  <2> QED BY <1>1, <2>1, <2>2, <2>3
<1>7. ~Waiting(u)
  BY <1>2 DEF Waiting
<1> QED BY <1>2, <1>5, <1>6, <1>7, OtherStepKeepsInv

LEMMA ResetKeepsInv ==
  ASSUME ConversationInv, Reset
  PROVE  ConversationInv'
<1> USE ConversationAssumption DEF ConversationInv, Reset
<1>1. ConversationTypeOK'
  BY DEF ConversationTypeOK, Delete, NoConversation
<1> QED BY <1>1, DeleteKeepsInv DEF Waiting, OutcomesAreOfBegun

LEMMA RestartKeepsInv ==
  ASSUME ConversationInv, Restart
  PROVE  ConversationInv'
<1> USE ConversationAssumption DEF ConversationInv, Restart, IdleUpdate
<1>1. ConversationTypeOK'
  BY RejectsIsTyped DEF ConversationTypeOK, Delete, NoConversation
<1>2. \A u \in Updates : update'[u].check = 0 /\ ~Waiting(u)'
  BY DEF Waiting
<1>3. \A n \in Checks : outcome'[n] # "none" => n <= begun
  BY DEF ConversationTypeOK, OutcomesAreOfBegun
<1> QED BY <1>1, <1>2, <1>3, DeleteKeepsInv

LEMMA ConversationInvNext ==
  ASSUME ConversationInv, [ConversationNext]_conversationVars
  PROVE  ConversationInv'
<1>1. CASE UNCHANGED conversationVars
  BY <1>1
  DEF conversationVars, ConversationInv, ConversationTypeOK, SequenceCounts,
      ChecksAreNumbered, PendingIsNewest, OutcomesAreOfBegun, NewestIsKept,
      NeverWaitsInVain, UnderWay, Waiting
<1>2. CASE Reset \/ Restart
  BY <1>2, ResetKeepsInv, RestartKeepsInv
<1>3. ASSUME NEW u \in Updates, NEW priced \in BOOLEAN, Link(u, priced)
      PROVE  ConversationInv'
  BY <1>3, LinkKeepsInv
<1>4. ASSUME NEW u \in Updates, Price(u) \/ Skip(u)
      PROVE  ConversationInv'
  BY <1>4, QuietStepKeepsInv
<1>5. ASSUME NEW u \in Updates, CallReturns(u)
      PROVE  ConversationInv'
  BY <1>5, AnnouncedKeepsInv, OvertakenKeepsInv, OffersFoundKeepsInv,
     DeletingStepKeepsInv, QuietStepKeepsInv
  DEF CallReturns
<1>6. ASSUME NEW u \in Updates, CallRejects(u)
      PROVE  ConversationInv'
  BY <1>6, AnnounceFailsKeepsInv, DeletingStepKeepsInv, QuietStepKeepsInv,
     SorryFailsKeepsInv
  DEF CallRejects
<1> QED BY <1>1, <1>2, <1>3, <1>4, <1>5, <1>6 DEF ConversationNext

LEMMA ConversationInvAlways == ConversationSpec => []ConversationInv
  BY ConversationInvInit, ConversationInvNext, PTL DEF ConversationSpec

-----------------------------------------------------------------------------
\* The types hold for any number of links and handlers; in them requestSequence never
\* exceeds the number of links the chat sent.
THEOREM ConversationTypeCorrect == ConversationSpec => []ConversationTypeOK
  BY ConversationInvAlways, PTL DEF ConversationInv

\* requestSequence keeps an overtaken answer from becoming the pending product.
THEOREM OvertakenAreDropped == ConversationSpec => []OvertakenIsDropped
<1>1. ConversationInv => OvertakenIsDropped
  BY DEF ConversationInv, PendingIsNewest, OvertakenIsDropped
<1> QED BY <1>1, ConversationInvAlways, PTL

\* No answer is dropped but that of an older link or a deleted entry.
THEOREM NewestAreKept == ConversationSpec => []NewestIsKept
  BY ConversationInvAlways, PTL DEF ConversationInv

\* Only a link makes an entry.
THEOREM NothingIsLeftAfterDelete == ConversationSpec => []NothingAfterDelete
<1>1. ConversationInv => NothingAfterDelete
  BY ConversationAssumption
  DEF ConversationInv, ConversationTypeOK, SequenceCounts, PendingIsNewest,
      NothingAfterDelete, NoConversation
<1> QED BY <1>1, ConversationInvAlways, PTL

\* An entry without a product always has a check under way to settle it, or lost its
\* announcement.
THEOREM WaitsAreAnswered == ConversationSpec => []NeverWaitsInVain
  BY ConversationInvAlways, PTL DEF ConversationInv
=============================================================================
