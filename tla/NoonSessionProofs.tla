------------------------- MODULE NoonSessionProofs -------------------------
(***************************************************************************)
(* Proofs about NoonSession, for any number of clients, every failure and  *)
(* any bounds.                                                             *)
(***************************************************************************)
EXTENDS NoonSession, TLAPS

\* The stages of a refresh that has not settled.
Extracting == {"launch", "use", "close", "rejected", "extracted"}
UnderWay == Extracting \cup {"cached"}

FetchesTyped ==
  /\ DOMAIN fetch = Clients
  /\ \A c \in Clients :
       /\ DOMAIN fetch[c] = {"step", "attempt", "session", "refused", "result"}
       /\ fetch[c].step # "idle" => fetch[c].session \in Extractions
       /\ fetch[c].step = "idle" => fetch[c].attempt = 1

\* The refresh under way is the one refreshPromise stands for, and the others below
\* it have brought their sessions.
RefreshInv ==
  /\ stage \in [Extractions -> UnderWay \cup {"none", "done"}]
  /\ \A r \in Extractions : stage[r] \in UnderWay => refreshPromise = r
  /\ refreshPromise # NoSession =>
       \E r \in Extractions : r = refreshPromise /\ stage[r] \in UnderWay
  /\ \A q, r \in Extractions : q < r /\ stage[r] # "none" => stage[q] = "done"

\* A session that was refused is not the cached one, and below the session of the
\* second attempt.
SessionInv ==
  /\ cachedSession \in Extractions \cup {NoSession}
  /\ cachedSession # NoSession => stage[cachedSession] \in {"cached", "done"}
  /\ \A s \in blocked : s \in Extractions /\ stage[s] = "done"
  /\ \A c \in Clients :
       /\ fetch[c].step = "request" => stage[fetch[c].session] \in {"cached", "done"}
       /\ fetch[c].step = "wait" => stage[fetch[c].session] # "none"
       /\ fetch[c].attempt = 2 =>
            /\ fetch[c].refused \in Extractions
            /\ stage[fetch[c].refused] = "done"
            /\ fetch[c].refused < fetch[c].session
            /\ cachedSession # fetch[c].refused

NoonInv == FetchesTyped /\ RefreshInv /\ SessionInv

LEMMA NumbersAreNumbers == Extractions \subseteq Nat \ {0} /\ NoSession \notin Extractions
  BY BrowserAssumption DEF Extractions, NoSession

LEMMA NoonInvInit == NoonInit => NoonInv
  BY NumbersAreNumbers
  DEF NoonInit, BrowserInit, IdleFetch, NoonInv, FetchesTyped, RefreshInv, SessionInv,
      UnderWay, Extracting

\* The browser only moves the stage of the refresh under way, and settles none.
LEMMA BrowserMovesStage ==
  ASSUME BrowserStep
  PROVE  \/ UNCHANGED stage
         \/ \E r \in Extractions, next \in Extracting :
              stage[r] \in Extracting /\ Goto(r, next)
<1>1. CASE IdleClose \/ ChromiumExits \/ ChromiumDies
  BY <1>1 DEF IdleClose, ChromiumExits, ChromiumDies
<1>2. ASSUME NEW r \in Extractions, ExtractionStep(r)
      PROVE  \E next \in Extracting : stage[r] \in Extracting /\ Goto(r, next)
  BY <1>2 DEF ExtractionStep, Launched, LaunchFails, Extracted, ExtractionFails,
              CloseReturns, CloseAfterError, Extracting
<1> QED
  BY <1>1, <1>2 DEF BrowserStep

LEMMA BrowserKeepsInv ==
  ASSUME NoonInv, BrowserStep, UNCHANGED sessionVars
  PROVE  NoonInv'
<1>1. CASE UNCHANGED stage
  BY <1>1 DEF NoonInv, FetchesTyped, RefreshInv, SessionInv, sessionVars
<1>2. ASSUME NEW r \in Extractions, NEW next \in Extracting,
             stage[r] \in Extracting, Goto(r, next)
      PROVE  NoonInv'
  <2> USE <1>2 DEF NoonInv, Goto, sessionVars, UnderWay, Extracting
  <2>1. FetchesTyped'
    BY DEF FetchesTyped
  <2>2. RefreshInv'
    BY DEF RefreshInv
  <2>3. SessionInv'
    BY DEF SessionInv, FetchesTyped, RefreshInv
  <2> QED
    BY <2>1, <2>2, <2>3
<1> QED
  BY <1>1, <1>2, BrowserMovesStage

\* A client that asks for a refresh gets the one under way, begun now or before:
\* it is above every session that was brought already.
LEMMA RefreshIsAbove ==
  ASSUME NoonInv, NEW r \in Extractions, Refresh(r)
  PROVE  /\ RefreshInv'
         /\ \A q \in Extractions : stage[q] = "done" => stage'[q] = "done" /\ q < r
         /\ \A q \in Extractions : stage[q] # "none" => stage'[q] = stage[q]
         /\ stage'[r] # "none"
<1> USE NumbersAreNumbers DEF NoonInv, RefreshInv, UnderWay, Extracting
<1>1. CASE refreshPromise # NoSession
  BY <1>1 DEF Refresh, browserVars
<1>2. CASE refreshPromise = NoSession
  <2>1. /\ stage[r] = "none" /\ \A q \in 1..(r - 1) : stage[q] # "none"
        /\ refreshPromise' = r
        /\ \E next \in {"use", "launch"} : stage' = [stage EXCEPT ![r] = next]
    BY <1>2 DEF Refresh, Extract, Goto
  <2>2. \A q \in Extractions : q < r => stage[q] = "done"
    <3> SUFFICES ASSUME NEW q \in Extractions, q < r PROVE stage[q] = "done"
      OBVIOUS
    <3>1. q \in 1..(r - 1)
      OBVIOUS
    <3> QED
      BY <1>2, <2>1, <3>1
  <2>3. \A q \in Extractions : stage[q] # "none" => q < r
    BY <2>1
  <2> QED
    BY <2>1, <2>2, <2>3
<1> QED
  BY <1>1, <1>2

LEMMA FetchKeepsInv ==
  ASSUME NoonInv, NEW c \in Clients,
         BeginFetch(c) \/ FetchStep(c) \/ NetworkError(c)
  PROVE  NoonInv'
<1> USE NumbersAreNumbers DEF NoonInv, IdleFetch
<1>1. ASSUME NEW r \in Extractions, Refresh(r), NEW attempt \in {1, 2},
             NEW refused, Await(c, attempt, r, refused), UNCHANGED blocked,
             \/ attempt = 1 /\ cachedSession' = cachedSession
             \/ /\ attempt = 2 /\ cachedSession' = NoSession
                /\ refused \in Extractions /\ stage[refused] = "done"
      PROVE  NoonInv'
  <2>1. /\ RefreshInv'
        /\ \A q \in Extractions : stage[q] = "done" => stage'[q] = "done" /\ q < r
        /\ \A q \in Extractions : stage[q] # "none" => stage'[q] = stage[q]
        /\ stage'[r] # "none"
    BY <1>1, RefreshIsAbove
  <2>2. FetchesTyped'
    BY <1>1 DEF Await, FetchesTyped
  <2>3. \A d \in Clients : fetch'[d] =
          IF d = c THEN [step |-> "wait", attempt |-> attempt, session |-> r,
                         refused |-> refused, result |-> "none"]
                   ELSE fetch[d]
    BY <1>1 DEF Await, FetchesTyped
  <2>4. /\ cachedSession' \in Extractions \cup {NoSession}
        /\ cachedSession' # NoSession =>
             cachedSession' = cachedSession /\ stage'[cachedSession'] \in {"cached", "done"}
    BY <1>1, <2>1 DEF SessionInv
  <2>5. ASSUME NEW d \in Clients
        PROVE  /\ fetch'[d].step = "request" => stage'[fetch'[d].session] \in {"cached", "done"}
               /\ fetch'[d].step = "wait" => stage'[fetch'[d].session] # "none"
    <3>1. CASE d = c
      BY <2>1, <2>3, <3>1
    <3>2. CASE d # c
      <4>1. fetch'[d] = fetch[d]
        BY <2>3, <3>2
      <4>2. /\ fetch[d].step = "request" => stage[fetch[d].session] \in {"cached", "done"}
            /\ fetch[d].step = "wait" => stage[fetch[d].session] # "none"
            /\ fetch[d].step # "idle" => fetch[d].session \in Extractions
        BY DEF FetchesTyped, SessionInv
      <4> QED
        BY <2>1, <4>1, <4>2
    <3> QED
      BY <3>1, <3>2
  <2>6. ASSUME NEW d \in Clients, fetch'[d].attempt = 2
        PROVE  /\ fetch'[d].refused \in Extractions
               /\ stage'[fetch'[d].refused] = "done"
               /\ fetch'[d].refused < fetch'[d].session
               /\ cachedSession' # fetch'[d].refused
    <3>1. CASE d = c
      BY <1>1, <2>1, <2>3, <2>6, <3>1
    <3>2. CASE d # c
      <4>1. fetch'[d] = fetch[d]
        BY <2>3, <3>2
      <4>2. /\ fetch[d].refused \in Extractions /\ stage[fetch[d].refused] = "done"
            /\ fetch[d].refused < fetch[d].session /\ cachedSession # fetch[d].refused
        BY <2>6, <4>1 DEF SessionInv
      <4> QED
        BY <2>1, <2>4, <4>1, <4>2
    <3> QED
      BY <3>1, <3>2
  <2>7. \A s \in blocked' : s \in Extractions /\ stage'[s] = "done"
    BY <1>1, <2>1 DEF SessionInv
  <2>8. SessionInv'
    BY <2>4, <2>5, <2>6, <2>7 DEF SessionInv
  <2> QED
    BY <2>1, <2>2, <2>8
<1>2. CASE BeginFetch(c)
  <2>1. CASE cachedSession # NoSession /\ ~expired
    <3>1. /\ UNCHANGED <<browserVars, cachedSession, refreshPromise, blocked>>
          /\ fetch' = [fetch EXCEPT ![c] =
               [step |-> "request", attempt |-> 1, session |-> cachedSession,
                refused |-> NoSession, result |-> "none"]]
      BY <1>2, <2>1 DEF BeginFetch
    <3> QED
      BY <2>1, <3>1 DEF browserVars, FetchesTyped, RefreshInv, SessionInv
  <2>2. CASE ~(cachedSession # NoSession /\ ~expired)
    BY <1>1, <1>2, <2>2 DEF BeginFetch
  <2> QED
    BY <2>1, <2>2
<1>3. CASE GotSession(c)
  BY <1>3 DEF GotSession, browserVars, FetchesTyped, RefreshInv, SessionInv
<1>4. ASSUME NEW result, Return(c, result) PROVE NoonInv'
  BY <1>4 DEF Return, FetchesTyped, RefreshInv, SessionInv
<1>5. CASE Answered(c) \/ NetworkError(c)
  BY <1>4, <1>5 DEF Answered, NetworkError
<1>6. CASE Refused(c)
  <2>1. CASE Retry(c)
    <3>1. fetch[c].session \in Extractions /\ stage[fetch[c].session] = "done"
      BY <1>6 DEF Refused, SessionInv
    <3> QED
      BY <1>1, <2>1, <3>1 DEF Retry
  <2> QED
    BY <1>4, <1>6, <2>1 DEF Refused
<1> QED
  BY <1>2, <1>3, <1>5, <1>6 DEF FetchStep

LEMMA RefreshKeepsInv ==
  ASSUME NoonInv, NEW r \in Extractions, RefreshStep(r)
  PROVE  NoonInv'
<1> USE NumbersAreNumbers DEF NoonInv, UnderWay, Extracting, Goto
<1>1. CASE CacheSession(r)
  <2>1. FetchesTyped'
    BY <1>1 DEF CacheSession, FetchesTyped
  <2>2. RefreshInv'
    BY <1>1 DEF CacheSession, RefreshInv
  <2>3. SessionInv'
    BY <1>1 DEF CacheSession, FetchesTyped, RefreshInv, SessionInv
  <2> QED
    BY <2>1, <2>2, <2>3
<1>2. CASE Resolve(r) /\ refreshPromise' = NoSession
  <2>1. FetchesTyped'
    BY <1>2 DEF Resolve, FetchesTyped
  <2>2. RefreshInv'
    BY <1>2 DEF Resolve, RefreshInv
  <2>3. SessionInv'
    BY <1>2 DEF Resolve, FetchesTyped, RefreshInv, SessionInv
  <2> QED
    BY <2>1, <2>2, <2>3
<1>3. CASE Reject(r) /\ Goto(r, "none") /\ refreshPromise' = NoSession
  <2>1. FetchesTyped'
    BY <1>3 DEF Reject, IdleFetch, FetchesTyped
  <2>2. RefreshInv'
    BY <1>3 DEF Reject, RefreshInv
  <2>3. SessionInv'
    BY <1>3 DEF Reject, IdleFetch, FetchesTyped, RefreshInv, SessionInv
  <2> QED
    BY <2>1, <2>2, <2>3
<1> QED
  BY <1>1, <1>2, <1>3 DEF RefreshStep, Settle

LEMMA NoonInvStays == NoonInv /\ [NoonNext]_noonVars => NoonInv'
<1> SUFFICES ASSUME NoonInv, [NoonNext]_noonVars PROVE NoonInv'
  OBVIOUS
<1>1. CASE UNCHANGED <<stage, cachedSession, refreshPromise, fetch, blocked>>
  BY <1>1 DEF NoonInv, FetchesTyped, RefreshInv, SessionInv
<1>2. CASE Expire
  BY <1>1, <1>2 DEF Expire, browserVars
<1>3. ASSUME NEW s \in Extractions, Block(s) \/ Unblock(s) PROVE NoonInv'
  BY <1>3 DEF Block, Unblock, browserVars, NoonInv, FetchesTyped, RefreshInv, SessionInv
<1>4. CASE UNCHANGED noonVars
  BY <1>1, <1>4 DEF noonVars, browserVars, sessionVars
<1> QED
  BY <1>2, <1>3, <1>4, BrowserKeepsInv, FetchKeepsInv, RefreshKeepsInv DEF NoonNext

THEOREM NoonInvariant == NoonSpec => []NoonInv
  BY NoonInvInit, NoonInvStays, PTL DEF NoonSpec

\* OneExtraction, for any number of clients and under every failure.
THEOREM ExtractionsAreSingle == NoonSpec => []OneExtraction
<1>1. NoonInv => OneExtraction
  BY DEF NoonInv, RefreshInv, OneExtraction, UnderWay, Extracting
<1> QED
  BY <1>1, NoonInvariant, PTL

\* RetryIsNewer, for any number of clients and under every failure.
THEOREM RetriesAreNewer == NoonSpec => []RetryIsNewer
<1>1. NoonInv => RetryIsNewer
  BY NumbersAreNumbers DEF NoonInv, FetchesTyped, SessionInv, RetryIsNewer
<1> QED
  BY <1>1, NoonInvariant, PTL

\* NoOrphan, for any number of clients and under every failure.
THEOREM NoChromiumIsForgotten == NoonSpec => []NoOrphan
<1>1. NoonInit => NoOrphan
  BY DEF NoonInit, BrowserInit, NoOrphan
<1>2. NoOrphan /\ [NoonNext]_noonVars => NoOrphan'
  <2> SUFFICES ASSUME NoOrphan, [NoonNext]_noonVars PROVE NoOrphan'
    OBVIOUS
  <2> USE DEF NoOrphan, browserVars
  <2>1. CASE UNCHANGED <<chromium, context>>
    BY <2>1
  <2>2. ASSUME NEW r \in Extractions, ExtractionStep(r) PROVE NoOrphan'
    BY <2>2 DEF ExtractionStep, Launched, LaunchFails, Extracted, ExtractionFails,
                CloseReturns, CloseAfterError, CloseContext
  <2>3. CASE BrowserStep
    BY <2>2, <2>3 DEF BrowserStep, IdleClose, CloseContext, ChromiumExits, ChromiumDies
  <2>4. ASSUME NEW r \in Extractions, Refresh(r) PROVE UNCHANGED <<chromium, context>>
    BY <2>4 DEF Refresh, Extract
  <2>5. ASSUME NEW c \in Clients, BeginFetch(c) \/ FetchStep(c) \/ NetworkError(c)
        PROVE  UNCHANGED <<chromium, context>>
    BY <2>4, <2>5 DEF BeginFetch, FetchStep, GotSession, Answered, Refused, Retry,
                      NetworkError, Return
  <2>6. ASSUME NEW r \in Extractions, RefreshStep(r) \/ Block(r) \/ Unblock(r)
        PROVE  UNCHANGED <<chromium, context>>
    BY <2>6 DEF RefreshStep, CacheSession, Settle, Resolve, Reject, Block, Unblock
  <2> QED
    BY <2>1, <2>3, <2>5, <2>6 DEF NoonNext, Expire, noonVars
<1> QED
  BY <1>1, <1>2, PTL DEF NoonSpec

-----------------------------------------------------------------------------
Fetches == [step : {"idle", "wait", "request"}, attempt : {1, 2},
            session : Extractions \cup {NoSession},
            refused : Extractions \cup {NoSession},
            result : {"none", "ok", "failed"}]

LEMMA IdleIsFetch == \A result \in {"none", "ok", "failed"} : IdleFetch(result) \in Fetches
  BY DEF IdleFetch, Fetches

\* The types that NoonInv does not give.
RestTyped ==
  /\ chromium \in {"gone", "open", "closing"}
  /\ context \in BOOLEAN
  /\ idleTimer \in BOOLEAN
  /\ failures \in 0..MaxFailures
  /\ fetch \in [Clients -> Fetches]
  /\ expired \in BOOLEAN
  /\ expiries \in 0..MaxExpiries

LEMMA BoundsAreNumbers == MaxFailures \in Nat /\ MaxExpiries \in Nat
  BY BrowserAssumption, SessionAssumption

\* One failure more stays within the bound.
LEMMA FailureCounts ==
  ASSUME failures \in 0..MaxFailures, NEW kind, Failure(kind)
  PROVE  failures' \in 0..MaxFailures
  BY BoundsAreNumbers DEF Failure

LEMMA BrowserKeepsTypes ==
  ASSUME RestTyped, BrowserStep, UNCHANGED sessionVars
  PROVE  RestTyped'
<1> USE DEF RestTyped, sessionVars
<1>1. ASSUME NEW r \in Extractions, ExtractionStep(r)
      PROVE  RestTyped'
  <2>1. failures' \in 0..MaxFailures
    BY <1>1, FailureCounts
    DEF ExtractionStep, Launched, LaunchFails, Extracted, ExtractionFails, CloseReturns
  <2> QED
    BY <1>1, <2>1 DEF ExtractionStep, Launched, LaunchFails, Extracted, ExtractionFails,
                      CloseReturns, CloseAfterError, CloseContext
<1>2. CASE IdleClose \/ ChromiumExits
  BY <1>2 DEF IdleClose, ChromiumExits, CloseContext
<1>3. CASE ChromiumDies
  BY <1>3, FailureCounts DEF ChromiumDies
<1> QED
  BY <1>1, <1>2, <1>3 DEF BrowserStep

LEMMA SessionKeepsTypes ==
  ASSUME RestTyped, NoonInv, [NoonNext]_noonVars,
         ~(BrowserStep /\ UNCHANGED sessionVars)
  PROVE  RestTyped'
<1> USE BoundsAreNumbers DEF RestTyped
<1>1. ASSUME NEW c \in Clients, NEW r \in Extractions, Refresh(r), NEW attempt \in {1, 2},
             NEW refused \in Extractions \cup {NoSession}, Await(c, attempt, r, refused),
             expired' \in BOOLEAN, UNCHANGED expiries
      PROVE  RestTyped'
  BY <1>1 DEF Refresh, Extract, browserVars, Await, Fetches
<1>2. ASSUME NEW c \in Clients, BeginFetch(c) PROVE RestTyped'
  <2>1. CASE cachedSession # NoSession /\ ~expired
    BY <1>2, <2>1 DEF BeginFetch, browserVars, NoonInv, SessionInv, IdleFetch, Fetches
  <2>2. CASE ~(cachedSession # NoSession /\ ~expired)
    BY <1>1, <1>2, <2>2 DEF BeginFetch
  <2> QED
    BY <2>1, <2>2
<1>3. ASSUME NEW c \in Clients, GotSession(c) PROVE RestTyped'
  BY <1>3 DEF GotSession, browserVars, Fetches
<1>4. ASSUME NEW c \in Clients, NEW result \in {"ok", "failed"}, Return(c, result),
             failures' \in 0..MaxFailures
      PROVE  RestTyped'
  BY <1>4, IdleIsFetch DEF Return
<1>5. ASSUME NEW c \in Clients, Answered(c) \/ NetworkError(c) PROVE RestTyped'
  BY <1>4, <1>5, FailureCounts DEF Answered, NetworkError
<1>6. ASSUME NEW c \in Clients, Refused(c) PROVE RestTyped'
  <2>1. fetch[c].session \in Extractions
    BY <1>6 DEF Refused, NoonInv, FetchesTyped
  <2> QED
    BY <1>1, <1>4, <1>6, <2>1 DEF Refused, Retry
<1>7. ASSUME NEW r \in Extractions, RefreshStep(r) PROVE RestTyped'
  <2>1. CASE Reject(r)
    BY <2>1, IdleIsFetch DEF Reject
  <2> QED
    BY <1>7, <2>1 DEF RefreshStep, CacheSession, Settle, Resolve
<1>8. ASSUME NEW s \in Extractions, Block(s) \/ Unblock(s) PROVE RestTyped'
  BY <1>8, FailureCounts DEF Block, Unblock, browserVars
<1>9. CASE Expire
  BY <1>9 DEF Expire, browserVars
<1>10. CASE UNCHANGED noonVars
  BY <1>10 DEF noonVars, browserVars, sessionVars
<1> QED
  BY <1>2, <1>3, <1>5, <1>6, <1>7, <1>8, <1>9, <1>10 DEF NoonNext, FetchStep

\* NoonTypeOK, for any number of clients and under every failure: every variable has
\* its type and a client waits only for a refresh that was begun.
THEOREM NoonTypeCorrect == NoonSpec => []NoonTypeOK
<1>1. NoonInit => RestTyped
  <2> SUFFICES ASSUME NoonInit PROVE RestTyped
    OBVIOUS
  <2>1. failures \in 0..MaxFailures /\ expiries \in 0..MaxExpiries
    BY BoundsAreNumbers DEF NoonInit, BrowserInit
  <2>2. fetch \in [Clients -> Fetches]
    BY IdleIsFetch DEF NoonInit
  <2>3. context \in BOOLEAN /\ idleTimer \in BOOLEAN /\ expired \in BOOLEAN
    BY Zenon DEF NoonInit, BrowserInit
  <2> QED
    BY <2>1, <2>2, <2>3 DEF NoonInit, BrowserInit, RestTyped
<1>2. RestTyped /\ NoonInv /\ [NoonNext]_noonVars => RestTyped'
  BY BrowserKeepsTypes, SessionKeepsTypes
<1>3. RestTyped /\ NoonInv => NoonTypeOK
  <2> SUFFICES ASSUME RestTyped, NoonInv PROVE NoonTypeOK
    OBVIOUS
  <2>1. BrowserTypeOK
    BY DEF RestTyped, NoonInv, RefreshInv, UnderWay, Extracting, BrowserTypeOK
  <2>2. refreshPromise \in Extractions \cup {NoSession} /\ blocked \subseteq Extractions
    BY DEF NoonInv, RefreshInv, SessionInv
  <2>3. ASSUME NEW c \in Clients, fetch[c].step = "wait"
        PROVE  fetch[c].session \in Extractions /\ stage[fetch[c].session] # "none"
    BY <2>3 DEF NoonInv, FetchesTyped, SessionInv
  <2> QED
    BY <2>1, <2>2, <2>3 DEF RestTyped, Fetches, NoonInv, SessionInv, NoonTypeOK
<1> QED
  BY <1>1, <1>2, <1>3, NoonInvariant, PTL DEF NoonSpec
=============================================================================
