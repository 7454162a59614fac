---------------------------- MODULE NoonSession ----------------------------
(***************************************************************************)
(* NoonSessionService and NoonClientService.fetchCatalogPayload: clients   *)
(* (monitoring runs and product checks) that fetch at once and share one   *)
(* cached session, the single refresh of it, and the one retry after Noon  *)
(* refused a session.                                                      *)
(*                                                                         *)
(* The session extraction r brings is r; the number of an extraction that  *)
(* failed is used again.  The callbacks that run when a refresh resolves   *)
(* are steps of their own, so that others may come between.                *)
(***************************************************************************)
EXTENDS NoonBrowser

CONSTANTS
  Clients,     \* fetches that may run at once
  MaxExpiries  \* bound on the expiries of a cached session

ASSUME SessionAssumption == MaxExpiries \in Nat

NoSession == 0

VARIABLES
  cachedSession,  \* this.cachedSession
  refreshPromise, \* the refresh this.refreshPromise stands for
  fetch,          \* each client's fetchCatalogPayload
  expired,        \* expiresAt of the cached session has passed
  expiries,       \* expiries so far
  blocked         \* sessions Noon answers 401, 403, 429 or 503

sessionVars == <<cachedSession, refreshPromise, fetch, expired, expiries, blocked>>
noonVars == <<browserVars, sessionVars>>

IdleFetch(result) == [step |-> "idle", attempt |-> 1, session |-> NoSession,
                      refused |-> NoSession, result |-> result]

NoonInit ==
  /\ BrowserInit
  /\ cachedSession = NoSession
  /\ refreshPromise = NoSession
  /\ fetch = [c \in Clients |-> IdleFetch("none")]
  /\ expired = FALSE
  /\ expiries = 0
  /\ blocked = {}

-----------------------------------------------------------------------------
(* getSession *)

\* Mutant: a refresh under way is not shared.
RefreshAlone(r) ==
  /\ stage[r] = "none" /\ \A q \in 1..(r - 1) : stage[q] # "none"
  /\ Extract(r)
  /\ refreshPromise' = r

\* The refresh under way, or else a new one, up to its first await.
Refresh(r) ==
  IF refreshPromise # NoSession
    THEN r = refreshPromise /\ UNCHANGED <<refreshPromise, browserVars>>
    ELSE /\ stage[r] = "none" /\ \A q \in 1..(r - 1) : stage[q] # "none"
         /\ Extract(r)
         /\ refreshPromise' = r

Await(c, attempt, r, refused) ==
  fetch' = [fetch EXCEPT ![c] = [step |-> "wait", attempt |-> attempt, session |-> r,
                                 refused |-> refused, result |-> "none"]]

\* fetchCatalogPayload, attempt 1.
BeginFetch(c) ==
  /\ fetch[c].step = "idle"
  /\ IF cachedSession # NoSession /\ ~expired
       THEN /\ fetch' = [fetch EXCEPT ![c] = [IdleFetch("none") EXCEPT
                           !.step = "request", !.session = cachedSession]]
            /\ UNCHANGED <<refreshPromise, browserVars>>
       ELSE \E r \in Extractions : Refresh(r) /\ Await(c, 1, r, NoSession)
  /\ UNCHANGED <<cachedSession, expired, expiries, blocked>>

Expire ==
  /\ cachedSession # NoSession /\ ~expired
  /\ expiries < MaxExpiries
  /\ expiries' = expiries + 1
  /\ expired' = TRUE
  /\ UNCHANGED <<browserVars, cachedSession, refreshPromise, fetch, blocked>>

\* refresh, when extract has resolved.
CacheSession(r) ==
  /\ stage[r] = "extracted"
  /\ Goto(r, "cached")
  /\ cachedSession' = r
  /\ expired' = FALSE
  /\ UNCHANGED <<chromium, context, idleTimer, failures, refreshPromise,
                 fetch, expiries, blocked>>

\* The refresh settles: its finally callback, and for a rejected one the errors of
\* those who await it.
Reject(r) ==
  /\ stage[r] = "rejected"
  /\ fetch' = [c \in Clients |-> IF fetch[c].step = "wait" /\ fetch[c].session = r
                                  THEN IdleFetch("failed") ELSE fetch[c]]
  /\ UNCHANGED <<chromium, context, idleTimer, failures, cachedSession, expired,
                 expiries, blocked>>

Resolve(r) ==
  /\ stage[r] = "cached"
  /\ Goto(r, "done")
  /\ UNCHANGED <<chromium, context, idleTimer, failures, cachedSession, fetch,
                 expired, expiries, blocked>>

\* Mutant: refreshPromise is cleared only when the refresh resolved.
SettleResolved(r) ==
  \/ Resolve(r) /\ refreshPromise' = NoSession
  \/ Reject(r) /\ UNCHANGED <<stage, refreshPromise>>

\* Mutant: the clients that joined a refresh are not told that it failed.
SettleUntold(r) ==
  /\ \/ Resolve(r)
     \/ stage[r] = "rejected" /\ Goto(r, "none")
        /\ UNCHANGED <<chromium, context, idleTimer, failures, cachedSession, fetch,
                       expired, expiries, blocked>>
  /\ refreshPromise' = NoSession

Settle(r) ==
  /\ Resolve(r) \/ (Reject(r) /\ Goto(r, "none"))
  /\ refreshPromise' = NoSession

\* Those who await a resolved refresh go on after its finally callback.
GotSession(c) ==
  /\ fetch[c].step = "wait"
  /\ stage[fetch[c].session] = "done"
  /\ fetch' = [fetch EXCEPT ![c].step = "request"]
  /\ UNCHANGED <<browserVars, cachedSession, refreshPromise, expired, expiries, blocked>>

-----------------------------------------------------------------------------
(* fetchCatalogPayload, when Noon has answered *)

Return(c, result) ==
  /\ fetch' = [fetch EXCEPT ![c] = IdleFetch(result)]
  /\ UNCHANGED <<stage, chromium, context, idleTimer, cachedSession,
                 refreshPromise, expired, expiries, blocked>>

Answered(c) ==
  /\ fetch[c].step = "request"
  /\ fetch[c].session \notin blocked
  /\ Return(c, "ok")
  /\ UNCHANGED failures

NetworkError(c) ==
  /\ fetch[c].step = "request"
  /\ Failure("network")
  /\ Return(c, "failed")

\* Mutant: the retry refreshes the session but leaves the refused one cached.
RetryKeepsCache(c) ==
  /\ \E r \in Extractions : Refresh(r) /\ Await(c, 2, r, fetch[c].session)
  /\ UNCHANGED <<cachedSession, expired, expiries, blocked>>

\* invalidate, then attempt 2 with a forced refresh.
Retry(c) ==
  /\ cachedSession' = NoSession
  /\ expired' = FALSE
  /\ \E r \in Extractions : Refresh(r) /\ Await(c, 2, r, fetch[c].session)
  /\ UNCHANGED <<expiries, blocked>>

Refused(c) ==
  /\ fetch[c].step = "request"
  /\ fetch[c].session \in blocked
  /\ \/ fetch[c].attempt = 1 /\ Retry(c)
     \/ fetch[c].attempt = 2 /\ Return(c, "failed") /\ UNCHANGED failures

-----------------------------------------------------------------------------
(* Noon *)

\* Noon's answer comes after the callbacks of the refresh that brought the session.
Block(s) ==
  /\ stage[s] = "done"
  /\ s \notin blocked
  /\ Failure("block")
  /\ blocked' = blocked \cup {s}
  /\ UNCHANGED <<stage, chromium, context, idleTimer, cachedSession,
                 refreshPromise, fetch, expired, expiries>>

Unblock(s) ==
  /\ s \in blocked
  /\ blocked' = blocked \ {s}
  /\ UNCHANGED <<browserVars, cachedSession, refreshPromise, fetch, expired, expiries>>

-----------------------------------------------------------------------------
RefreshStep(r) == CacheSession(r) \/ Settle(r)

FetchStep(c) == GotSession(c) \/ Answered(c) \/ Refused(c)

NoonNext ==
  \/ BrowserStep /\ UNCHANGED sessionVars
  \/ Expire
  \/ \E r \in Extractions : RefreshStep(r) \/ Block(r) \/ Unblock(r)
  \/ \E c \in Clients : BeginFetch(c) \/ FetchStep(c) \/ NetworkError(c)

NoonSpec == NoonInit /\ [][NoonNext]_noonVars

\* Every SKU is fetched again and again, calls of Playwright and of axios have
\* timeouts, and a Chromium that is told to close exits in the end.  Nothing makes
\* the idle timer fire, a session expire or a call fail.
NoonFairness ==
  /\ \A r \in Extractions :
       /\ WF_noonVars(ExtractionStep(r) /\ UNCHANGED sessionVars)
       /\ WF_noonVars(RefreshStep(r))
  /\ WF_noonVars(ChromiumExits /\ UNCHANGED sessionVars)
  /\ \A c \in Clients : WF_noonVars(BeginFetch(c)) /\ WF_noonVars(FetchStep(c))

FairNoonSpec == NoonSpec /\ NoonFairness

-----------------------------------------------------------------------------
(* Properties *)

\* Every variable has its type; a client waits for a refresh that was begun.
NoonTypeOK ==
  /\ BrowserTypeOK
  /\ cachedSession \in Extractions \cup {NoSession}
  /\ refreshPromise \in Extractions \cup {NoSession}
  /\ fetch \in [Clients -> [step : {"idle", "wait", "request"}, attempt : {1, 2},
                            session : Extractions \cup {NoSession},
                            refused : Extractions \cup {NoSession},
                            result : {"none", "ok", "failed"}]]
  /\ \A c \in Clients :
       fetch[c].step = "wait" => \E r \in Extractions :
                                  r = fetch[c].session /\ stage[r] # "none"
  /\ expired \in BOOLEAN
  /\ expiries \in 0..MaxExpiries
  /\ blocked \subseteq Extractions

\* The single page is navigated for one extraction at a time, however many clients
\* ask for a session, are refused one or invalidate it meanwhile.
OneExtraction ==
  \A q, r \in Extractions :
    stage[q] \in {"launch", "use", "close"} /\ stage[r] \in {"launch", "use", "close"}
      => q = r

\* The second attempt is never made with the session that was refused, nor with an
\* older one that another client's refresh brought, and nobody else is served the
\* refused session from the cache meanwhile.
RetryIsNewer ==
  \A c \in Clients :
    fetch[c].attempt = 2 => /\ fetch[c].session > fetch[c].refused
                            /\ cachedSession # fetch[c].refused

\* Whatever failed, every client fetches successfully again: no promise that never
\* settles or stays rejected, no refused session and no Chromium on the profile
\* directory stands in the way for ever.
FetchesRecover == \A c \in Clients : []<>(fetch[c].result = "ok")
=============================================================================
