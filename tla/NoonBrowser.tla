---------------------------- MODULE NoonBrowser ----------------------------
(***************************************************************************)
(* NoonBrowserSessionService: the one reusable Chromium, the extractions   *)
(* of a session that work in it, and the timer that closes it when idle.   *)
(*                                                                         *)
(* A launch takes the profile directory, so at most one Chromium runs, and *)
(* only extractions launch one: the context an extraction works in is that *)
(* of the present Chromium, or of one that is gone.  Extractions are begun *)
(* by NoonSession, one at a time (OneExtraction there), so contextPromise  *)
(* never has a second waiter; this.page is a page of the present Chromium  *)
(* or is found closed (isClosed), and userAgent is the same in every       *)
(* Chromium: the three are left out.                                       *)
(***************************************************************************)
EXTENDS Naturals

CONSTANTS
  MaxExtractions, \* bound on the extractions in a behaviour
  Failures,       \* the failures that may happen, among the kinds named below
  MaxFailures     \* bound on their number

(***************************************************************************)
(* Kinds of failure:                                                       *)
(*   "launch"   Chromium does not start                                    *)
(*   "page"     a call of an extraction rejects or times out, or it finds  *)
(*              no cookies                                                 *)
(*   "chromium" Chromium dies                                              *)
(* and, in NoonSession, between the client and Noon:                       *)
(*   "network"  a request fails for another reason than the session        *)
(*   "block"    Noon answers 401, 403, 429 or 503 to a session             *)
(***************************************************************************)
ASSUME BrowserAssumption == {MaxExtractions, MaxFailures} \subseteq Nat

Extractions == 1..MaxExtractions

VARIABLES
  stage,      \* what each extraction, and the refresh it belongs to, does next
  chromium,   \* the present Chromium
  context,    \* this.context is set
  idleTimer,  \* this.idleTimer is set
  failures    \* failures so far

browserVars == <<stage, chromium, context, idleTimer, failures>>

BrowserInit ==
  /\ stage = [r \in Extractions |-> "none"]
  /\ chromium = "gone"
  /\ context = FALSE
  /\ idleTimer = FALSE
  /\ failures = 0

Failure(kind) ==
  /\ kind \in Failures
  /\ failures < MaxFailures
  /\ failures' = failures + 1

Goto(r, next) == stage' = [stage EXCEPT ![r] = next]

-----------------------------------------------------------------------------
\* extract, up to its first await: getContext takes the context there is, or
\* begins to launch one.
Extract(r) ==
  /\ stage[r] = "none"
  /\ Goto(r, IF context THEN "use" ELSE "launch")
  /\ UNCHANGED <<chromium, context, idleTimer, failures>>

Launched(r) ==
  /\ stage[r] = "launch"
  /\ chromium = "gone"
  /\ chromium' = "open"
  /\ context' = TRUE
  /\ Goto(r, "use")
  /\ UNCHANGED <<idleTimer, failures>>

\* The page is navigated and its cookies are read, then scheduleIdleClose: also
\* in a Chromium that is being closed meanwhile.
Extracted(r) ==
  /\ stage[r] = "use"
  /\ chromium # "gone"
  /\ idleTimer' = TRUE
  /\ Goto(r, "extracted")
  /\ UNCHANGED <<chromium, context, failures>>

\* Mutant: the context is forgotten but its Chromium is left running.
ForgetContext ==
  /\ idleTimer' = FALSE
  /\ context' = FALSE
  /\ UNCHANGED chromium

\* closeContext, up to its await.
CloseContext ==
  /\ idleTimer' = FALSE
  /\ context' = FALSE
  /\ chromium' = IF context /\ chromium = "open" THEN "closing" ELSE chromium

\* The catch block of extract.
CloseAfterError(r) ==
  /\ CloseContext
  /\ Goto(r, IF context THEN "close" ELSE "rejected")

\* A launch fails while an old Chromium still holds the profile directory.
LaunchFails(r) ==
  /\ stage[r] = "launch"
  /\ IF chromium # "gone" THEN UNCHANGED failures ELSE Failure("launch")
  /\ CloseAfterError(r)

ExtractionFails(r) ==
  /\ stage[r] = "use"
  /\ IF chromium # "open" THEN UNCHANGED failures ELSE Failure("page")
  /\ CloseAfterError(r)

\* context.close() resolves, or withTimeout gives up on it.
CloseReturns(r) ==
  /\ stage[r] = "close"
  /\ Goto(r, "rejected")
  /\ UNCHANGED <<chromium, context, idleTimer, failures>>

ExtractionStep(r) ==
  Launched(r) \/ LaunchFails(r) \/ Extracted(r) \/ ExtractionFails(r) \/ CloseReturns(r)

\* The idle timer: nothing stops it when an extraction begins, and nobody waits
\* for its closeContext.
IdleClose ==
  /\ idleTimer
  /\ CloseContext
  /\ UNCHANGED <<stage, failures>>

ChromiumExits ==
  /\ chromium = "closing"
  /\ chromium' = "gone"
  /\ UNCHANGED <<stage, context, idleTimer, failures>>

ChromiumDies ==
  /\ chromium = "open"
  /\ Failure("chromium")
  /\ chromium' = "gone"
  /\ UNCHANGED <<stage, context, idleTimer>>

BrowserStep ==
  \/ IdleClose \/ ChromiumExits \/ ChromiumDies
  \/ \E r \in Extractions : ExtractionStep(r)

-----------------------------------------------------------------------------
\* The browser's own part of the types, for NoonSession.
BrowserTypeOK ==
  /\ stage \in [Extractions -> {"none", "launch", "use", "close", "rejected",
                                "extracted", "cached", "done"}]
  /\ chromium \in {"gone", "open", "closing"}
  /\ context \in BOOLEAN
  /\ idleTimer \in BOOLEAN
  /\ failures \in 0..MaxFailures

\* Every running Chromium is the one the service knows, whatever the idle timer,
\* failed extractions and deaths of Chromium did to the context: one that is
\* forgotten keeps the profile directory, and no other can be launched.
NoOrphan == chromium = "open" => context
=============================================================================
