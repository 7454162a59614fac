# Formal models of noon-tracker

noon-tracker watches products on Noon and tells Telegram chats when the cheapest
available offer of a product changes hands and when a chat's target price is reached.
It is one NestJS process with MongoDB (subscriptions, notification events, audit), Redis
with BullMQ (two queues), one Chromium driven by Playwright, and Telegram long polling.
Everything interesting happens between awaits: five notification jobs, two monitoring
jobs, any number of chat updates and browser work share documents, caches and a page,
and any of their calls may fail or the process may be restarted.

This directory holds TLA+ models of that behaviour, TLC runs that check them on small
instances, and TLAPS proofs for every value of the constants.

## 1. The system

| Part | Source (`src/src/...`) | State | Operations | Hard behaviour | What makes it correct |
|---|---|---|---|---|---|
| Notification processor | `queues/notification.processor.ts`, `notification-event.schema.ts` | `notification_events.status` | claim, send, finalize, mark sent, record failure | five handlers, jobs run twice, failure between send and the writes, restarts | one claim at a time; one message per event; sent only after the subscription write |
| Notification publisher and queue | `queues/notification-queue.publisher.ts`, BullMQ | the event, its job | upsert, getJob, getState, retry, add; BullMQ's attempts, backoff, stalls, removal | publishers racing each other and the worker, attempts used up, lost locks | a published event is eventually sent; a completed job leaves nothing unsent; a sent event stays sent |
| Monitoring service | `monitoring/monitoring.service.ts` | none of its own | find subscriptions, fetch, compare leader and target, publish | works on copies; runs of a SKU may overlap | identifiers of events are never ones that were used up; the stored leader follows the market |
| Tracking subscriptions | `bot/tracking-subscription.service.ts`, `.schema.ts` | `tracking_subscriptions` | upsert, setLastLeader, advanceLeader, setTargetPriceTriggered, rearmTargetPrice, deactivate | three kinds of writer, decisions on stale reads | version and cycle cover what was sent; a trigger means the chat was told |
| Telegram bot | `bot/bot.service.ts`, `bot-presenter.ts` | `Map` of conversations | link, target price, "no price" button, save, /cancel, /start, /stop, /list | updates of one chat handled concurrently, answers of old links, any reply may reject | an old link's answer never replaces a newer one, and no other is dropped; a deleted conversation stays deleted; nobody waits in vain |
| Monitoring queue | `queues/queues.service.ts`, `monitoring.processor.ts`, `queue-execution.schema.ts` | jobs per SKU and minute, `queue_executions` | schedule, process, audit | cron runs that overlap, two jobs at once, retries, rate limit, two writers of an audit record | one SKU's failure leaves the others alone; completed means checked; the audit says how a job ended; the backlog drains |
| Noon session and client | `noon/services/noon-session.service.ts`, `noon-client.service.ts` | `cachedSession`, `refreshPromise` | getSession, refresh, invalidate, two attempts | clients that share a refresh, refusals meeting refreshes | one extraction at a time; a retry never with the refused session; fetches recover |
| Noon browser | `noon/services/noon-browser-session.service.ts` | `context`, `idleTimer` | extract, closeContext, idle close | failures anywhere, timer racing an extraction, one profile directory | no forgotten Chromium |
| Offer selection | `noon/services/noon.service.ts`, `noon-snapshot.mapper.ts` | none | variant, selectLeader, selectOfferAtOrBelow | ties, target met exactly | cheapest available offer, whatever the order of the list |
| Parsing and presenting | `noon-payload.parser.ts`, `noon-url.ts`, `bot-presenter.ts` | none | links, amounts, prices, lists | digits after the point, lists longer than a message | prices are what the catalog states; lists are complete; the stored link leads to the same product |
| Configuration, wiring | `config`, `main.ts`, modules, controllers | none | | | |

How they meet: the cron schedules a monitoring job per SKU and minute; a job calls
`MonitoringService.monitorSku`, which reads the active subscriptions, fetches through the
client and the shared session, compares, writes subscriptions and publishes events; the
publisher stores the event and a job for it; the worker sends the message and writes the
outcome back into the subscription; the bot writes the same subscriptions.

## 2. Modules

```
NotificationEvents           the event store and process(), queue left open
  |- NotificationQueue       + publish() and BullMQ        --implements--> DeliveryPromise
  |    |- NotificationDelivery + what the monitoring runs want published
  |- PriceTracking           + subscriptions, runs, chats, the market
NoonBrowser                  Chromium, context, idle timer
  |- NoonSession             + cache, refresh, clients, Noon
MonitoringQueue              cron, BullMQ, process(), audit --implements--> MonitoringCycle
Conversation                 one chat's conversation in BotService
Catalog                      links, offers, leader, lists: what the code computes
```

**NotificationEvents.** `status` is the stored status. Each handler has a `task` and a
`stage`, the next await of `process()`: `Start` calls it, `Read` is `findOne` and branches
as the code does (`AfterRead`: sent returns, sending resumes with finalize and mark, else
claim), `Claim` is the filtered `findOneAndUpdate`, `Send`, `Finalize`, `MarkSent`,
`RecordFailure` the awaits that follow, `Settle` the end of the promise. `MongoError` makes
any database call reject and goes where the code goes: out of `process()`, or into its catch
block. It comes in two kinds, since they differ so much in what they do: "late" for a call
between the send and the end of the try block, "mongo" for any other.
`told` and `applied` are ghosts that count delivered messages and the subscription write.
The queue is open: any idle handler may get any event at any time, also two the same.
That makes the module the common ground of the two that extend it.

**NotificationQueue** adds `publish()` call by call (`PublishNew`/`PublishAgain` up to
`getJob`, then `GetState`, `Retry` or `Add`, `RedisError`) and BullMQ as the code
configures it: attempts, backoff, the lock of an active job, the stalled check, removal
of old jobs. BullMQ itself is external and modelled from these options. It implements
**DeliveryPromise**, the abstract specification of what publishing promises: opened once,
at most one message while open, closed for good after it, or after the delivery was
abandoned. `Abandoned(e)` says what that is in the code: the event is "sending" without a
message and no handler is left to send it, because a restart hit between claim and send or
because the send was rejected and the write of "failed" was rejected, too. The next run of
`process()` marks such an event sent.

**NotificationDelivery** adds who publishes. A monitoring run publishes an identifier only
while it sees the leader and version, or the target and cycle, that make it
(`monitoring.service.ts:103-112,140-152`), and the market, the chats and other events change
these at any time. So `wanted`, the events a run would publish if it began now, is a set that
changes freely; runs that read their copies earlier may publish others.

**PriceTracking** adds what the events are about. `doc` holds each chat's subscription
document. A monitoring run (`run[m]`) copies the active documents (`FindActive`), fetches
the market (`Fetch`), and for each copy compares leader and target (`CompareLeader`,
`CompareTarget`), writing the live document or publishing an event; what it compares is
the copy, what it writes is the document, as in the code. Handlers do the same as in
NotificationEvents and their `FinalizeEvent` performs the subscription write. A chat
checks a product, which makes it `pending`, and cancels or stops. The updates of the bot that
are inside `completeSubscription` (`save[u]`) go through `upsert` in two steps (`UpsertRead`,
`UpsertWrite`); the product stays pending until `Confirm`, so several may save it at once, as
when a button is pressed twice. Event identifiers are the code's, as records (`LeaderId`,
`TargetId`). `news` and `dipTold` are ghosts for what the chat was told, `wasReset` for a
save that reset the trigger within the present cycle. The queue is again open, reduced to
what NotificationQueue shows of it: an event is in one handler at a time (`OneRunPerEvent`)
and one that the runs keep publishing is taken up (`EventuallySent`).

**NoonBrowser** and **NoonSession**: the extraction's stages, the present Chromium, the
context, the timer; the cached session, `refreshPromise`, and the clients of
`fetchCatalogPayload` with their two attempts. A launch needs the profile directory, so a
second one fails while the old Chromium exits. Callbacks of a settled promise are steps
of their own, which allows more orders than Node's microtask queue does.

**MonitoringQueue** is the other queue. An invocation of `enqueueActiveProducts` (`cron[c]`)
finds the SKUs, takes the minute, and per SKU adds the job and inserts its audit record,
two awaits with a catch block around both; invocations may overlap, since the cron does
not wait for the one before. Workers take jobs up within the limiter's window and go
through `process()` await by await: `RecordStatus` ("running"), `Monitored` or
`MonitorFails`, `RecordStatus` again, `Finish`. BullMQ (attempts, backoff, locks, stalled
jobs) is external. `audit` is `queue_executions`; `checked` and `blurred` are ghosts.
It implements **MonitoringCycle**, which says of each job what a reader expects: it is
done only if its SKU was checked, given up only after being missed often enough, and
either is final.

**Conversation** is one chat's entry of `conversations`, `[seq, pending]`, and the handlers
at work on the chat's updates, each with the locals it carries over its awaits: `Link`
runs to the announcement, then `Announced`, the fetch (`Overtaken`, `NoOffers`,
`OffersFound`, `CheckFails`), the replies, the upsert (`Saved`, `SaveFails`) and the
confirmation. Telegraf starts the handlers of a polled batch together and gives up
waiting for one after 90 seconds, so all of them interleave. Checks are numbered by a
ghost, so that a pending product shows whose it is although `requestSequence` repeats.

**Catalog** has no concurrency: the state is a link and an answer that grows offer by
offer, so that TLC enumerates the inputs, and the operators are the code's functions from
`parseNoonProductUrl` to `offerListMessages`. The properties compare them with reference
definitions written over sets and raw digits. JavaScript's `filter` and `sort` are
`Filter`, a fold, and `Sorted`, a sorted rearrangement of offers that are all different.
`Words` are the words of a path that match the code's pattern of a SKU, "item" and "p" among
them, and `Skus` those that answers carry. `FormatPrice` is the amount that `formatPrice`
shows, without the currency in front of it (`bot-presenter.ts:24-26`), which
`parseTargetPriceMinor` would not accept: the number that a reader of a list types in.
`LeaderReachesFirst` justifies PriceTracking, which knows of an answer only its leader and
the leader's price.

**Proof modules** hold the theorems about the module in their name; **TargetDipProofs** goes
on where PriceTrackingProofs ends, with what chats are told about their target prices. Definitions marked
"Mutant" are faulty variants of the definition that follows; no specification uses them.

## 3. Runs

All runs finish within three minutes on two workers. Deadlock checking is off in all of them:
the counters of failures, changes and requests end, and a system without work rests.

| Run | Instance | What it shows |
|---|---|---|
| `lock_loss` | 2 events, 3 handlers, stalls and lost locks, rejected sends, MongoDB errors but "late" ones, 3 failures | However jobs are run twice, the claim is exclusive and no message goes out twice while MongoDB answers after the send and sends are not ambiguous |
| `queue_discipline` | 2 events, 2 handlers, 2 publishers, every failure but lost locks, 2 failures | One run per event; a completed job means sent; sent means applied; sent is final |
| `promise_kept` | 2 events, 1 handler, 1 publisher, rejected sends, MongoDB errors but "late" ones, Redis errors and restarts, 3 failures, 2 attempts | DeliveryPromise is implemented, and (fair) an event that the runs keep wanting is sent though all attempts of a job are used up, unless the last one left it "sending" (`Stuck`) |
| `target_dips` | 1 chat without a document, 1 target, 2 saves at once, 2 prices, 1 run at a time, 2 handlers, 4 market changes, 3 requests, 2 failures | Only a save that reset the trigger can silence an armed target, a triggered one was told, a dip is told once |
| `leader_converges` | 1 chat from an older release, 2 offers, 1 save and 1 run at a time, 2 handlers, 2 market changes, 1 failure of MongoDB, a run or the process | No sent leader identifier is ahead of the version, and (fair) once the market rests the stored leader becomes the market's |
| `conversation` | 3 handlers, 2 links, every failure, 2 failures | An overtaken answer is dropped and no other; a deleted conversation stays deleted; nobody waits in vain; (fair) the newest link is answered |
| `monitoring_queue` | 2 SKUs, 1 invocation, 2 workers, 2 jobs, limit 1, 2 attempts, 1 stall, every failure, 2 failures | What was found is queued, the audit matches the job, completed means checked, once unless a worker was lost, MonitoringCycle is implemented, and (fair) the backlog drains |
| `catalog` | every path of up to 4 segments, answers of up to 2 variants and 3 offers, 3 prices with 0, 1 and 2 digits after the point | Leader, target offer, shown prices, lists and stored links against reference definitions |
| `session_shared` | 2 clients, every failure of browser and Noon, 2 failures, 1 expiry | One extraction at a time, retries with a newer session, no forgotten Chromium, and (fair) every client fetches successfully again and again |

Bounds. `MaxFaults`/`MaxFailures` is the number of failures; two are enough for a failure
during the recovery from another, and attempts are two so that they can be used up.
`MaxSeq` and `MaxExtractions` bound numbers: in `leader_converges` and `session_shared`
they are never reached (raising them changes no state count), in the safety runs they only
cut behaviours short. `MaxChecks`, `MaxMinutes`, `MaxFirings` and `MaxJobs` bound inputs:
two links are what it takes for one to overtake another, two jobs for one to hold up the
other. `monitoring_queue` has one invocation of the cron, since two make the liveness check
too long; overlapping ones were checked for safety (below) and are covered by the theorems.
In `catalog` amounts have one digit before the point and the message limit is 9, so
that lists are cut after one or two lines; three offers give every tie; the largest price is
1.50, so that a fils digit in the wrong place (1.05 as 1.5) is a price that is accepted.
Two updates save at once in `target_dips`, where it matters who resets a trigger, and
elsewhere one. `promise_kept` has one handler and one publisher, since its events meet only
in them and races between handlers and publishers are what `lock_loss` and
`queue_discipline` are for. `MaxChanges` lets the market leave and come back. Two handlers are
enough for every pair of interleaved jobs, three for a lock lost twice. Prices and targets
are 1 and 2: only "at or below" is compared. Larger instances were tried without a
difference: `SilencedOnlyByReset` with two target prices (1.1 million states);
`session_shared` with three failures, two expiries (2 million states); the invariants of
`conversation` with three links (1.6 million); those of `monitoring_queue` with two
overlapping invocations over two minutes (14 million).

Fairness. Weak fairness for every call that is under way: MongoDB, Redis, Telegram,
Playwright and axios calls return or time out. Weak fairness for picking up, backoff and
the stalled check, which BullMQ's workers do continuously. Publishing is fair only for an
event that is wanted from some time on (`<>[](e \in wanted)`): from then on a run publishes
it every minute, whatever its status, which is strong fairness, since a publisher is busy
now and then. An event that is wanted only now and then, or no more, is owed nothing, and
`EventuallySent` promises it nothing; an event that failed for good and whose market went
back stays failed. PriceTracking asks for `TakeUp` only while `Repeated(e)`, i.e. while a
run would publish the event again. In MonitoringQueue a waiting job is taken up under strong fairness, since the
limiter withdraws and restores the opportunity; BullMQ serves its jobs in their order.
In Conversation every awaited call returns or rejects; the chat owes nothing. Runs and fetches start again and again (the cron). Chats, the market, failures,
expiries and the idle timer owe nothing.

### Where documents and code differ

Three runs end in a counterexample to what a document of the repository says:

| Run | What happens |
|---|---|
| `duplicate_message` (`AtMostOnce`) | The catch block in `process()` also covers `finalizeEvent` and `markSent`: a MongoDB error after a delivered message stores "failed", and the retry sends it again |
| `target_reset` (`ArmedTargetCanFire`) | `upsert` resets the trigger but starts no cycle: a target price changed and changed back gets the identifier of a message that was sent. `SilencedOnlyByReset` shows that nothing but such a reset does this |
| `cancelled_check` (`CancelHolds`) | /cancel deletes the entry and with it `requestSequence`; the next link is number 1 again, so the answer to the link before /cancel, number 1 as well, becomes the pending product |

More can be reproduced by adding the named property to a cfg:

- `EventuallySent` in `PromiseKept.cfg`, without `\/ Stuck(e)` in its definition: two
  restarts while a job runs make BullMQ fail it as stalled, or the last attempt's write of
  "failed" is rejected; the event is "sending", which `publish()` ignores
  (`notification-queue.publisher.ts:51`), so nothing resumes it.
- `ArmedTargetCanFire` in `TargetDips.cfg`, i.e. with a single target price: two first saves
  of a chat (a button pressed twice) both find no subscription; the message goes out between
  their writes, and the second resets the trigger without a new cycle
  (`tracking-subscription.service.ts:73-91`), so the next message is swallowed.
- `TriggeredWasTold` in `TargetDips.cfg` with `Targets = {1, 2}` and one saver: a message
  about the old target price disarms the new one, since `finalizeEvent` triggers by
  subscription id (`notification.processor.ts:119`).
- `OncePerDip` in `TargetDips.cfg` with two monitors and one saver: a slow run that saw the price above
  the target rearms a target triggered since (`monitoring.service.ts:144`), and the chat is
  told of one dip twice.
- `NewsConverges` in `LeaderConverges.cfg` with `Legacy = {}` and no faults: the store
  recovers, but the chat's last message stays wrong when the reply to a save is delivered
  after a message about a newer leader, or two handlers deliver two messages in the other
  order. (A restart between the save and its reply, and a chat of an older release, which is
  shown nothing before the first change, violate it as well.)

Further departures seen while modelling:

- *Notifications.* An event found "sending" is marked sent without its message when a
  restart hit between claim and send, or when the send and then the write of "failed" were
  rejected (`Abandoned`); a message already queued is sent after /stop; `NewsConverges` also fails with one handler when a chat subscribes again with a
  product checked earlier while a message is between send and finalize; `SentIsFinal` may
  fail when a worker loses its lock: its late write of "failed" goes by event id, whatever
  the run that took over stored since.
- *Conversation.* A save deletes the entry of a newer link (`bot.service.ts:409`), and so
  does a failed older check (`:314`), whose own chat then never hears of the newer link,
  although START_MESSAGE (`:24`) promises a question about the price; a save under way
  survives /cancel; a button pressed twice saves twice (see `ArmedTargetCanFire` above); a confirmation that cannot be
  delivered makes the bot say that nothing was saved (`:414`).
- *Monitoring queue.* `src/README.md:3` says every active SKU is checked every minute, but
  the limiter starts ten jobs a minute, so with more SKUs the queue grows; `:18` says one
  request to Noon per SKU and minute, but retries, and jobs of the minute before, ask
  again; a job that BullMQ fails as stalled keeps its audit at "running".
- *Catalog.* A product found only by the offer code of its link is stored with a
  `canonicalUrl` without that code: later checks may fail or compare another variant.
- *Browser.* The idle timer is not stopped when an extraction begins and may close the
  context in use, which fails that extraction (it recovers, see `FetchesRecover`).

## 4. Proofs

TLAPS proves, for any sets of events, handlers, publishers, chats, offers, runs and
clients, links, saves, SKUs, invocations and workers, any answers of the catalog, any bounds and
any failures except as said:

| Theorem | Says | Assumes |
|---|---|---|
| `EventTypeCorrect`, `ClaimIsExclusive`, `SentEventsWereApplied` | the event store's invariants | nothing |
| `AnnouncedAtMostOnce`, `QueueAnnouncesAtMostOnce` | `AtMostOnce` | `CleanFaults`: no "late" MongoDB errors, no ambiguous sends (`duplicate_message` shows why) |
| `QueueImplementsEvents`, `TrackingImplementsEvents` | both extensions implement the open store, so its theorems hold of them | nothing |
| `QueueTypeCorrect`, `TrackingTypeCorrect`, `NoonTypeCorrect` | the type invariants of queue, tracking and session | nothing |
| `OneRun`, `CompletedJobsAreSent`, `SentEventsStaySent` | the queue's discipline | no lost locks |
| `PromiseIsKept` | `PromiseKept` | `CleanFaults`, no lost locks |
| `NothingIsAbandoned` | no delivery is abandoned, so that by `PromiseIsKept` sent means told | `OnlyCallsFail`: nothing fails but sends and Redis calls (no restarts, no MongoDB errors) |
| `SentLeadersAreCounted` | `VersionCoversSent` | nothing |
| `ArmedTargetsFire` | `SilencedOnlyByReset`, for any target prices, saves and overlapping runs | nothing |
| `TriggersWereTold` | `TriggeredWasTold`, with any number of overlapping runs and saves | `OneTarget`: a single target price (two break it, see above), and `HandlersFinish`: no restart and no MongoDB error while an event is processed (either may have an event marked sent without its message) |
| `ToldOncePerDip` | `OncePerDip` | the same, `CleanFaults` and `OneRunAtATime` (two runs break it, see above) |
| `ConversationTypeCorrect`, `OvertakenAreDropped`, `NewestAreKept`, `NothingIsLeftAfterDelete`, `WaitsAreAnswered` | all invariants of `conversation` | nothing |
| `MonitoringTypeCorrect`, `FoundSkusAreQueued`, `CompletedJobsWereChecked`, `ChecksAreMadeOnce`, `AuditsAreTrue` | all invariants of `monitoring_queue` | nothing |
| `CycleIsKept` | MonitoringQueue implements MonitoringCycle | nothing |
| `ExtractionsAreSingle`, `RetriesAreNewer`, `NoChromiumIsForgotten` | the session's and browser's invariants | nothing |
| `LeaderSelected`, `OrderIgnored`, `TargetNeedsLeader`, `PriceShownIsRead`, `CanonicalFindsSame` | `LeaderIsCheapest`, `LeaderIgnoresOrder`, `LeaderReachesFirst`, `ShownPriceIsRead`, `MonitoringFindsTheSame` | `CatalogAssumption` |
| `ListNamesAll` | `ListIsComplete` | `LinesFit`: a header and any one line fit into a message (`chunkLines` never splits a line) |

The arguments:

- `ClaimInv` says that a handler past its claim finds the event "sending", that nobody
  claims a "sending" event, and hence that no two are past it. `ToldInv` adds that a
  message delivered is never forgotten: without late MongoDB errors the event of a handler
  past its send goes to sent and nowhere else.
- `MessageInv` is what the refinement of DeliveryPromise needs: `RunInv` and `ToldInv`, and
  that a handler past its send has told the chat (`ToldBeforeMark`). A step of one event's
  handler then moves that event's phase and no other's, and a restart abandons what it
  interrupts, all at once (`Abandon(E)`).
- `RunInv` relates jobs, locks and stages: a handler that runs owns an active job, a job
  that is completed had a handler that returned, and a handler returns only after sent.
- `VersionInv`: versions only grow, copies are not ahead of their documents, so a published
  number is at most one ahead; finalizing raises the version before the event is sent.
  `VersionCoversSent` alone is not inductive: a stale copy could republish.
- `TargetInv`: the same for cycles, where an identifier is `Used` once its cycle has passed
  or is triggered or had its trigger reset by a save. A sent identifier is used, a cycle
  only grows, and only `Rearm` and `UpsertWrite` take a trigger back.
- `TriggerInv` adds to `TargetInv` what handlers know: no two have the same event, one past
  its claim has it "sending", one past its send has told the chat, and a "sending" event
  has its handler, so no run of `process()` ever resumes and marks without sending. Only
  `finalizeEvent` spends an identifier (`OnlyFinalizeSpends`), so spent means finished, and
  finished means told. `HandlersFinish` keeps a handler from leaving its event "sending".
- `DipInv`: the one run's copies agree with the documents on cycle and target, and what a
  triggered copy says of the cycle is so although a save may have reset the document since
  (`CopiesAgree`: its message is finished); what the chat is told of a dip is the current
  cycle's message (`DipKept`), and a new cycle starts only in a run that saw the price above
  the target, hence after the dip. A chat whose subscription is not stored was told nothing
  (`ToldAreStored`), which is why the first save may begin to count.
- `NoonInv`: `refreshPromise` stands for the one extraction under way, all lower numbers
  have brought their sessions, and what clients hold was brought; a forced refresh
  therefore yields a number above the refused one.
- `ConversationInv`: while there is an entry, its sequence is the number of links sent
  since the last deletion (`seq = begun - cleared`), and a check of a handler was given its
  number less what was cleared when it began. Hence equal sequences mean the same check or
  one from before a deletion, which is just what `OvertakenIsDropped` leaves open.
- `MonitoringInv`: the owner of a lock is alone with its job (`LocksHeld`), a job not over
  has an attempt left (`AttemptsLeft`), and the audit of a job without losses follows its
  one worker (`AuditsFollow`). The last is what makes `AuditMatchesJob` inductive: the
  scheduler's insert may come at any time of the job, and changes only an absent record.
  `CycleIsKept` maps each action to one of MonitoringCycle or a stutter; a job is given up
  with its attempts or its stalls used up, so after `Patience` misses at least.
- `OnceInv`: a job never found stalled has one worker (`RunsAlone`), which after the check has
  only the audit's last write before it (`CheckIsBehind`), so that neither outcome of that
  write leads to another attempt.
- `AnswerInv`, of Catalog: an answer is a sequence of variants in which no code occurs twice.
  Everything else is about the operators. `FoldExists` and `FoldByPrefix` show, by induction
  on the length of a prefix (`PrefixInduction`, from the well-foundedness of `<`), that a
  `FoldLeft` is what one step after the other computes; `FilterMeaning`, `CheapestMeaning`,
  `LengthsOfAppend` and `ChunkMeaning` are the four folds of the code. `SortingExists`
  inserts one element after the other, so `Sorted` neither loses nor repeats an offer.
  `FlattenAppend` does the same for the messages of a list, which are therefore the lines in
  their order. Two offers neither of which is cheaper have the same code, hence are the same
  (`LeaderOfSet`): that is why order does not matter, and why the leader decides about every
  target price (`SelectedAtTarget`). `AmountKept` and `PriceReadBack` do the arithmetic of
  digits: what is shown of a price within the limit of target prices is
  read as that price (`ShownIsRead`).

Every invariant and every action property of the passing runs is proved, and every
refinement. Only model-checked: the liveness properties (`EventuallySent`, `LeaderConverges`,
`FetchesRecover`, `LinkIsAnswered`, `BacklogDrains`), which the provers do not reach.

## 5. Not modelled, and the plan

Not modelled because there is nothing to interleave and nothing to compute that a property
could be about: configuration (read once at start), the texts of messages, HTTP headers and
the proxy, the health endpoint, module wiring, the smoke-test script. The JSON types the
payload parser checks are not told apart from other unreadable offers.
`MonitoringService.runCycle` has no caller but its test; `saveSnapshot` writes a collection
nothing reads. In the session, the value of `expiresAt` is reduced to "may expire". That a
new extraction brings a session Noon has not refused is an assumption about Noon; a
Chromium told to close exits in the end is one about Playwright.

MonitoringQueue and PriceTracking are not composed: the first shows that runs of a SKU may
overlap (a lost lock, or the job of the next minute), the second takes overlapping runs as
given (`OncePerDip` with two monitors, above).

Left of the plan: more of what the theorems leave to their assumptions. `CycleKept` and the
promises are proved; an abstract specification of the session (one extraction serves all who
wait) and of the conversation (the newest link's check is the one that counts) would say in
one piece what their invariants say one by one.
