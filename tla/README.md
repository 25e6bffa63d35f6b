# A formal model of carryme's live submission and launch

carryme arbitrages funding rates: it opens a position on one venue and the opposite one on another, watches the
pair, and closes it.  Orders are sent by an HTTP API that operators use, by worker processes that launch, monitor
and close on their own, and by restarts of either.  Nothing coordinates them but the tables of one database.  This
directory holds TLA+ modules of that coordination and of what each part decides from what it reads, the TLC runs
that check them and theorems checked by TLAPS.

    tlc -config Submissions.cfg MCLiveSubmission   # a run
    tlapm LiveSubmissionProofs.tla                 # the proofs of a component

## Inventory

| Component | State | Operations | Interacts with | What makes it correct |
|---|---|---|---|---|
| Reservations and journal (`storage/executions.py`) | `execution_journal_entries`, four reservation tables | append; reserve, mark completed, release; look-ups | every submission path, each call one transaction | a completed row is final and names its own execution; a row is deleted only by the request that owns it |
| Submission paths (`api/app.py`, `worker/poller.py`) | none of their own | eleven callers: single-venue, paired and guarded opens, canary cycle, pair close, three cleanups, automatic close, chained and partial-fill cleanups | reservations, confirmations, venue adapters | one submission per preview, also after crashes, timeouts and retries; what was refused can be retried |
| Confirmations (three `*_confirmations.py` stores) | append-only tables | append, latest for a preview | operator, worker | a request submits what was confirmed |
| Venue adapters, coordinators (`runtime/*_live_execution.py`) | none | send one order, or two legs in order | venues, submission paths | first leg filled before the second; what was sent is reported |
| Guarded pair lifecycle (`app.py` 2598-2830, 4290-5120) | observations | poll pair status, chain up to three cleanups, open-observe-close | adapters, stores | exposure is hedged, cleaned up or reported |
| Stable canary launch (`poller.py` 3623-4597, `stable_canary_launches.py`) | launch records, leased reservations | gates, reserve, renew, launch, record | pipeline snapshots, lifecycle | launches of one snapshot more than a lease apart; active executions, notional and launch rate within their limits |
| Execution monitor (`poller.py` 5444-5670) | observations, alerts | observe, alert, clean up, close | journal, order states | open exposure keeps being observed; one alert per transition |
| Canary pipeline (`poller.py` 3052-3597, `launch_ready.py`) | approved and launch-ready snapshots | scan, append when changed, gate on stability, promote, invalidate | approvals, launch | what is launched was stable, and what it rests on was seen lately |
| Route approvals, basket (`route_approvals.py`, `app.py` 4290-4680) | approvals, basket launches | upsert, require, allocate, run the routes one by one | opens | no live order without an approval that covers it; a basket within its target |
| Supervised loops (`poller.py` 4517-6039) | counters | run, back off, stop | everything in the worker | a failing cycle neither stops the loop nor slows it for good |
| Accounting, previews, repricing, scoring | none | pure functions | | not modelled, see the end |
| Preflight, readiness, connectors, notifications, dashboards, config | none that coordinates | probes, HTTP, HTML | | not modelled, see the end |

The hard behaviours are the interleavings of API requests with worker cycles on the same preview; the death of a
process, or a cancelling timeout, between the venue's acceptance of an order and the journal append; venue errors
that do not tell whether the order arrived; retries of what was already done; and leases that expire while
their holder works.  `PROJECT.json` lists each at its line.

## Modules

- **ExecutionStore**: the five tables and the transactions on them.  A table is the set of its rows; a method of
  `ExecutionJournalStore` is one operator, atomic because each runs in one `database.begin()` block.  `NULL` stands
  for an empty `execution_entry_id`, and the guard tables' key `(paper_trade_id, preview_hash)` is the hash, a digest
  over the paper trade id and the legs.
- **LiveSubmission** extends it: a request is one call of an endpoint, or one pass of the worker over one preview.
  Its `pc` follows the code from the resolved confirmation to the answer:

      start -> lookup -> reserve -> [reserve_live] -> submit -> append -> mark_live -> [mark_guard] -> done
                   \         \-> refind                  \-> failed, unknown (reservations stay)
                    existing                              \-> release_live -> release_guard -> released

  Endpoints differ in where they start and which steps they take: `PairOpenEndpoint` reserves both rows in one
  transaction, closes and cleanups in two, `SingleEndpoint` only the confirmation's row.  `Send` is separate from the
  adapter's answer, so every error may come before or after the order has left; `MayRaiseValueError`,
  `MayRaiseTransportError` and `MayReturn` say which answers an adapter has in either case, and
  `MaySendAfterCancel` which calls outlive the cancellation of their request: the Hyperliquid SDK runs in a thread.
  `Abort` is the death of the process or a timeout at any step.  Requests share the database only, so their steps
  interleave freely; a restarted process is another request.  The three venues are registered with each coordinator
  (`app.py` 1659-1759), so a missing service is not a case.
- **SubmissionOnce**: the promise, over a preview's claimants and submitters alone.  `LiveSubmission!Once` maps a
  request to a claimant while it holds the reservation, and for good once it has sent.
- **StableLaunch**: the worker's unattended launch.  `wk[w]` is the cycle of a worker: its `pc`, the timestamp it
  started with, the latest time it has read, what it learned of limits and exposure, its candidates, and its lease.

      idle -> blocking -> records -> budget -> list -> select -> previous -> launch -> reserved -> open -> sent -> observe
               gates of the cycle, each may end it      ^          |           |         |                             |
                                                        +--- skip -+-- skip ---+-- held -+         (record, next route) +

  A step is one read or one transaction, so everything between two reads interleaves with other workers.  `lease` is
  the reservation table, `records` the launch records, and `opens` the pairs handed to the venues with what journal
  and observations say of them: `Open.at` is the time its lease was renewed at.  A cycle of the production supervisor
  is passed one timestamp (`poller.py` 4635); one of the launch loop reads the clock wherever it needs it, and may be
  up to `MaxStall` late in using a reading.  `Crash` ends a cycle anywhere.  The gates over market data, approvals and
  past outcomes write nothing: their step may pass or skip.
- **GuardedPair**: the two-leg protocol of one paper trade.  `orders`, `pos` and `shown` are the venues': an order is
  accepted, refused, matched or lost on its own, and an account shows a position late.  `req` is the request:

      send -> answer -> observe -> (next attempt | next leg) -> journal -> accounts -> orders -> decide -> done
                                                                  ^                                  |
                                                                  +---------- chained cleanup -------+

  `LegDone` is the coordinators' rule for the second leg, `Classify` and `Observations` what an adapter can learn of
  an order (nothing of an Extended order that is closed), `PairStatus` the verdict over accounts read first and orders
  read later; where several of its cases hold the first one counts, as in the code.  `OtherSends` is another process
  that cleans the same trade up.
- **ExecutionMonitor**: `observe_live_executions_once`.  `cycle` lists executions, and for each one probes, appends an
  observation with the alert of its transition, takes funding checkpoints, and cleans up or closes.  Of the tables of
  observations, alerts and checkpoints only the latest row of a trade is kept, which is all the code reads.  API
  requests execute and observe the same trade, positions are lost, snapshots are published in between.
- **SupervisedLoops**: the worker's loops, one value of `Shape` each: their steps, whether a signal sets an event, and
  whether the event ends the sleep.  `Dispatch` is what `main` makes of the flags.  The system-state step is
  modelled in full, with the venue, the probe and the latest alert; the others succeed or raise.
- **LaunchReadyPipeline**: the stores between an approval and a launch, for one label.  `scan`, `cache`, `promo` and
  `launch` are the processes, each a `pc` and what it holds on to; `latest` and `ready` are the approved and the
  launch-ready snapshots.  A snapshot carries its age instead of `captured_at`, so time is relative and needs no end:
  ages at and above a horizon are not told apart.  `Chain` and `Stable` are `_build_launch_ready_canary_stability`,
  `AppendReady` the order of the table, `LaunchSelects` to `LaunchReplaces` the second reads of the worker.  A launch
  is the launch loop's, the API's, or a step of the production supervisor.  The first two read the clock each time
  they judge an age.  The supervisor takes one timestamp when its cycle starts (`poller.py` 4613) and passes it to the
  scan, the cache and the launch (4625 to 4636; used at 3065, 3311, 3782, 3804): `SupervisorStarts` begins such a
  cycle, which is `waiting` while the other steps run, `Stamps` lets a scan or a cache cycle that starts then be
  stamped with its start, and `Ago` is how long ago that was when the launch compares ages.
- **CanaryBasket**: a basket request: scan, allocation, and the guarded lifecycle of each route, one action per step
  that may raise.  What happened at the venues is left of a route as its `exposure`.
- **MCLiveSubmission**, **MCStableLaunch**: instances for TLC.  The other modules need only their constants.
- **LiveSubmissionProofs**, **StableLaunchProofs**, **GuardedPairProofs**, **LaunchReadyPipelineProofs**,
  **MonitorProofs**, **SupervisedLoopsProofs**, **CanaryBasketProofs**: the theorems, a module for each component.
  **FoldLemmas**: what they need of the folds that the models add up and allocate with.

How they fit together: a worker takes a snapshot of LaunchReadyPipeline, leases it (StableLaunch), runs the lifecycle
of CanaryBasket, whose opens, closes and cleanups reserve and submit as LiveSubmission says and send legs as
GuardedPair says; ExecutionMonitor watches what they leave; SupervisedLoops calls all of the worker's.  Each module
keeps what it needs of its neighbours as an outcome of one of its steps.

A name ending in `Mutant` is a faulty variant of the operator after it; each run's property is known to fail under
one of them.

## What the runs check

| Run | Instance | Properties |
|---|---|---|
| `submissions` | 3 requests: guarded and unguarded opens, automatic closes, cleanups of the operator and of partial fills; an open, a close and a cleanup preview; 2 confirmations | types; `OneSubmissionPerPreview`; `OneSubmissionPerConfirmation`; `CompletedPointsToOwnExecution`; `SubmittedStaysReserved`; `ReservationsReleaseTogether`; `OneExecutionPerClosePreview`; `NoAnsweredRequestLeavesReservation`; `CompletedReservationIsFinal` |
| `refinement` | 2 requests over seven endpoints, among them all that `submissions` leaves out; an open, a close, and cleanups on Paradex and Extended; with fairness | `SubmitsOnce`; `AnsweredSubmissionSettles` |
| `worker_cleanup` | 2 requests; fails | `ReleaseOnlyWhenNotSubmitted` |
| `lease` | 2 workers, supervised or not, 1 snapshot, 3 leases, time 0 to 3, TTL 1, readings up to 1 late | types; `LeasesApart`; `SupervisedLaunchesOnce` |
| `budget` | 1 worker, live or shadow, 2 snapshots of two labels and different notional, up to 2 routes a cycle | `ActiveWithinLimit`; `NotionalWithinBudget`; `LaunchRateWithinCap` |
| `pair` | every route over three venues, 2 lots, 2 attempts and the market fallback, 1 chained cleanup, 1 close or foreign cleanup | types; `SecondLegAfterFilledFirst`; `OneOrderPerLegMayFill`; `LearnedNoActionMeansFlat`; `HedgedMeansBothFilled` |
| `monitor` | 1 trade, 2 executions, time 0 to 2, automatic close enabled | types; `RepeatedAlertMeansChange`; `ReplacedExecutionStaysOlder`; `CheckpointsAdvance`; `TroubleIsSeen`; `ExpiredHedgeIsClosed` |
| `loops` | nine mode flags, with and without `--iterations 3`, backoff 1, 2, 3 | types; `DelayFollowsFailures`; `AlertsFollowProbes`; `StopIsHonoured`; `ExecutionsAreObserved` |
| `pipeline` | 1 route with 2 caps, ages up to 1, 2 snapshots make a stable one, the supervisor and the launch loop | types; `LaunchIsFresh`; `LaunchIsStable` |
| `api_stable_launch` | the same with the API; fails | `ApiLaunchIsStable` |
| `basket` | 3 routes, caps and sizes 1 and 3, target 4, one route without services | types; `TargetIsShared`; `ApprovedWhenReached`; `NothingAfterFailure` |
| `basket_record` | the same; fails | `SentBasketIsStored` |

Bounds.  `MaxConfirmations` bounds the confirmations of each table.  Two requests for one preview are where every race
starts; the third is the one that retries after a release, or that comes after both.  Two
confirmations are what makes the key of the live table differ from the key of a guard table.  The theorems
below show that no larger instance of the main invariants has anything to add.

In the launch runs `MaxTime` ends the clock, after more than two leases in `lease`, and `Owner` bounds the uuids:
the third is the one that takes a lease after two have raced for it.  `MaxRecords` bounds shadow markers; an open
needs a uuid, so launched records are bounded too.  `budget` has one worker because the limits are promised for one:
the code reads them without a lock.

`pair`: two lots are the least that fill in part, two attempts the least with a retry; `MaxCalls` bounds close
requests and foreign cleanups together.  A chain of one cleanup already ends at its limit.

`monitor`: one trade, because a cycle treats its executions one after the other and they share the time it started
at and the listing limit only.  What the limit does takes two trades, which with executions, time and closes is beyond
TLC: newer trades can keep an older one out of the listing (`poller.py` 6139, 20 by default), so `TroubleIsSeen`
excludes a trade that is `Crowded` out.  Two executions are a replaced one and its successor.

`loops`: three failures reach the cap of the backoff.

`pipeline`: two snapshots are the least chain that can be broken and rebuilt; `Keep` equals it, so the table
forgets as soon as it may.  `MaxCycle` bounds the ticks of a cycle or request: one tick is what it takes for stores
to change age during it.  `Overlaps` bounds which processes are under way at once: a launch, or a supervisor's cycle
that gets to it, with the cache or a promotion; a scan, whose only write is the append of a snapshot that a promotion
makes as well, runs by itself, and the operator acts at any time.  One route leaves it to caps and sizes to change what
is stable.  The theorems hold for any routes, launchers, overlaps and length of a cycle.

`basket`: two routes are opened and the third has no services; caps and sizes of 1 and 3 against a target of 4 make
an entry as large as its size, its cap or what is left.

Requests, baskets, the clocks of `lease`, `budget` and `monitor`, and `pair` end, and in `pipeline` nothing has to
happen; these runs do not check for deadlock.  `loops` does.

Fairness.

- `LiveSubmission!FairSpec`: a request whose adapter has answered goes on, because what follows is sequential code
  without another wait (`WF` on its next step).  Not fair are aborts, sends, the operator, the start of requests, and
  the answer of a coordinator or of the Hyperliquid adapter, whose call has no timeout.
- `ExecutionMonitor!FairSpec`: time passes and the cycle goes on (`WF`), since each of its awaits has a timeout and
  each exception leads to the next execution.  That probes are answered again and again (`SF_vars(ProbeReads)`) is an
  assumption about the venues: without it nothing can be seen.  Crashes are unfair and stop with the clock.
- `SupervisedLoops!FairSpec`: a loop runs on (`WF`).  That a step which is tried again and again succeeds again and
  again (`SF`) is an assumption about market data, accounts and the database.

### What limits a launch

A reservation is never released and a failed launch is not recorded, so a snapshot may be opened again once its
lease has run out; `LeasesApart` says that this takes more than a TTL whatever workers do, and
`SupervisedLaunchesOnce` that it does not happen to supervised cycles as long as a snapshot is stale before its
reservation is (`MaxAge <= TTL`; both are 300 seconds by default).  The launch loop reads the clock again before it
renews, so for its cycles only the first holds.

### What the other modules show, and what limits it

- *Pair*.  `unclear` marks lost answers, failed observations and late positions, and `LearnedNoActionMeansFlat` and
  `HedgedMeansBothFilled` hold without them only: "closed" and "unfilled" are derived from absent positions alone
  (`execution_pair_status.py`), although the reconciliation notes that absence does not prove that nothing filled
  (`execution_reconciliation.py` 105).  A route that starts on Extended or Hyperliquid never gets its second leg
  unless the first is seen filled, which Extended never shows.  A refused pair close leaves both legs open, and no
  cleanup applies for lack of a single venue.
- *Monitor*.  One monitor is assumed; two would alert twice.  A state that an API poll stored first is not alerted
  (`poller.py` 6227): `RepeatedAlertMeansChange` is about alerts that are sent.  The hold age restarts when a close is
  journaled, and a half checkpoint counts as taken.
- *Loops*.  Deployment runs one worker process per loop (`render.yaml`); the production supervisor is checked as the
  code has it.  There any exception ends the cycle: `ExecutionsAreObserved` rests on the fairness of the earlier
  steps.  A disabled Paradex is never probed and so alerts nothing, although the system-state worker is documented to
  need no venue flags.  Three loops sleep without watching the stop event and end after their backoff; an alert stored
  before a later append of its cycle raises is never notified.  The backoff is an integer and cannot overflow.
- *Pipeline*.  A chain counts snapshots, not time: a gap between two of them counts as stable.  `LaunchIsFresh` is what
  the two age limits add up to, counted back from the moment by which a launch judges ages.  For the launch loop and
  the API that is the launch itself.  For the production supervisor it is the start of the cycle, before system state,
  scan and cache: a snapshot that passes may be older than the limits by all of that time, although the launch was
  meant to "use a fresh timestamp for market-snapshot freshness" after its checks (`poller.py` 3779), and one stored
  meanwhile by another process lies in its future and is refused.  For both kinds of launch the bounds are tight: one
  tick less fails in both conjuncts with a launch that is a tick under way.  A snapshot promoted while a cache cycle runs lies in the future of
  that cycle, which reports it as stale.  A promotion overwrites a disable that was made meanwhile, and after
  `require_live_approval` the approval is not read again.  The API reads the latest snapshot and the list separately
  (`app.py` 4052, 4076), which the model does at once; with an append in between its chain is empty and the request
  ends in an `IndexError`.  The worker reads once.
- *Basket*.  `max_live_notional` bounds a trade and not what a route has open, and two baskets share approvals only.  A
  route whose lifecycle returned with a partial exposure counts as completed.  A route that was opened and failed
  afterwards is recorded as failed without its paper trade.  The record is written at the end, so a crash loses it.

### Where the code and its docs differ

`_release_cleanup_live_submission_reservations` says it is used "only when submission definitely did not happen"
(`app.py` 2566).  `worker_cleanup`: the partial-fill cleanup releases after transport errors (`poller.py` 2570), which
the adapters also raise once the order has left.  Callers of the Paradex service also take a `ValueError` for a
refusal that a later attempt's repricing raises (`paradex_live_execution.py` 514).  `ReleasesSafely` excludes both from
the promises above.

The deployment guide asks to "require stable launch-ready state before launch" (`docs/deploy/render.md` 248).
`api_stable_launch`: the endpoint evaluates stability and then selects the newest snapshot again without comparing
the two (`app.py` 9085), so one that was stored in between is launched at once.  The worker compares them.

The basket's docstring promises to "persist the aggregated result" (`app.py` 4543).  `basket_record`: a route's
services are built outside the loop's `try` (`app.py` 4552), and without them the request ends after an earlier route
was opened.

Two more, which no run checks: `WorkerSettings` says of the limit on active executions that with `0` "any active live
execution blocks unattended launch" (`config.py` 40), but the cycle lists them once, at its start (`poller.py` 3678),
and opens although another worker's execution came into flight after that.  And `--supervise --iterations N` runs the
bounded loop without signals or backoff (`main.py` 751), not the supervised one for N cycles.

## What is proved

For every set of requests, endpoints, previews and every bound (assumptions: `EndpointsAssumption`, the endpoints are
endpoints; `PreviewAssumption`, every preview has a kind and a venue; `BoundAssumption`):

- `TypeCorrect`: `TypeOK` is invariant.
- `ClaimsAreExclusive`: the inductive invariant `ClaimInv`.  `OneSubmissionPerPreview` is not inductive: that two
  requests have not both sent says nothing of a request about to send.  `ClaimInv` adds that a request holding its
  preview, or done with it after sending, has its row in the guard table (`ClaimedIsReserved`), that no two requests
  claim one preview (`OneClaimant`), that only a request that has sent nothing is on a release path (`ReleasesUnsent`)
  and that endpoints and previews match (`CallsMatch`).  The step proof has a case per action; the cases that matter
  are the reservation, which needs the absence of the row, and the release, which must delete no row but its own.
- `OneSubmission` and `StaysReserved` follow from it.
- `SubmissionRefines`: `Spec => Once!OnceSpec`; reservations map to `Claim`, sends to `Submit`, releases to
  `GiveUp`, everything else stutters.

- `RowsAreOwned`: the inductive invariant `ResInv`, about the rows themselves.  A claimed
  confirmation has its row and one claimant (`LiveOwned`), which has no execution until it is marked (`LiveUnmarked`);
  the row of a held preview carries its holder's confirmation (`GuardOwned`); the confirmation of a close or cleanup is
  reserved and journaled inside the reservation of its preview (`LiveInGuard`, `JournalInGuard`); a mark names the entry
  its request journaled (`EntryIsOwn`); and a row without an execution has a request that holds it or died
  (`GuardWitness`, `LiveWitness`).  Each step is quiet, or one of seven transactions with a lemma of its own; that the
  releases find their row, so that no request ends `stuck`, is part of it.
- `OneSubmissionOfAConfirmation`, `CompletedIsOwn`, `ReleaseTogether`, `OneExecution` and `AnsweredLeavesNothing` follow
  from it, and so does the action property `CompletedIsFinal`.  With these all properties of `submissions` are proved.

For every set of workers, snapshots, labels and uuids and all settings of StableLaunch:

- `TypeCorrect`, and `LaunchInvariant`: the inductive invariant `LaunchInv`.  That opens are apart says nothing of a
  worker that is about to open, so `LaunchInv` speaks of claims: opens, and cycles that have renewed their lease.
  Whoever claimed a snapshot has its row, unchanged, or lost it to a reservation or to retention more than a TTL
  later (`ClaimsCovered`); a worker that holds a reservation knows its age (`RowsMatch`); a uuid belongs to one cycle
  (`OwnersDiffer`); claims of one snapshot are apart (`ClaimsApart`); and what supervised cycles and opens rest on was
  fresh (`CyclesFresh`, `OpensFresh`).  `CalmStep` deals with all steps that touch no lease, `LeaseStep` with what a
  reservation and a renewal have in common; the retention delete is the case that needs `LeaseAssumption`.
- `LeasesStayApart` and `SupervisedOnce` follow from it.
- `LimitsInvariant`, under the hypothesis `OneWorker` that there are not two: the code reads its limits once a cycle
  and without a lock, so a second worker may open in between (see above).  Of one worker the invariant says what its
  readings are still good for.  `RoomInv`: the launches that a cycle may still make are no more than there is room for
  in the limit, where a cycle that has opened and not counted it yet is one ahead.  `PaceInv`: a chosen candidate is
  behind the gates of cooldown and rate as of a time that was read, which later times only open.  `BudgetInv`: the
  exposure that was read, with what the cycle has opened since, covers all that is in flight, and what it opens next
  fits on top.
- `ActiveLimited`, `NotionalLimited` and `LaunchRateLimited` follow from it.  The notional is a sum over a set, so
  these rest on FoldLemmas.  `LimitsAssumption` asks that limits and budget are numbers, `MaxRoutes` a positive one.

`LeaseAssumption` is stronger than what `WorkerSettings` validates: retention must exceed the TTL by the age a clock
reading may have when it is used (`MaxStall`).  With retention equal to the TTL, a reservation computed from a late
reading could follow the deletion of a row that had not run out for it.  The default retention is a day.

For every size, number of attempts and bound of GuardedPair (assumptions: the venues, `Size` and `Attempts`
positive):

- `TypeCorrect`, and `PairInvariant`: an open runs alone until it is journaled, so the last order of its leg is its
  own (`Mine`); it waits for that order and has closed every earlier one of the leg without a fill.  What an
  observation says has to outlive the observation, and does because fills of a closed order are final.
- `SecondLegSafe` and `LegFillsOnce` follow from it.
- `LearnedInvariant`: `LearnInv` adds what a request learns.  `VenueInv`: a position is zero as long as nothing has
  filled, and is what the one filled order says if there is only one; no sum over orders is needed, because
  `LegFillsOnce` leaves one that can fill.  `LegInv`: the legs that an open ends with name the one order of each venue
  that may have filled (`Named`), unless an answer was lost.  `ReadInv`: closes and cleanups come after the opening
  orders are settled (`PastOpen`), what the accounts show has filled (`HeldFilled`), accounts that show nothing after
  the open mean that nothing is held (`AccountsRead`), and a verdict says which orders can no longer fill
  (`Learned`).  The cases that matter are `ReadOrders`, whose verdict rests on accounts that were read before other
  orders filled, and the venue's own steps, which must leave what was learned true.
- `LearnedFlat` and `HedgedHoldsBoth` follow from it.  With these all properties of `pair` are proved.

For any routes, caps, ages and bounds of LaunchReadyPipeline (`PipelineAssumption`; `NoneAssumption`, no snapshot is
`None`):

- `TypeCorrect`, and `PipelineInvariant`.  That a launch is fresh says nothing of the steps before it, so the invariant
  speaks of the stores: the venues were ready when a stored snapshot was captured or later (`ReadySince`), the approved
  snapshot in the newest one was not stale then (`SourceFresh`), the latest approved snapshot is never older than one
  that was taken (`LatestIsNewest`), and a worker that has selected a snapshot stays with what was stable
  (`SelectedIsStable`).  Of a picked snapshot it says how old it was when the launch, or the supervisor's cycle, began:
  what is `Usable` as seen `Ago` is at most `MaxAge + Ago` old, and `Ago` is no more than the launch has been under way.  `LatestIsNewest` is what bounds the snapshot that replaces the chosen one.  The cases that
  matter are `Tick`, where every age grows but is cut off at a horizon, and `AppendReady`, which may insert
  behind newer snapshots.
- `FreshLaunch` and `StableLaunched` follow from it.

For any trades, settings and bounds of ExecutionMonitor (`SettingsAssumption` and `BoundAssumption` are not even needed;
`NoneAssumption`, no row is `None`):

- `TypeCorrect`, and `MonitorInvariant`: the inductive invariant `MonitorInv`.  A step that stores says nothing of the
  reads before it, so the invariant speaks of what a cycle is given: when it listed an execution the trade had no newer
  active one, so an active one that came since is not older than the listing (`WatchesListed`); observations are not
  older than their executions (`SeenAfterSent`), an alert is stored with its observation (`AlertWasSeen`), and the
  observation a cycle read before its probe is not older than the trade's alert (`PrevCoversAlert`), because only
  cycles alert and there is one at a time.  The case that matters is `AppendWithAlert`; that the listing takes the
  newest active execution rests on the maximum of a finite set of indices (`SetHasMaximum`, by well-foundedness).
- `AlertsRepeatOnChange`, `ReplacedStaysOlder` and `CheckpointsOnlyAdvance` follow from it.

For every backoff, interval, set of modes and bound of SupervisedLoops (`LoopAssumption`, the counted failures reach
the longest backoff; `ModesAssumption`, the modes are among those of `main`):

- `TypeCorrect`.
- `StateIsAlerted`: inductive once it is known that only a loop that handles signals is ever between a probe and its
  alert (`AlertInv`), so that no SIGTERM ends it there.
- `DelayIsEarned`: the property speaks of the outcomes and the code of a counter, so the invariant `DelayInv` says
  that the counter is the number of failures since the latest success (`Streak`).  That the doubled backoff is a number
  at all is `CountExists`.

For any routes, caps, sizes and target of CanaryBasket (`BasketAssumption`: the routes are finite in number, and
`None` is neither a cap nor an outcome):

- `TypeCorrect` (with `TradesInv`: routes are begun in the order of the plan, each after the one before is over).
- `TargetKept`: a plan adds up to the target at most (`Within`) and has no route twice (`Distinct`), whatever
  candidates the scan lists (`PlanInv`); what is sent is part of the plan, and part of a sum is no larger.
- `RouteApproved`: an approval that allows a route when it is asked for was seen since the route was begun
  (`ApprovalInv`), so that a route which is past that step, or exposed, had one.
- `FailureIsLast`.

FoldLemmas is what the budget, the basket and the backoff rest on.  The library defines a fold by a recursive function,
a `CHOOSE` that could be anything as long as no such function is known to exist; `FoldExists` and `CountExists` show
that one does, by the smallest set or least number for which it would not.  From there, by the same argument,
`AnyOrder` (a sum does not depend on the order of its terms), `LargerSum` (a part adds up to no more) and `LeftFold`
(a fold from the left takes one element after the other).  These are inductions for these definitions, without the
library's theorems, which no installed prover can instantiate.

The proofs have changed the models in one respect: TLA+ may take any arm of a `CASE` that holds, so where arms of
`PairStatus`, `ByPositions` or `Dispatch` overlapped the order of the code's tests was not in the model, although TLC
follows it. They are written without overlap now.

Only model-checked: liveness, since fairness and `ENABLED` are out of the proof system's reach
(`AnsweredSubmissionSettles`, `TroubleIsSeen`, `ExpiredHedgeIsClosed`, `StopIsHonoured`, `ExecutionsAreObserved`), and
the properties that are violated.  Every invariant and every action property of the passing runs is proved, for one
worker where `budget` has one.

## Not modelled, and assumptions

Of the launch: hold mode (it ends the cycle before the reservation), the budget per venue, the loss circuit breaker (a
read-only gate), launches from the API, and the lifecycle after the journal entry, which is one step that observes or
raises.  A 404 from within the lifecycle, after which the cycle would try another candidate, is taken not to occur:
nothing it calls after the reservation looks up what could be missing.

Of the pair: venues report `avgPx` when anything filled, and all orders are immediate-or-cancel.  Of the pipeline:
gates on edge, break-even and liquidity are left open, alerts are left out, a snapshot is its `captured_at` and its
payload, so two of one tick with one payload are alike.  Of the basket: the paper trade's notional, which may be
smaller than its entry's, and the read-only proposals.

Computed from market data and used at once, with no state that outlives the call: scoring and the universe scan, order
and cleanup previews, repricing (it stays within the confirmed limit) and accounting.  They are floating-point and
`Decimal` arithmetic over prices, which a finite model would replace by something else.  Preflight and readiness are
verdicts, outcomes of the steps that ask for them.  Connectors retry reads only; orders are posted by the adapters,
once. Normalizers, dashboards, settings, the watchlist, webhooks, schema migrations and deployment tooling coordinate
nothing.

Refusals before the first write (approval, readiness, missing confirmation) change nothing and are not steps.  The
unused `reserve_pair_open_live_submission`, listings, schema migrations and the mock adapter are left out.  The
paths are modelled per preview hash: two previews of one exposure built at different prices have different hashes
and are different previews here, as they are for the code (`pair_close_preview.py` 122), and only GuardedPair relates
what they do to the position.

## Plan

Done, in this order: submissions, the stable launch, the guarded pair, the monitor, the loops, the pipeline and the
basket; proofs of the safety properties of all of them.

Left, by what it adds:

1. The composition of the basket's lifecycle with GuardedPair, for what is open after a failed route.
2. The loss circuit breaker and the per-venue budget of the launch.
