# Verification of marzban-guard

marzban-guard watches the connections of VPN accounts, scores suspicious
behaviour and, for a high score, has the accounts switched off at Marzban. This
directory holds TLA+ models of the parts of it that decide, record and enforce,
the TLC runs that check them on small instances, and TLAPS proofs about all of
them. Paths below are relative to the repository root.

Run a model with `tlc -config <run>.cfg <module>` and a proof with
`tlapm EnforcementProofs.tla`; `PROJECT.json` lists every run, the source lines
of every definition, the mutants each property is tested against, the hazards
and the findings.

## The system

```
 node                       central service
 Xray -> access log         api: POST /ingest/events --XADD--> Redis stream mg:events
          |                                                        |
   xray_log_collector --HTTPS--^                         worker: N EventConsumers
   (state file)                                            | RateLimiter (Redis)
                                                           | detectors
 shop bot <--callback-- mitigation <-----------------------| ScoringEngine
 Marzban  <--status-----     ^                             | MitigationService
                             |                             v
          expiry_sweep_forever, admin API  <------> PostgreSQL guard_users, ...
```

| component | state it keeps | operations | talks to |
|---|---|---|---|
| Collector (`collector/xray_log_collector.py`) | position in the log, event buffer, state file | poll, parse, buffer, post, save | log files (rotated under it), ingest endpoint |
| Ingest endpoint (`api/routes/ingest.py`) | none | validate, XADD per event, trim | Redis stream |
| Event consumer (`workers/event_consumer.py`) | batch in hand, database session | claim, read, handle, commit, acknowledge | stream and group, everything below |
| Rate limiter (`services/rate_limiter.py`) | Redis counters, capped sets, sorted set, overrides | record a connection, set an override | Redis, shared by all consumers without locks |
| Detectors (`detectors/*.py`) | none | thresholds over the rate limiter's answers | - |
| Scoring (`services/scoring.py`) | `guard_users.risk_score`, `abuse_events` | device-limit delta, decay, bonus, entries | PostgreSQL |
| Mitigation (`services/mitigation.py`) | `guard_users.status`, `status_expires_at`, `blacklist_entries` | apply/escalate, reinstate, manual override | PostgreSQL, Marzban, shop |
| Expiry sweep (`expiry_sweep_forever`) | rows it selected | reinstate expired suspensions | PostgreSQL, Marzban, shop |
| Admin API (`api/routes/admin.py`) | - | override a status, review a blacklisting, set a device limit | PostgreSQL, Marzban, shop, Redis |
| Alerts and warnings (`services/notifier.py`, cooldowns in mitigation) | `mitigation_actions` | notify, warn | Telegram, shop |
| Traffic poller (`workers/traffic_poller.py`) | `traffic_samples` | page through Marzban, insert | Marzban, PostgreSQL |
| Roll-ups, statistics, health, configuration, GeoIP, metrics | derived or none | - | - |

What is hard here:

* **Concurrency without locks held across awaits.** Two consumers per worker by
  default, several workers, the sweep and the admin API work on the same
  `guard_users` rows in separate sessions. A row is read without a lock, a call
  to Marzban is awaited, and the row is written later from what was read. The
  ORM writes only the columns that changed against that read.
* **Two copies of the decision outside the database.** Marzban and the shop are
  told before the commit; no rollback reaches them.
* **At-least-once delivery.** A batch is handled again after a crash, an
  exception or a claim by a slower consumer's sibling, so the counters, scores
  and escalations meet the same event twice.
* **Event time against wall time.** The rate limiter's keys are named by the
  time of the event and expire by Redis's clock; events of several nodes arrive
  late and out of order.
* **Caps and rotation.** Buffers, sets and the stream drop what exceeds them;
  logrotate moves the file from under the collector between a stat and an open.

What makes each part correct: the collector delivers every line that is not
rotated away, once but for faults; the stream and its group score every accepted
event, acknowledging only what is committed; the counters answer what happened
in the window, whoever asks and in whatever order; the score never forgives
early, never exceeds what was recorded and scores a device once; an account is
off at Marzban and banned in the shop when, and only when, the database says it
is restricted, until its suspension is over; and the admin hears of an elevated
account once per cooldown, and of an account going dark always.

## Modules

| module | models | checked by |
|---|---|---|
| `MitigationPolicy` | the decision of `MitigationService.apply()`: no state | extended by `Enforcement` and `Alerts` |
| `Enforcement` | consumers, sweep and admin requests over one users table, Marzban and the shop | `enforcement_sessions`, `_liveness`, `_lowered` |
| `MCEnforcement` | symmetry and view for TLC | |
| `EnforcementProofs` | theorems about `Enforcement` | TLAPS |
| `Collector` | the tail, buffer, post, save loop with logrotate, endpoint and crashes | `collector_delivery`, `collector_oversize` |
| `EventStream` | endpoint, stream, group, consumer cycle | `eventstream_promise` |
| `AtLeastOnce` | what the pipeline promises, abstractly | refined by `EventStream` |
| `Scoring`, `MCScoring` | one user's score under concurrent sessions | `scoring_sessions`, `scoring_lost` |
| `SlidingWindow` | rate counters and the connection-rate detector | `slidingwindow_bursts` |
| `RecordConnection`, `MCRecordConnection` | one connection through the counters, the capped destination sets and the detector registry | `recordconnection_windows` |
| `LiveDevices`, `MCLiveDevices` | the sorted set of devices, overrides and the device-limit detector | `livedevices_window` |
| `Alerts`, `MCAlerts` | alerts to the admin and warnings to the shop, with their cooldowns | `alerts_cooldowns` |
| `CollectorProofs`, `EventStreamProofs`, `SlidingWindowProofs`, `RecordConnectionProofs`, `LiveDevicesProofs`, `AlertsProofs`, `ScoringProofs` | theorems about the module they are named for | TLAPS |

Each module has a section of definitions introduced as "a slip to compare with":
one-line alterations of the definition that follows, of the kind a real edit
could make. No specification uses them; every property of every run is shown to
notice one.

### Enforcement

A session is a consumer's batch, a sweep's round or an admin request. `view` is
the ORM's copy of the rows the session has loaded, `staged` what it has updated
and not committed, `lock` the row lock an UPDATE takes until the session ends,
`asked` the users it has called Marzban for. The actions follow the awaits:

* a consumer: `ConsumerLoad` (get_or_create), `ConsumerScore` (process_event's
  flush takes the lock, and apply() decides), `EscalateCall` or
  `EscalateCallFails` (set_user_status), `EscalateStage` (set_status, blacklist
  entry, shop callback), `ConsumerCommit`;
* the sweep: `SweepSelect`, then `SweepCall`, `SweepStage` per user in any order,
  `SweepCommit`; an exception (`SweepCallFails`) ends the whole session;
* an admin: `AdminOverride`, `ReviewAndReinstate` or `ReviewOnly`, `AdminCall`,
  `AdminStage`, `AdminCommit`;
* anybody: `Crash`, and `DeadlockVictim` when sessions wait for each other's rows.

A failing Marzban call may have reached Marzban; a shop callback may be lost.
`SetUserStatus` is a call that returns: Marzban has done what it was asked, or
has answered 404 (a user name taken from the log may carry a prefix that the
account's name does not have, and stripping it is optional), which
`set_user_status` logs and returns from as if all were well. The session goes on
and commits its row; `unknown` names the accounts whose last call went that way.
`Updated` is the partial UPDATE of the ORM: a column keeps its committed value
if the session's new value equals the one it loaded.

Abstractions: the row exists (its first INSERT is left out); a call to Marzban
has its effect no later than it returns; a scored event that does not escalate
takes the lock in the same step in which it scores; the level is any level,
since the score is `Scoring`'s matter.

### Collector

Lines are numbers in the order of writing and offsets count lines. `stat`
separates os.stat from the open, because the path may name another file by then.
`Truncated` is the size test by which copytruncate is recognised. It recognises
every truncation, unless the log has grown as long again before somebody asks:
`looked` says whether os.stat was asked since the truncation, and only when the
log reaches the offset of the tail before that do its lines count as `rewritten`.
`overgrown` is the same of the offset in the state file, which matters when the
collector starts from it. `PostFails` is
post_batch() returning False, `PostEscapes` an exception it does not catch (a
connection reset while the answer is awaited), which loses the drained batch in
run()'s handler. A line may be written in two parts (`half`): what readlines()
returns of it does not parse, and neither does the rest. As Xray writes no other
line before it has finished this one, only the last line of what is read can be
unfinished (`Parsed`). Other lines that do not parse are left out.

### EventStream and AtLeastOnce

Entries are numbered in the order of the stream and a batch is the set of its
entries (`Oldest` takes the first n of a set, as COUNT does). The group keeps a position and the pending entries, of
which `idle` ones may be claimed. `Claim`, `Read`, `Handle`, `Commit`, `Ack` are
the awaits of `_process_once`. `poison` are entries whose handling always raises;
the initial state chooses them, so the same run covers the pipeline with and
without. Every entry is valid JSON (the endpoint serializes it), and whom an
entry is pending for is left out, as nothing reads it. `AtLeastOnce` has neither
consumers nor acknowledgements: events are accepted, scored in batches, dropped
from the old end, or spoiled by a poison event in the batch, and every accepted
event is eventually one of these (`Promise`); `SafeSpec` is `AtLeastOnce` without
this last part.

### Scoring

One user; a tick is one half-life, and weights are multiples of 2^MaxTime, so
that decay stays exact (`score \div 2^elapsed` is then what the code's
half-life formula gives). `PointsOf` and `DecayedPointsOf` add up entries as they
were recorded and as they would have decayed one by one; only the properties use
them. Ids of `abuse_events` stand for created_at. `Begin` reads
the last device_limit entry, `Load` the row, and only `Score`, the flush, takes
the row's lock: what happens between them is what the module is about.
`updated_at` is computed by the session, before the UPDATE waits for the lock.
`StatusChange` therefore dates the row at any time up to now. `Score` dates it at
the flush: it could only wait for another session that scores the user, which is
the case (`overlapped`) that the time-dependent properties leave out, as they
leave out a change of the status that had to wait.

### SlidingWindow, LiveDevices

One user's keys in Redis; an action is a round trip (a pipeline where the code
uses one). Keys are named by event time and expire on the clock. An event is
processed at most `MaxLag`, no more than a window, after it happened, so a key's
own expiry (two windows) does not remove what is still asked for: this is the
assumption the code makes with "2x window". Nothing in the code enforces it (an
outage of a collector, or the claim of a pending batch, may delay events for
longer): beyond it the properties say nothing.

In `LiveDevices` a consumer counts (`Prune`, `Add`), and judges some round trips
later (`Judge`), with the override that Redis then has: the shop may set or clear
it in between (`SetOverride`). `stats` holds the count, and as history how many
devices were active then and which limits have been in force since.

### RecordConnection

One user's connection on its way through `record_connection()` and `run_all()`:
`Take` increments the counter of its outcome, `Check` is the first SCARD of
`add_and_count()` and `Add` its SADD with the second SCARD, for the hosts, the
ports and, for mail, the mail hosts in turn, and `Judge` stands for the remaining
reads and the detectors. Consumers interleave between any two of these, take up
connections in any order, and a batch may `Fail` anywhere: its connection is
delivered again while what it has left in Redis stays: `waiting` has the pair of
the fault's number and the connection. `MaxConnections` bounds how many are
opened (`connects`). The keys of a window are
named by the time of the connection, so windows do not share any. Steps are
merged only where no interleaving tells them apart: additions to a set commute,
and no detector needs two of the reads in `Judge`. Left to the modules above:
the expiry of keys, the weight of the window before, and the device tracker,
which shares nothing with the others.

### Alerts

One account. `ses` holds a consumer's session: the events it has claimed
(`todo`) and read (`batch`), the status in its memory (`view`), what it has
written (`staged`, `rows`), and `applied`, the time `apply()` took at its start.
`log` is the part of `mitigation_actions` that stands for messages. The steps:
`Open` claims entries that were not acknowledged, any of them, also those that a
slow consumer is still at work on; `Again` and `New` load the row for an event;
`Apply` scores it, afresh at each delivery, and takes the branch of `apply()`;
`Warn` is `_warn_device_limit()`, `Notify` `_should_notify()` and the alert;
`EscalateCall`, `EscalateStage` and `Announce` are an escalation, whose alert is
forced. `Commit` is followed by the acknowledgement, or the acknowledgement is
lost; `Trim` removes an entry from the stream while it is pending.

`last_action()` is a query, and the session flushes the new risk_score before it:
so it waits for the row's lock and then sees what the lock's last holder has
committed. This is why concurrent batches do not alert twice, and it would be
lost with autoflush off (`NotifyUnlocked`). A rolled-back batch takes its rows
with it, not its messages.

`over` holds the sessions of the expiry sweep and of the admins. As in
Enforcement they load the row (`Override`), call Marzban without the row's lock
(`OverrideCall`, `OverrideCallFails`), then wait for it (`OverrideStage`) and commit
or are rolled back; any of this may fall between a consumer's call, its alert and
its commit. `dark` is the account at Marzban, `told` whether the admin has heard
of it since it went dark; an admin who switches it off by hand knows. A call that
is answered 404 changes neither. `owed` are the events that will be delivered
again and whose batch was rolled back between the call and the alert.

A dry run and a flagged account are alerted of as level 2 is, and the instance
leaves them out.

## Runs

All runs take a few seconds to a few minutes. "Pass" runs are exhaustive.

| run | instance | shows |
|---|---|---|
| `enforcement_sessions` | 2 users, one always refused, 2 consumers, 2 sweeps, 1 admin request at a time, 2 scored events or requests, 1 tick, 1 fault or 404, at most one user blacklisted from the start | restricted means off at Marzban, off means restricted, the shop follows the row, who is blacklisted by a batch has a new entry to review and who is suspended by one an expiry; the invariant of the proofs holds in the reachable states |
| `enforcement_liveness` | 2 users, 1 consumer, 1 sweep, 2 scored events, deadlocks, no other faults | sessions close, expired suspensions end |
| `collector_delivery` | 3 lines, the second maybe in two parts, 2 files, both rotations, buffer of 3, batches of 2, 2 faults | delivery, order and repetition as below |
| `eventstream_promise` | 2 consumers, 3 entries, stream of 2, batches of 2, 1 fault, entry 2 poison or not | refinement of `AtLeastOnce`, no loss, no acknowledgement before a commit |
| `scoring_sessions` | 2 consumers, 3 devices, limits 1 and 2, 2 half-lives; 3 events, or 2 and a status change | the score against the recorded offences |
| `slidingwindow_bursts` | 2 consumers, 3 connections, window of 3 ticks, lag 2, 1 fault | bursts are flagged across bucket boundaries, quiet users are not |
| `recordconnection_windows` | 2 consumers, 4 connections of 7 kinds (4 hosts, 2 ports, accepted or rejected, 2 windows), cap and thresholds 2, 1 fault | offenders are flagged and nobody else, the cap hides no offender and its overrun is bounded, no scanner is made of a stale count |
| `alerts_cooldowns` | 2 consumers, scores of 4 kinds, cooldowns of 1 and 2 ticks; 1 event with a sweep or admin request and 2 faults, or 2 events with the request or 1 fault | routine messages are a cooldown apart, the cooldown swallows no more, an account going dark is announced |
| `livedevices_window` | 2 consumers, 3 devices, 4 connections, cap 3, limits 0 to 2, 2 changes of the limit, lag 2 | the answer is the number of active devices, and a limit in force between count and verdict is applied |
| `enforcement_lowered` | 1 user, 1 consumer, 1 sweep | violated: see Findings |
| `collector_oversize` | 1 file, endpoint accepts 2, buffer of 4 | violated: see Findings |
| `scoring_lost` | 2 consumers, 3 events | violated: see Findings |

Why these bounds are enough: every race in these models is between two sessions
over one row, key or file, so two of each kind and one or two of the contended
things show all of them; deadlock needs two rows and two sessions. Two scored
events in `enforcement_sessions` let a batch meet an earlier status, a batch meet
another, and an admin meet either, while a row that starts out suspended and
expired gives the sweep its work at once, and one that starts out blacklisted with
an entry lets two actions review, reinstate and blacklist anew. The buffer, batch, cap and stream are
the smallest for which they are full, not full and overrun within the run. Four
connections reach every threshold of two with one connection more, in one window
or spread over two. Two alerted events give
every pair of messages within, at and beyond a cooldown. Two changes of the limit
set and clear it while one connection waits for its verdict. One fault (two where a
redelivery and its failure matter) is the least that allows a fault and a
recovery; counters of repetitions are bounded by a formula in the faults.

Two runs bound a sum instead of each counter alone (`FewAtATime`, a CONSTRAINT):
`alerts_cooldowns`, where each event, request and fault multiplies the states, and
`scoring_sessions`. In the first, what takes two faults (a batch rolled back after
its call, its event delivered again and claimed late, or a lost acknowledgement)
needs one event, and what takes two events (a cooldown, a dark account announced
by the other batch) needs no more than one fault or one request. All combinations
are covered by the proofs.

The symmetry declared (consumers, sweeps, devices) is used only in runs without
liveness. Three runs also declare a VIEW: it leaves out what a handler is done with
and never reads again (the user and the goal of a session that is past them, the
event and the time of one that is between events), and history that nothing asks
for any more; where a property reads what is left out, its value is in the view.
Two states with the same view have the same steps and satisfy the same
properties.

A deadlock of TLC is an error in every run: a `Quiet` step stutters where the
bounds are used up and nobody is at work, so any other stop would be reported.

### Exceptions the properties name

Several properties hold with exceptions, carried by history variables that no
action reads. They are behaviours of the code worth knowing:

* `RestrictedMeansOff`: a session that has switched the account on and was
  rolled back (`leftOn`); an admin override overlapping another session, which
  calls Marzban without the row lock; an event with the time of the last scored
  one (redelivered), whose flush changes no column and so takes no lock
  (`unlocked`); and an account that Marzban did not know when it was last told
  (`unknown`, `services/marzban_client.py:80-82`): its row is committed
  restricted, the shop shows it banned, and nothing was switched off.
* `OffMeansRestricted`: the account was switched off and the batch or the override
  rolled back, or the call failed although Marzban had acted on it (`leftOff`).
  The row says active, so no sweep will find it: the account stays off until the
  user is scored again at level 3. Also excepted: a sweep or an admin request that
  overlapped another session, and a reinstatement that was answered 404. What
  is left for the property to say is narrower than its name: sessions one after
  another, and batches that overlap each other, leave nobody off.
* `ShopFollowsRow`: a callback that was lost, or sent before a rollback.
* `SuspensionHasExpiry` and `BlacklistedHasEntry` speak of what batches commit:
  manual_override writes neither an expiry nor a blacklist entry. The entry must be
  new and not reviewed: one from an earlier blacklisting does not do. The first also
  excepts admin overrides that overlap other sessions. Two of them can leave an
  active row with an expiry (one column is written by each); a batch that has
  loaded that row and suspends until the same instant believes the column
  unchanged and writes the status only, over what another override has made of
  the expiry meanwhile. The run's bounds do not reach this; the proof did.
* `SuspensionEnds` assumes that no user is refused for ever and that one sweep
  runs. A refused user's exception ends the sweep for all, every time; and two
  worker processes whose selects (no ORDER BY) return rows in different orders
  can deadlock again and again. The run's instance has no refused user.
* `AtLeastOnce`, `NothingSkipped`, `InOrder`: lines dropped by the full buffer,
  taken by an escaping exception (`escaped`), read before they were finished
  (`torn`), or of a truncated log that has grown as long again before os.stat was
  asked (`rewritten`). A truncation that a stat sees costs no line: without the
  size test (`TruncationUnseen`) `NothingSkipped` fails. `AtLeastOnce` also
  excepts a truncated log that has grown as long again as the state file says,
  until the state is saved anew (`overgrown`): a collector that restarts in
  between passes over those lines. All speak of the file at
  the path: what was not read when the log is renamed is never read.
* `EventuallyAccepted`: as long as the collector does not hold more than the
  endpoint takes at once.
* `AtLeastOnce!Promise`: events that shared a batch with a poison event; once
  these fill a batch alone and grow idle as fast as they are claimed, nothing new
  is read.
* `NothingForgivenEarly`, `DeviceScoredOnce`, `BonusOnlyAfterGap`: sessions that
  overlap on one user, and a change of the status that waited for one of them and
  dates the row back. The bonus also excepts events scored out of order.
* `CountIsActive`, `OverLimitIsFlagged`: events out of order, and a set that has
  been full; a limit at or above the set's cap can never be exceeded. Whoever's
  limit changes between the count and the verdict may be judged by either.
* `FlaggedMeansBusy`: runs without a failed batch. What it counted before it failed
  is counted again.
* `FlaggedMeansOffence`: a connection that is delivered again counts again in the
  counters; port scans have `ScanIsConcentrated` instead, because what looks like
  a scan when it is judged may be spread over more hosts in the end.
* `ElevatedIsHeard` counts an alert at the same instant as one heard: with a
  cooldown of zero, which `config.py:205` allows, an event may be applied at the
  time of the alert before it and not be alerted again.
* `RoutineAlertsAreApart`: a message whose batch was rolled back leaves no row, and
  its redelivery sends it again at once.
* `DarkIsAnnounced`: a call to Marzban that fails although Marzban acted on it
  (`failed`). The
  exception skips the row and the alert, so the account is off with neither,
  although "the admin must never miss an account actually going dark"
  (`services/mitigation.py:108-110`), and no redelivery follows: the event counts
  as handled. The comment at `workers/event_consumer.py:195` relies on the user's
  next connection; one that triggers no detector, or only device_limit without a
  new device, does not reach mitigation. Also a batch that is rolled back between
  the call and the alert (`lapsed`): its event is delivered again and alerts then,
  unless it has been acknowledged by a sibling, is trimmed from the stream, or is
  scored afresh to a level that does not escalate, or the row is restricted by
  then; all these end with the event acknowledged or gone and nobody told.

### Findings

* `enforcement_lowered` (`workers/event_consumer.py:243`): the sweep writes
  `active` over a row that was raised to disabled or blacklisted after its
  select, although "de-escalating requires ... an explicit admin call".
* `collector_oversize` (`collector/xray_log_collector.py:259`): the buffer may
  grow to 50,000 events in an outage and is posted as one batch, of which the
  endpoint accepts 10,000: it is refused for ever, although events are put back
  "so a transient outage doesn't lose events".
* `scoring_lost` (`services/scoring.py:170`): of two consumers that score one
  user at the same time, the later UPDATE erases the points of the earlier,
  although "every triggered detector's score is summed".

## Fairness

* `Enforcement`: weak fairness of every handler's steps, since the event loop
  resumes a handler whose await is over and a call returns or raises; strong
  fairness of the steps that wait for a row lock, which PostgreSQL grants in the
  order of the requests; weak fairness of deadlock detection and of time. Nothing
  obliges a user to connect, an admin to act, or a fault to happen.
* `Collector`: the loop goes round; the flush interval elapses (strong fairness
  of `Drain`, which `NotDue` may postpone while the batch is short); a rotation,
  once begun, creates the new file. The bound on faults says they stop.
* `EventStream`: run_forever() never stops, and a pending entry grows idle.

The other modules are checked for safety only.

## Proofs

A theorem here is about every value of the constants that the module's named
assumption allows: any number of consumers, sweeps, admins, users, devices and
connections, any buffer, batch, cap, window and threshold, and any value of the
bounds that TLC needs. TLC evaluates each assumption in every run. Those that
say more than the kind of a constant: sessions of different kinds are different;
`NoRowAssumption` (in `Enforcement` and in `Scoring`), the marker for "not loaded"
is no row; the weights of device_limit and of other detectors are positive in
`Scoring`; `MaxLag \in 0..Window` in `SlidingWindow`
and `LiveDevices`, an event is handled at most a window late; and in
`RecordConnection` thresholds are at least one and not above the cap of the sets
they are compared with (a higher one could never be reached), and `MaxScanIps`
is below it.

Each module has one invariant that is inductive, one lemma per action that the
action keeps it, and the theorems that follow from it. What each invariant adds to
the properties is what the properties do not say and their proof needs: what a
handler has established at each await.

| module | theorems | property |
|---|---|---|
| `EnforcementProofs` | `TypeCorrect`, `Inductive` | types, `IndInv` |
| | `RestrictedUsersAreOff`, `ShopAgreesWithTheRow` | `RestrictedMeansOff`, `ShopFollowsRow` |
| | `InductiveWrites`, `NobodyIsLeftOff` | `OffMeansRestricted` |
| | `BlacklistingLeavesEntry`, `SuspensionsExpire` | `BlacklistedHasEntry`, `SuspensionHasExpiry` (action properties) |
| `CollectorProofs` | `CollectorInductive`, `CollectorTypes` | `TypeOK` |
| | `RestartsLoseNothing`, `NoLineIsSkipped` | `AtLeastOnce`, `NothingSkipped` |
| | `DeliveryInductive` | `LinesInv`, `RepeatsInv`, `OrderInv` |
| | `RepetitionIsBounded`, `LinesArriveInOrder` | `RepeatsNeedFaults`, `InOrder` |
| `EventStreamProofs` | `StreamInductive`, `StreamTypes` | `TypeOK` |
| | `NoEventIsLost`, `NoRepeatWithoutClaim`, `AcknowledgementsFollowScores` | `NothingLost`, `RepeatsNeedClaims`, `AcknowledgedIsScored` |
| | `PipelineRefines` | the specification implements `AtLeastOnce!SafeSpec` |
| `SlidingWindowProofs` | `WindowInductive`, `WindowTypes` | `TypeOK` |
| | `NoBurstPasses`, `QuietUsersPass` | `BurstIsFlagged`, `FlaggedMeansBusy` |
| `RecordConnectionProofs` | `RecordInductive`, `RecordTypes` | `TypeOK` |
| | `CapsHoldButForConsumers`, `StaleCountsMakeNoScanner` | `OvershootIsBounded`, `ScanIsConcentrated` |
| | `OnlyOffendersAreFlagged`, `EveryOffenderIsFlagged` | `FlaggedMeansOffence`, `OffendersAreFlagged` |
| `LiveDevicesProofs` | `DevicesInductive`, `DevicesTypes` | `TypeOK` |
| | `AnswersCountTheActive`, `NoGhostIsCounted`, `NobodyOverTheLimitPasses` | `CountIsActive`, `CountsNoGhosts`, `OverLimitIsFlagged` |
| `AlertsProofs` | `AlertsInductive`, `AlertsTypes` | `TypeOK` |
| | `RoutineMessagesKeepTheirCooldown`, `CooldownSwallowsNoMore`, `GoingDarkIsAnnounced` | `RoutineAlertsAreApart`, `ElevatedIsHeard`, `DarkIsAnnounced` |
| `ScoringProofs` | `ScoringInductive`, `ScoringTypeOK` | `TypeOK` |
| | `ScoringNothingForgivenEarly`, `ScoringScoreIsExplained` | `NothingForgivenEarly`, `ScoreIsExplained` |
| | `ScoringDeviceScoredOnce`, `ScoringBonusOnlyAfterGap` | `DeviceScoredOnce`, `BonusOnlyAfterGap` |

### Enforcement

`RestrictedMeansOff` alone is not inductive: it says nothing of a session that is
about to write a restriction it computed earlier. `IndInv` adds what each kind of
session has established at each point of its handler:

* a session has an idle session's empty memory when idle, locks only rows it
  loaded and writes only rows it has locked (`ClosedWhenIdle`,
  `WritesUnderLock`);
* a consumer at Marzban holds the row's lock, asks for a restriction, and what it
  has staged is a restriction of an account that is off or excused
  (`ConsumerRestricts`):
  the order process_event's flush, call, set_status is what makes this true;
* a sweep stages only reinstatements and is marked as having asked for each
  (`SweeperReinstates`, `AskedThenStaged`), so that until it is closed the
  property excuses its users, and afterwards either the row is active or the user
  is in `leftOn`;
* an admin request that nothing has overlapped sees the committed row
  (`AdminSerial`);
* a restricted row's account is off or excused (`RestrictedOff`), and the shop
  was told what the lock's holder has written, or else the committed row
  (`ShopToldUnderLock`).

`WritesInv` goes the other way, from the account to the row, and needs more of
the sessions: which row a partial UPDATE of a stale copy would write. A row that
nobody restricts has no expiry, nor has any copy of it, as long as no override
overlaps (`NoStaleExpiry`): so a suspension always differs from the loaded expiry
and the column is written. An account that is off has a reason (`OffReason`): its
row, a session that asked for it and has the row's restriction staged or is about
to stage it, or one of the exceptions.

The step proofs have one lemma per action; loads, closes, commits and rollbacks
are shared lemmas (`LoadFacts`, `CloseFacts`, `CommitInv`, `RollBackInv`), and
`FrameInv` says which parts an action of one session leaves alone in the others.

### Collector

`FilesInv` says that only the newest file can be at the path. `HandleInv` is why a
read never passes over lines: a handle that is of another file than the mark is
one that was opened by name after a rename, and then the mark's file is older
than the newest, so the next stat reopens. `FlushInv` says where drained lines are
at each point of the flush: out of the buffer, and on the stream before the save.
`RewriteInv` says that once os.stat has been asked since a truncation, a tail that
is past the end of the log shows in the stat in hand, and the read under way starts
over: so a log that grows back to the old length is either noticed first or
named by `rewritten`.

`RepeatsInv` bounds how often the endpoint gets one line by what may still come.
`Pending` counts the reads that will still take the line: one if the newest file
has it ahead of the tail (`Unread`), one more if a read is under way whose stat is
from before the newest file was created, because it takes that file for the old
one (`Again`), and one if that read still has it in an older file
(`LeftOver`). Copies in memory and pending reads together are at most one per file
(`Copies`), accepted copies, copies not yet on the stream and pending reads at
most one per file and fault (`Promised`). A read turns pending copies into copies in memory; a
new file raises the bound by one and the pending reads by no more; a fault puts
at most what is in memory on the stream once more, and a restart reads at most the
newest file again.

`OrderInv` says that, before a second file is created, what is behind the tail is
settled (accepted or lost) or in memory, that the memory is in turn, and that
nothing accepted has overtaken an earlier line that is not settled. A post takes
a prefix of the queue and a failed one puts it back in front, which keeps the
turn; a restart goes back to the saved mark, behind which `AtLeastOnce` has
settled everything. `Live` is why a log renamed while nobody has it open does not
count: its lines are never read. Both rest on `LinesInv`: files are in the order of
writing, and the stat of a read is no older than the tail.

### EventStream

`CycleInv` says what a consumer's batch is worth at each await: unscored but for
claimed entries until the commit, scored while it is acknowledged, and disjoint
from every other batch but for claims. With it every step is a step of
`AtLeastOnce` or stutters: `Commit` scores the batch, `Handle` with a poison event
spoils it, `Add` and trimming accept and drop, the rest changes nothing the
abstraction sees (`PipelineRefines`).

### SlidingWindow

A key expires two windows after its last increment, so a bucket's counter may be
gone. `FreshInv` says that it has at least those connections of the bucket that
are less than two windows old (`LastsInv`, the key lives that long), `UpperInv`
that it has no more than the bucket has been given, plus a fault each. `PartInv` is
the argument of `BurstIsFlagged`: of more than the limit in one bucket and within
one window, one is flagged or is still to be judged, because the last one to be
judged finds all of them counted and fresh, being at most `MaxLag` late. More than
twice the limit within a window fall in at most two buckets, so one has more than
the limit. The proof needs
`MaxLag <= Window`: a later one may find counters that have expired.

### RecordConnection

`Complete` is the heart: a capped set has the value of every connection that
opened, unless it is full or the connection is still on its way to the tracker, in
a consumer's hands or delivered again. `DueInv` says that whatever has reached a
threshold in Redis is flagged or will be judged by someone who hears it:
when all is processed nobody is left, hence flagged. `OvershootInv` counts the
consumers between a SCARD and its SADD: that is how far a cap may still be
overrun. `HostsInv` follows a consumer's count of hosts: it is no smaller
than the set was when the consumer began, or it is at least the cap; either way
a user who had too many hosts by then is not taken for a scanner. `CountInv` and `MembersInv` are the upper bounds that make
`FlaggedMeansOffence` true.

### LiveDevices

`SeenIsRecorded`, `StillPruned` and `SeenOrOutdated` say that the sorted set
between a consumer's two pipelines has what was seen in its window and nothing
else: ghosts need a set that another consumer has changed in between, missing
devices an event out of order. `OneAtATime` is what the exception "overlap" leaves.
`StatsOK` carries the count over to the verdict: it was exact when it was taken,
and the limit that is about to be read is among those in force since.

### Alerts

`DarkInv` is why nobody stays dark unannounced: as long as the account is off and
the admin has not been told, an event is owed (its batch was rolled back, and it
is still to be delivered), or a consumer stands between its call and its alert
(`Escalating`), unless the exceptions say otherwise. It does not ask who else has
the event in hand, what the row says, or whether a sweep or an admin is about to
switch the account, so it holds however these are interleaved. `SessionInv` and
the lock (`TypeOK`: only its holder has uncommitted rows) are why two batches do
not alert within a cooldown.

### Scoring

A session computes from its copy of the row what it will write over the committed
one, so the parts of `IInv` are each about the row with the committed entries and
about every copy with the entries its session would leave (`AllOf`).

* `EntriesOK`, `SessionsOK`, `ClockOK`: entries are numbered in the order they are
  made, only the lock's holder has written, and nothing is dated in the future.
* `ExplainedOK`: a row's score and a copy's are at most the points of the entries
  they go with. This needs no serial sessions: the entries that explain a stale
  copy are still there when it is written, as no entry is ever deleted.
* As long as no two sessions have been open at the same time (`SoloOK`), the copy
  is the row (`AloneOK`), a score is at least what its entries have decayed to
  and as recent as they are (`CoveredOK`), the latest device entry has the most
  devices of all and the points of all of them are what that many devices cost
  (`PricedOK`), and a bonus came after its gap if the events came in order
  (`GapsOK`). `scoring_lost` is what becomes of `CoveredOK` without this
  condition.

`NothingForgivenEarly` compares a score that is halved whenever it is touched with
entries that are halved one by one from their own time. `DecayInSteps` and
`DecayedScaled` say that 2^d times the entries' sum after d more ticks is at most
their sum before, and `Quotient` that the halved score is the largest number of
which this is true. The theorem is about all weights; the code's floating-point
score is described by those that are multiples of 2^MaxTime, where nothing is
rounded.

The sums are folds (`SumFunctionOnSet`) and the powers are those of `Integers`.
What the proofs need of them is an induction over a finite set, which
`FiniteInduction` states without an operator parameter and proves by a least
counterexample: the sum of a function is the number of its units (`SumAsCount`),
so that the theorems on cardinality apply to it, and 2^n is the number of subsets
of a set of n elements (`PowerIsCount`).

### What the proofs have corrected

Two properties that held in every reachable state of their runs turned out not to
follow, and were wrong: `SuspensionHasExpiry` with overlapping admin overrides,
and `ElevatedIsHeard` for a cooldown of zero. Both now name the case (see
Exceptions).

### Only model-checked

* Liveness and ENABLED, which the prover cannot do: `SuspensionEnds`,
  `SessionsClose`, `EventuallyAccepted`, and `AtLeastOnce!Promise`, so that
  `Implements` is proved but for that conjunct.

Every other property of the passing runs is a theorem: all their invariants and
the two action properties of `Enforcement`.

## Not modelled

The creation of a user's row (two consumers may both insert it: one batch fails
and is redelivered, which `EventStream` covers); the traffic poller and the
roll-ups, which write samples nothing reads back for a decision (a roll-up row is
written per batch, so a user, node and minute may have several, while
`docs/ARCHITECTURE.md:59` speaks of one); whether Telegram, webhook or shop
deliver an alert; read endpoints and statistics, authentication, configuration
loading, GeoIP, metrics, migrations and deployment. `PROJECT.json` gives the
reason for each. Scoring and Enforcement are not composed: their product is
beyond TLC, and the level, which is all that one tells the other, is any level in
Enforcement.

## Plan

Done: the core (policy, enforcement), the delivery path (collector, stream,
abstract promise), scoring, one connection through all trackers and detectors,
the alerts; and the proofs about all of these.

Next, in this order:

1. `Pipeline`: Collector, endpoint and EventStream composed, against one abstract
   promise from the log line to the committed score. What is proved of
   the two meets at the stream: a line in `accepted` of `Collector` is an event
   that `AtLeastOnce` has accepted.
2. The traffic poller.
