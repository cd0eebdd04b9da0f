# DrishtiAI: specifications, model checking and proofs

DrishtiAI reads number plates from the cameras of a site, keeps the events, and acts on them: it alerts on watchlists, opens and closes parking sessions, and opens gates. This directory holds TLA+ models of the parts whose correctness depends on the order of steps, the TLC configurations that check them on small instances, and TLAPS proofs of their main invariants for instances of any size.

In this text P is `apps/pipeline/src/drishtiai_pipeline/`, A is `apps/api/src/drishtiai_api/`, L is `packages/licensing/src/drishtiai_licensing/`, W is `apps/worker/src/drishtiai_worker/`, M is `packages/shared-python/src/drishtiai_shared/models/`.

## 1. The system

Four kinds of process share PostgreSQL, Redis and MinIO:

- the **pipeline** (P): one daemon thread per camera, each with a health-reporter thread and, with GStreamer, a capture thread. A camera thread and its reporter share one SQLAlchemy session.
- the **API** (A): FastAPI on one event loop. A handler that does not `await` runs from its SELECT to its COMMIT without another handler in between; the pipeline and the worker are other processes and do run in between.
- the **worker** (W): Celery tasks for retention, reports and exports.
- the **admin panel**: Django over the same tables.

No lock spans two stores or two processes. What the parts know of each other goes through rows, Redis keys with a time to live, Redis channels, and one file (the clock guard of the licence).

### Inventory

| Component | State | Operations | Hard behaviour | What makes it correct | Model |
|---|---|---|---|---|---|
| Camera pipeline (P `main voter dedup writer review_queue alert_engine`) | voter tracks, dedup memory, the thread's DB session; `events`, `plates`, `review_queue`, `alerts` | frame, expiry, confidence routing, event write, watchlist check, push and webhooks, flush at shutdown | failed commits without rollback, a second thread committing the same session, restart, SIGTERM in mid-read | no read counts twice, events are spaced, announced alerts exist, matches are alerted, no pass is lost on an orderly stop | `CameraPipeline` |
| Parking sessions (P `parking_session`, A `routers/parking`) | `parking_sessions`, one Redis key per plate | entry read, exit read, manual close, mark paid, waive | two stores without a transaction, two writers of a row, key expiry, crash | one open stay per plate, every open stay reachable, bills add up, exits close | `ParkingSession`, `ParkingLedger` |
| Tariffs (A `routers/tariffs`, `_compute_charge`) | `tariffs` | charge a duration; create, patch, delete | boundaries of grace, tiers, started hours, cap | a longer stay costs no less | `Tariff` |
| Gate control (P `gate`, A `routers/gates`, `visitor_passes`, `gate_creds`) | `gate_controllers`, `gate_rules`, `gate_trigger_logs`, `visitor_passes` | evaluate rules, pulse, log, consume a pass; CRUD; manual trigger | relay calls of seconds between SELECT and COMMIT, edits meanwhile, ORM rows expired by a commit | single use, used means opened, every attempt logged, all matching rules fire | `GateControl` |
| Licensing (L, A `routers/license`, `apps/licensing/cli`) | token file, clock guard file, per process state and claims | issue, install, start (evaluate, check clock, rewrite guard) | two processes rewrite one file without a lock, crash in between, clock set back, renewal | no refusal without a cause, severity follows time, terms follow the state | `License` |
| Watchlists (A `routers/watchlists`) | `watchlists`, `watchlist_entries` | CRUD, bulk import | edited while a thread walks the lists | (with the pipeline) | in `CameraPipeline` |
| Camera health (P `health`, A `routers/cameras`) | heartbeat key (30 s), `cameras.health_status`, the session shared with the camera thread | report, mark offline, start, shutdown, kill | reporter in mid-report when the camera stops, failing database, silence seen by age | the key follows the frames, the row follows the key, the key of a stopped camera lapses | `CameraHealth` |
| Capture (P `capture`, `gst_capture`) | stream handle, bounded queue, errors in a row | read, sample, back off, reconnect, release | stalls, failing builds, bus messages, a sleeping thread that is told to stop | a stream that is up is read again, a released camera is not read | `StreamCapture` |
| OCR (P `ocr`, `color_detect`) | none | detect, read, normalise, filter | — | — | not modelled |
| Accounts: login (A `routers/auth mfa`, `auth/lockout totp`) | `users.mfa_secret totp_enabled`, Redis counter, lock and set-up keys | login with lock-out and second factor; set up, confirm and disable the latter | an await at every Redis call, INCR and EXPIRE apart, a row read before the await | lock follows the counter, nobody passes a lock, secret and flag agree | `Login` |
| Accounts: sessions (A `routers/auth users`, `deps`, `auth/tokens`) | `users.role is_active`, `refresh_token_hashes`, denylist | login's grant, refresh, logout, any call, create, patch, deactivate | awaits between the denylist and the row, seconds at a token's end, two administrators | one live refresh token per login, logout is immediate, some administrator remains | `Sessions` |
| Alert lifecycle (A `routers/alerts`) | `alerts.status` | list by pages, ack, snooze, resolve | pages walked while rows come and go, equal timestamps | a walk shows every alert once | `OperatorDesk` (creation: `CameraPipeline`) |
| Review queue (A `routers/review_queue`) | `review_queue.status`, correction files | list, patch | file before commit, either may fail | label and row agree | `OperatorDesk` (creation: `CameraPipeline`) |
| Webhooks (A `routers/webhooks`, P `webhook_fire`) | `webhooks` with the code of the last delivery | create, patch, delete, test, deliver | a commit per delivery expires the rows of the loop, edits and deletions meanwhile | every subscriber is reached, operators' edits stay | `OperatorDesk` |
| Push (A `routers/notifications`, P `alert_engine`) | token sets in Redis | push, register | after the commit of the alert | (with the pipeline) | delivery only |
| Partitions (A `partition_manager`, `routers/system`) | monthly partitions of `events` | ensure, list, drop | made at API starts only, rows in the default partition, rows that are referred to | this month has a home, references resolve | `EventStore` |
| Retention (W `celery_app`, `tasks/retention scheduled`) | policies, queue of jobs, objects in MinIO | upsert policy, purge; a nightly dispatch that fails as written (section 5) | SET NULL on sessions, jobs lost, repeated or late, policy changed meanwhile | nothing but retention reopens a stay | `EventStore` |
| Reports, exports (W `tasks/reports export`, A `routers/reports`) | report objects | daily and monthly report, files; a nightly dispatch that fails as written (section 5) | a report beside the night's purge, a job lost, repeated or late, half-open ranges in several places | a report counts its whole day once | `EventStore` |
| Read-only API, live updates, audit log, API shell, clients, deployment, ML | appended audit rows | queries, rendering, relaying | — | — | not modelled: no state that decides anything |

### How they interact

`voter` → `on_consensus` in the camera thread: confidence bands, `dedup`, `write_plate_event` (commit), `check_and_fire` (flush, publish, commit, push, webhooks), `on_plate_read` (Redis and DB), `evaluate_and_trigger` (relay, commit). One exception ends the chain for that read and leaves the session as it is. A webhook delivery commits the same session in the middle of `check_and_fire`, the reporter from another thread. The API edits the rows each link reads. Jobs in two queues make the worker purge rows that alerts, sessions and reports refer to; Beat is meant to put one per site there at night. The licence state, fixed at the start of a process, switches gate automation off.

## 2. Modules

| Module | Models | State ↔ code | Actions ↔ code |
|---|---|---|---|
| `CameraPipeline` | P `main`, `voter`, `dedup`, `writer`, `review_queue`, `alert_engine`; the commits of `health` | `track` = `PlateVoter._tracks`, `lastSeen` = `PlateDeduplicator._last_seen`, `pc/todo/cur/lists/hit` = the call stack of the thread, `broken/pending` = its SQLAlchemy session, `events alerts reviews plateRows live watch` = tables | one action per call that touches a store: `Frame`, `Discard/QueueReview/Suppress/Accept`, `SelectPlate`, `WriteEvent`, `LoadLists`, `CheckList`, `FireAlert`, `ListsDone`, `CommitAlerts`, `Notify`, `HandOver`; `HealthCommit`, `LeaveLoop`, `Die`, `Restart`, list edits |
| `ParkingSession` | P `parking_session`, A `routers/parking` | `row` = `parking_sessions`, `key` = `parking:open:{site}:{plate}`, `cam` = the thread's progress with the row object it loaded, `desk` = the request in progress | `OpenCheck/OpenCommit/OpenStore`, `CloseFetch/CloseLoad/CloseCommit/CloseDelete/CloseMissing`, `DeskClose/DeskPaid/DeskWaive/DeskCommit`, `RedisFails`, `DatabaseFails`, `DeskFails` (a call that raises, at every stage); `TariffChange`, `DeleteSite`, `Crash`, `Restart`, `Tick` |
| `ParkingLedger` | what parking promises: enter, leave, forget | `open`, `done` | abstract |
| `Tariff` | `_compute_charge`, of which there are two copies | — | operators; `ParkingSession_proofs` proves about them and puts them in the place of the constant `Charge` |
| `GateControl` | P `gate`, A `routers/gates`, `visitor_passes`, `gate_creds` | `pass rule ctrl logged` = tables, `thread` = the evaluation in progress with the rules it loaded, `manual` = the manual trigger; observed: attempts, openings under a pass (`opens`), openings by a call that raised (`unheard`), openings by hand without a record (`refused`) | `LoadRules`, `EvalRule`, `PulseRelay`, `LogTrigger`, `EvalDone`, `QueryFails`; `HealthCommit`; CRUD actions; `ManualStart/Pulse/Log` (the `await` splits them); `Restart` |
| `License` | L, the CLI's issue | `token`, `guard` = the two files (`Torn`: does not parse), `proc` = where each process is in `initialize` and its singleton | `Start`, `Check`, `Truncate`, `Fill`, `Stop`; `Issue`, `InstallToken`, `SpoilToken`, `LoseGuard`, `SwapPart`, `Tick`, `StepBack` |
| `Accounts` | what the next two share: the accounts and the requests that may be in progress | — | — |
| `Login` | A `routers/auth` (login), `routers/mfa`, `auth/lockout`, `auth/totp` | `account` = the row, `failures windowed lock setup` = the Redis keys and their times to live, `req` = requests where they await, with the row they read | `LoginStart`, `CheckLock`, `CountFailure`, `SetWindow`, `SetLock`, `ClearCounters`; `ConfirmStart` to its commit; `MfaSetup`, `MfaDisable`; `Abort` (a Redis error or the end of the process); keys that lapse |
| `Sessions` | A `routers/auth` (grant, refresh, logout), `routers/users`, `deps` | `user` = rows, `pairs` = tokens with row and denylist entry, `calls` = requests where they await | `LoginRead/LoginGrant`, `Refresh`, `Present`, `CheckDeny`, `LogoutDeny/LogoutRevoke`, `CreateUser`, `PatchUser`, `DeactivateUser`; `CallDies` (as `Abort`); `GrowOld`, `DenyLapses` |
| `OperatorDesk` | A `routers/alerts webhooks review_queue`, P `webhook_fire` | `alerts hook item` = tables, `cam` = a delivery with the rows it holds, `test` = the awaited test, `walk` = an operator's cursor, `file` = correction files | `RaiseBegin/RaiseCommit`, `Visit`, `Record`, `Leave`, `HealthCommit`; CRUD of webhooks; `TestStart/TestRecord`; `SetStatus`; `WalkStart/WalkPage`; `Review` |
| `StreamCapture` | P `capture`, `gst_capture` | `src` = the capture thread or the open handle, `queued` = the queue | builds, pulls, errors, `Reconnect`, OpenCV's reads, `AskStop` |
| `CameraHealth` | P `health`, `main.process_camera`; composes `StreamCapture` | `cam rep` = the two threads, `session` = theirs, `last` = age of the last frame, `beat row` = key and row | `CamFrame` … `CamClose`, `RepWake` … `RepTell`, `Start`, `Shutdown`, `Exit`, `Kill`, `Tick` |
| `EventStore` | A `partition_manager`, `routers/system reports analytics` (in part), W all tasks | `parts` = partitions, `ev alert stay snaps` = rows and objects, `queue work report` = Celery's jobs and their results | `Write`, `EnsurePartitions`, `DropOldPartitions`, `UpsertPolicy`, `SendReport/SendRetention`, `TakeReport/StoreReport`, `TakeRetention/Purge`, `JobIgnored`, `JobFails`, `Crash`, `NextDay`; the files as operators |
| `MC*` | finite instances | | |
| `*_proofs` | theorems and proofs, one module per component; `Accounts_proofs` is about `Login` and `Sessions` both, which is why the latter's specification is called `SessionsSpec` | | |

Three conventions. An ORM row object is what it was when it was loaded, and its UPDATE writes only the columns that changed (`Merge` in `ParkingSession`); a commit expires it, so the next attribute access reads the row again (`Snapshot` in `GateControl`). A failed flush or commit leaves the session unusable until a rollback, and `on_consensus` issues none (`poisoned`, `broken`): after a failing commit a camera thread reads plates and records nothing until the process is started again. Any call to PostgreSQL, Redis, the object store or a relay may raise, and a commit or a call that raises may have taken effect all the same. History variables, marked as observations, are read by no guard except the bounds that the constants name (`MaxReads`, `MaxManual`, `MaxSeen`, `MaxJobs`) and the freshness of an id.

`ParkingSession` and `GateControl` are composed with `CameraPipeline` at one point only: the hand-over of a stored event (`HandOver`), after which the thread is theirs. `OperatorDesk` begins where `FireAlert` ends: it takes the alerts of a read as one transaction. `EventStore` takes a read, its alert and its stay as one step (`Write`), for nothing in it depends on what lies between. They are checked apart because the stages of one thread never overlap; a camera's reads arrive in either as freely as the pipeline could deliver them, without the spacing `EventsAreSpaced` would allow them to assume.

The API's handlers run on one event loop: between two awaits a handler is one action, and what it read before an await it keeps as it was.

Some properties are conjunctions of named parts, each of which has its own comment. Definitions whose names start with `Bug` are variants of the definition after them with one plausible mistake. No specification uses them: they serve to see each property fail.

## 3. What the runs check

The "violation" run shows a place where the program does not do what a comment says of it; section 5 lists the other such places with the constants that show them.

| Run | Instance | Question and result |
|---|---|---|
| `parking_single_lane` | 1 entry, 1 exit, 1 plate, 2 sessions, payments, tariff changes, site deletion, no failing calls, clock 0–2, key lives 5 | Does the two-store protocol work where it is meant to? `OneReachableStay`, `BillsAreRight`, `ExitReadNotLost`, refinement `ImplementsLedger`, liveness `ExitClosesSession`: all hold |
| `parking_lanes` | 2 entries, 1 exit, 2 plates, 2 sessions, desk closing and waiving, crashes and restarts, every Redis and database call may fail, keys that expire after one tick | What survives everything? `KeyNamesOwnSession`, `DecisionsStand`, `ExitEndsClosed` (a thread that found an open session does not get back to its frames with it open) hold |
| `parking_two_entries` | 2 entries, 1 plate | *Violation* of `AtMostOneOpenStay`: both threads pass the EXISTS before either sets the key |
| `gate_one_lane` | 1 camera, 2 rules (any plate; a valid pass), 1 pass, 1 controller, patches, manual opening; relay calls that fail, or act and raise; failing queries and commits, the reporter's commits | `SingleUseOnce`, `RulesAreServed` hold |
| `gate_deletions` | 2 cameras, 2 rules, deletions of everything, relay calls as above, restart | `UsedMeansOpened` and, fairly, `EvaluationEnds` hold |
| `pipeline_reads` | 1 camera, 1 text, 1 list, three confidence bands, 2 failures, 1 restart, list edits, clock 2–5 | `NoReadCountsTwice`, `EventsAreSpaced`, `AlertsAreStored`, `NoPassLostOnStop`, and fairly `TracksEnd`: all hold |
| `license_starts` | 2 processes, 1 licence, hardware swap, clock corrections of 1 and 2 with a threshold of 1 | `RefusedForCause`, `LaterStartIsNoMilder` hold |
| `login_lockout` | 1 account, 2 requests at once, 2 secrets, locks at 2 and 4 failures | `LockoutHolds` (lock against counter, counter against its window), `NoLoginPastLock`, `SecretMeansEnabled` hold, each with the exceptions its comment names |
| `sessions` | 2 accounts of which one is to be created, 2 requests at once, 2 token pairs | `TokensFollowTheirLogin`, `LogoutIsImmediate`, `AccountsAreMinded` hold |
| `desk` | 2 cameras, 2 webhooks, 1 item, 3 alerts, pages of 1 | `EverySubscriberIsReached`, `WalkIsExact`, `LabelMatchesRow`, `OperatorsOwnTheirWebhooks` hold |
| `cameras` | 1 camera with either back end, key of 3 ticks, reports every tick | `StatusIsTruthful`, `StreamIsReleased`, and fairly `StreamRecovers`, `StoppedHeartbeatLapses` hold |
| `storage` | 2 reads, 2 workers, 4 days in months of 2, one policy, two jobs that are sent at any time and again, discarded, failing, lost or delivered twice | `RowsStayWhole`, `ReportsAreRight`, `RangesAddUp` hold |

### Bounds, and why they are enough

- **Two sessions, two rules, two processes.** Every race in the code is between two steps of two actors on one row, key or file; a third copy repeats the pair. The properties quantify over pairs.
- **Parking clock.** A tick is an abstract unit: keys either outlive the bound (single lane, as a stay shorter than 24 h) or expire within it (lanes). In `MCParking` a stay of d ticks lasts 20 + 45·d minutes, so ticks 0, 1, 2 reach the flat tier, the hourly tier and its second started hour. The grace period is below the shortest of them; `ComputeCharge` covers it but this instance does not bill a stay inside it.
- **Gate.** One plate with one pass is the unit of the single-use question; two rules of different priority on one controller are an open one and one for visitors; no instance has a watchlist rule, which the theorems, for all `RuleForms` and `Listed`, include; `MaxReads = 2` gives the second read that a pass used twice needs; one tick lets a pass become valid, and run out, during a relay call.
- **Pipeline.** `MinReads = 2`, `ExitGap = 1`, `Window = 2`, four reads: two complete passes of a plate within and outside the dedup window. Two failures hit any two calls; one restart separates two processes. Confidences 3, 5, 8 stand for the three bands around 4 and 7.
- **Licence.** The terms pass through valid, warning, grace and expired at ticks 0 to 3; a correction by 1 is below the threshold and by 2 above it; two corrections by 1 add up to more than the threshold, which is why the observation `jumped` compares the clock with its furthest value.
- **Login.** Two requests are every pair of overlapping ones; a third would only put a second stale writer beside the first. Four failures reach both locks and a milder one set after a harder one. Windows and locks lapse at any moment, which is more than time allows.
- **Sessions.** Two pairs are a login and its refresh, or two logins. A token is live, in its last second, or expired; the clock may move at any moment.
- **Desk.** Two webhooks give a loop a row before and after the one that is deleted; three alerts in transactions of one or two over pages of one give a tie across a page's end. The run explores the states in which at most two of the three concerns of the desk (deliveries, the list, the review) are under way (`MCOneConcern`): they share only the table `alerts`, to which a delivery's transaction appends before the delivery begins, so no step of one reads what a step of the other writes.
- **Cameras.** A tick is ten seconds: reports and recognition come every tick, the key lives three, a camera is silent after two. Waits of five seconds are rounded up to one tick. Steps other than sleeps, waits for frames and recognition take no tick.
- **Storage.** A month of two days has a first, a last and a boundary; four days reach the month after the next, which `Ahead = 1` covers from a start in the month before only. Two jobs (`MaxJobs`) on two workers are every overlap of a report with the purge, and of a report with its own second delivery.

Counters are bounded by guards (`MaxTime`, `MaxReads`, `MaxManual`, `MaxSeen`, `MaxFails`, `MaxBoots`, `MaxJobs`); deadlock is not checked because every instance stops when its bounds are used up. Symmetry is used only in runs without liveness.

### Fairness

- Parking: weak fairness of each camera thread's step and of the desk's commit. Nothing in `on_plate_read` waits for another party.
- Gate: weak fairness of a thread in an evaluation. Relay calls have a timeout of five seconds.
- Pipeline: weak fairness of frames, of the thread's steps, and of time. That a stream or the recogniser raises, which also ends a thread's loop, is not part of it. `TracksEnd` needs the frames: a track is looked at only when one arrives. A stream that stalls for ever is outside the claim (section 5).
- Cameras: weak fairness of time, of the threads' steps and of the capture's; strong fairness of reads from a stream that is up, because a stream may be up and down and up again and a frame is then read now and then. `StreamRecovers` is about a stream that stays up from some time on, and a capture thread that is alive.
- Accounts, desk and storage: safety only; nothing is assumed.
- Licensing: nothing must eventually happen, and nothing is assumed.

## 4. What is proved

All theorems are for any values of the constants that satisfy the modules' named assumptions, which say that bounds are numbers, that placeholders such as `None` are no values, that thresholds and calendars make sense, and that rules, cameras (`GateAssumption`) and events (`StoreAssumption`) are finitely many, which what counts them needs. `HealthAssumption` asks that release() waits at all: with a `ReleaseTimeout` of zero TLC finds a camera thread that is through before the capture thread has seen the event, and `StreamIsReleased` fails; gst_capture.py:157 waits five seconds. TLC evaluates those assumptions for every instance. TLC checked the inductive invariants on small instances before they were proved.

| Theorem | Statement | Assumption beyond the module's | Argument |
|---|---|---|---|
| `ParkingSession_proofs!TypeCorrect` | `[]TypeOK` | — | `TypeInv`: adds that no stored time is ahead of the clock (else a duration could be negative) and that writers hold rows that keep their plate |
| `KeysNameSessions` | `[]KeyNamesOwnSession` | — | `KeyInv`: also the threads between commit and SETEX, or holding a fetched key, name a committed row of their plate |
| `OneOpenStay` | `[]OneReachableStay`, that is `AtMostOneOpenStay` and `OpenStayIsTracked` | `SingleLane` | `LaneInv`: a lane that has checked finds the key absent, an exit that has fetched finds it unchanged. Neither property is inductive by itself: a second session is excluded by knowing where the first is named |
| `ExitReadsCount` | `ExitReadNotLost` | `SingleLane` | from `LaneInv` |
| `ExitsClose` | `ExitEndsClosed` | — | `HeldInv`: while the site is there, the session an exit thread holds is a row, has its exit once the thread has committed, and still has one it was loaded with; `HoldingEnds`: a thread that gets back to its frames with a session in hand comes from its DELETE, done or failed, and one whose SELECT, UPDATE or commit fails does not get back. `RowStays`: nobody else takes an exit back, which follows from `WritersDecide` |
| `ImplementsTheLedger` | `ImplementsLedger` | `SingleLane` | `OpenCommit` maps to Enter, `CloseCommit` to Leave, `DeleteSite` to Forget, all else to stuttering |
| `DecisionsAreKept` | `DecisionsStand` | — | `WritersDecide`: an exit camera's copy of a row has an exit and the payment it was read with, the desk's the exit it was read with and a payment only if it decides one; so `Merge`, which writes what differs, takes back neither |
| `BillsMatch` | `[]BillMatchesDuration` | `OneBiller`: one exit camera, a desk that does not close, and takes payments or waives but not both | `BillInv`: what the camera has in hand is a bill of its own columns, the columns it compares with are still the row's, and the desk touches an amount only to waive it. The bill alone is not inductive: a camera that writes only what differs would else leave an old amount beside a new duration |
| `BillsHold` | `[]BillsAreRight` | also `ChargeGrows`: the charge, which `ParkingSession` leaves open, is no less for a longer time | `BillsMatch` with two stays |
| `LongerChargeNoLess` | `d <= e` gives `ComputeCharge(d, t) <= ComputeCharge(e, t)` | `t` in `Rules`: amounts and limits are natural numbers, in any order | each tier adds no less for a longer time (`TierGrows`), a longer time reaches every tier a shorter one does (`ReachGrows`), and the charge is the sum over the tiers reached (`ChargeIsSum`), in whatever order they are taken (`AnyFirst`), so `SumGrows` compares the two sums part by part |
| `TariffBillsHold` | `[]BillsAreRight` | `OneBiller`; the charge is `ComputeCharge` of a number of seconds that grows with the clock | `LongerChargeNoLess` gives `ChargeGrows` |
| `GateControl_proofs!TypeCorrect` | `[]TypeOK` | — | |
| `UsedHasOpened` | `[]UsedMeansOpened` | — | `OpenedFirst`: a thread about to mark a pass has counted its pulse |
| `OneOpeningPerPass` | `SingleUseOnce` | `OneLane`: one camera, no restart, no controller deleted | `OnceInv`: once a call for it has returned, a pass is used, or about to be, or its thread is lost with its session, and a thread that pulses for it does so before; `CtrlThere`: the controller of the call is still there when the pass is marked. Which queries and commits fail, and whether a call that raised had opened, is left open |
| `RulesAreServedAndLogged` | `[]RulesAreServed` | nothing is deleted, no restart | `Accounted`: per controller, attempts are the logged ones, those by hand that ended in an error, the threads between pulse and log and the manual opening there, a count over the set of cameras, and at most one more for each thread that a failing commit cost (`Lost`); `ServeInv`: the rules an evaluation owes are ahead of it and the copies it decides on are the rows. Without the first the log could lag by more than the threads explain, without the second a rule could be passed over by an old copy |
| `CameraPipeline_proofs!TypeCorrect` | `[]TypeOK` | — | `Control`, `TracksAreFresh`: which stage holds a read, and that tracks hold the last reads |
| `ReadsCountOnce` | `[]NoReadCountsTwice` | — | `Backing`: stored, queued, worked and tracked reads are pairwise apart |
| `EventsSpaced` | `[]EventsAreSpaced` | — | `Spacing`: the dedup memory is at least as new as any event of this process |
| `PushedIsDurable`, `MatchesAreAlerted`, `AlertsStored` | `[]PushedAlertIsStored`, `[]MatchIsAlerted`, and both, `[]AlertsAreStored` | — | `Pushing`, `Owing`: per stage, what is flushed, stored or still owed; another thread's step touches none of it |
| `NoPassIsLost` | `NoPassLostOnStop` | — | the step of a track's disappearance |
| `License_proofs!TypeCorrect`, `RefusalHasCause`, `TermsFollowState`, `SeverityFollowsTime` | `[]TypeOK`, `[]RefusedForCause`, `[]NoTermsWhenInvalid`, `[]LaterStartIsNoMilder` | — | `Inv`: no guard is dated later than the clock has been, files and verdicts are of installed licences, a verdict with claims is `StateOf` of what the process saw; `SeverityMonotone` for the order of states over time |
| `Accounts_proofs!TokensFollow` | `[]TokensFollowTheirLogin` | — | `SessionsInv`: adds `OneOwner`, the pairs of one login have one owner, so the logout that revokes by owner reaches every pair of the login |
| `LogoutIsNow` | `[]LogoutIsImmediate` | — | `QuitIsDenied` in `SessionsInv`: while an access token is live, a logout with it stands on the denylist, so a request that comes later never passes the check |
| `AccountsMinded` | `AccountsAreMinded` | — | one case per action: who grants a pair, and who can take the last administrator away |
| `KeysFitEachOther` | `[]LockoutHolds` | — | `LoginsAreSound`: a request has a count only after its INCR, and one that calls for a lock before SETEX |
| `NobodyPassesALock` | `[]NoLoginPastLock` | — | the same: a request that came under a lock stands before the check, and the lock still stands |
| `SecretAndFlagAgree` | `[]SecretMeansEnabled` | — | `ConfirmsAreFresh`: the columns a confirmation will leave out of its UPDATE are as it has read them, unless a disabling came in between |
| `CameraHealth_proofs!StatusHolds` | `[]StatusIsTruthful` | — | `AnswerIsFresh`: what a reporter has in hand between its look at the clock and its SETEX is no older than the report, for a report takes no tick; `ReportsAreSound`: each stage of a report still finds what the one before it wrote, and a completed one leaves the key longer to live than the sleep to come. Without the first a key could be set for a camera that has been silent, without the second key and row could part while the reporter sleeps |
| `StreamReleased` | `[]StreamIsReleased` | — | `ReleaseInv`: a camera thread that waits in release() has asked the capture to stop, and a tick of that wait passes only when the capture has seen it or is asleep. What was asked to stop never opens a stream again |
| `OperatorDesk_proofs!SubscribersAreReached` | `[]EverySubscriberIsReached` | — | `LoopsAreSound`: the subscribers still to be reached are among the rows still to be visited, and subscribe in the row or copy the loop will look at |
| `PagesAreExact` | `[]WalkIsExact` | — | `WalkIsSound`: alerts that are on no page yet are older than the cursor, those shown are not; a page is cut by a sort, whose last row is its oldest |
| `LabelsMatch` | `[]LabelMatchesRow` | — | inductive as it stands |
| `RecordsKeepToTheirColumn` | `OperatorsOwnTheirWebhooks` | — | one case per action: a record changes the code of a row that is there |
| `EventStore_proofs!RowsAreWhole` | `[]RowsStayWhole` | — | `RowsAreKnown` (a row that is gone was old enough), `ExitIsKnown`, `MonthsInv` (every month made in advance, not only the current one), `RetentionInv` (no purge under way keeps less than the shortest retention there was) |
| `ReportsAreSound` | `[]ReportsAreRight` | — | `RunIsRight`: the first count of a report begun when its day was over was right or late, and is not below what the second one can find; a job that is sent twice, overtaken, fails or is lost can only leave the report that was there |
| `RangesTile` | `[]RangesAddUp` | — | `MonthsTile`: the rows and alerts of a month are those of its days, each of one day only, which is arithmetic of `MonthOf` and `MonthRange`; `SizesAddUp`: sizes of sets that have nothing in common add up to the size of their union, with which the fold over the days is the month's count |

The assumptions `SingleLane` (one entry, one exit, no crash, no failing call, keys that outlive a stay), one lane, `OneBiller` and nothing deleted are not conveniences: `parking_two_entries` and section 5 show the properties fail without them. `NoTermsWhenInvalid` is proved and no run is spent on it.

The proof of `RowsAreWhole` corrected its property. `CurrentMonthReady` excused a missing partition by a row that lies in the default one; `MonthsInv` was not inductive under `PurgeRows`, and TLC confirms it on a longer calendar: retention may take that row while the month is still current, and nothing makes the month's partition until the API starts again. The property now speaks of rows that have gone to the default partition, whether they are still there or not.

The sums (`LongerChargeNoLess`, `RangesTile`) are folds, and the library's theorems on folds and induction take an operator as a parameter, which the provers cannot instantiate. Both proofs go around it by well-foundedness: of the parts of a finite set on which a statement failed, one would be smallest (`WFMin`, a theorem about sets), and without one element it would hold. So the lemmas on sums speak of functions on the subsets of a set (`IsSum`), of which the fold is one and, by `SumIsUnique`, the only one.

`LongerChargeNoLess` says more than the model was first thought to allow: tiers may be in any order and charge less than those before them, as an operator may write them, because a tier's amount is added to what the earlier ones have charged. Only a negative amount could make a longer stay cheaper, and `Rules` has none; routers/tariffs.py does not look into `rules_json`. An hourly tier without `max_per_day` is one whose cap no stay in question reaches.

Only model-checked is liveness (`ExitClosesSession`, `EvaluationEnds`, `TracksEnd`, `StreamRecovers`, `StoppedHeartbeatLapses`), because the prover handles neither fairness nor ENABLED. Every invariant and action property of the passing runs, and the refinement, is proved.

## 5. Known deviations

What the models show or make visible beyond the violation run, and how the properties are stated because of it. Where a definition is named, it stands in the module, and the constants given in parentheses, in the cfg of the component's run, make TLC show the violation.

Statements of the documentation that the code does not keep:

- `DeskCloseEndsStay` (`DeskOps = {"close"}`): a manual close sets duration, snapshot and amount but no exit event, which is what parking.py:156 and :179 test, so the session stays listed as active and can be closed again. parking.py:178 says "Manually close an open session (e.g. exit camera missed the plate)."
- `PipelineSurvivesGate` (`gate_one_lane.cfg` with `INVARIANTS PipelineSurvivesGate`; or without failing calls, `DbFails = FALSE`, `Ops = {"pass", "cancel"}`, `RuleForms <- VisitorForms`): a commit that fails at gate.py:286, because PostgreSQL does or because the pass was cancelled during the relay call, is swallowed by main.py:122 without a rollback, and every later statement of the thread fails, reads of other plates included. A commit of the reporter that fails on the shared session (health.py:116) does the same. docs/architecture.md:256 says "Gate failure is always swallowed".
- `AutomationOpens` (`KeySet = TRUE`, `RuleForms <- OpenForms`): with `GATE_CREDENTIAL_KEY` set, as install.sh:165 does, the API stores sealed credentials and the pipeline sends them sealed (gate.py:57, :82); the manual trigger opens them first. gate.py:207 says "all matching rules fire".
- `OneVehicleOneEvent` (`Texts = {t1, t2}`, `Vehicle <- Misread`): tracks are keyed by the text, so a misread is a track of its own and is never outvoted (voter.py:113). CHANGELOG.md:367 says the voter "emits majority-vote consensus when plate exits".
- `RenewalIsAccepted` (`Ids = {i1, i2}`, `Backs = {}`): a renewed licence has a new id, the guard the old one signed does not verify, and every start is refused until somebody removes the file. clock_guard.py:8-9 says "the guard resets automatically when a new license is issued".
- `OldSnapshotsAreFound` (`storage.cfg` as it is): the retention lists the snapshots under `{site_id}/` (retention.py:88), the pipeline writes them under `plates/` (writer.py:91); none is ever deleted, although retention.py:8 says "list + delete objects from MinIO snapshots bucket".
- The nightly fan-out cannot work. Both of its tasks select `sites.is_active` (scheduled.py:25), which no migration and no model has, and raise; besides, `autodiscover_tasks(["drishtiai_worker.tasks"])` (celery_app.py:40) looks for a module `drishtiai_worker.tasks.tasks`, which does not exist, so a worker started with the application alone has no task registered. docs/architecture.md:196 lists the two tasks as "Beat fan-out", and docs/installer-guide.md:459 tells to call one for "immediate retention enforcement for all sites". reports.py:9 schedules by `date=`, where the parameter is called `date_str`. `EventStore` therefore takes the calls of the tasks from outside (`SendReport`, `SendRetention`), for any day and at any time, and lets any job be discarded (`JobIgnored`); what is checked and proved is what the tasks do when something does call them.
- No job is certain. celery_app.py:17 sets `task_acks_late` and no `task_reject_on_worker_lost`: a job whose task raises, or whose pool process dies, is acknowledged and not tried again (docs/qa-notes.md:276 says so of failures; `JobFails`); only the death of the whole worker brings it back (`Crash`). `ReportsAreRight` is about the reports that were stored, and nothing is claimed of those that were not.

The pipeline, parking, gates and licence:

1. A waiver that commits between an exit camera's SELECT and UPDATE keeps its status but the charge comes back (`WaivedOwesNothing` fails with an exit lane and the desk).
2. A manual close that overlaps an exit read mixes the columns of two bills; `BillMatchesDuration` is checked for one biller.
3. A crash between a session's commit and its SETEX, or a SETEX that raises (parking_session.py:121, swallowed by main.py:122), leaves an open row no key names; the car's exit finds no session. `SingleLane` excludes both. An exit whose SELECT, UPDATE or commit fails (parking_session.py:183) leaves the session open and its thread unusable; one whose DELETE fails (:185) leaves the key of a closed session, and the car's next entry is taken for a repeat until the key expires. `ExitEndsClosed` is stated around the first and holds with the second; `ExitReadNotLost` and `ExitClosesSession` are checked without failing calls.
4. After 24 h the key expires while the car may be inside; its exit read is dropped.
5. Two lanes that read the holder of a single-use pass within one relay call both open. So does one lane whose relay opens and then times out or breaks the connection: gate.py:264 takes every exception for a failure, the pass is kept (gate.py:272) and the next read of the plate opens again. `SingleUseOnce` counts from the first call that returned. A controller deleted while its pulse is under way, after a commit of the reporter has expired the objects, leaves the pass unmarked as well; `OneLane` excludes it.
6. Deleting a controller deletes its trigger log (`ON DELETE CASCADE`), which docs/architecture.md:159 calls "Immutable trigger audit trail"; a deletion between pulse and commit also loses that log row. `EveryAttemptLogged` is checked without deletions; a commit that fails loses the row of its attempt and with it the thread, so there is at most one such row for each thread, and a manual opening without a row is one whose request ended in an error.
7. A rule deleted during a relay call raises when the loop comes to it, and the rules behind it do not fire (gate.py:207 "all matching rules fire").
8. The deduplicator marks a plate before its event is written (dedup.py:17): after a failed write the next pass within the window is suppressed.
9. An alert is published on Redis before it is committed (alert_engine.py:134); only push and webhooks come after the commit. `PushedAlertIsStored` is about those.
10. Two cameras that see a new plate together insert two `plates` rows; the column is not unique.
11. The last vehicle before a stream stalls is emitted when the stream resumes, or not at all if the process is killed first.
12. The licence is evaluated when a process starts and never again, although verifier.py:2 speaks of "a daily timer".
13. A token file that is not UTF-8 raises `UnicodeDecodeError` out of `evaluate_state`, which says it never raises.
14. clock_guard.py:12-13 says deleting the guard "counts as a rollback by design — the next write will re-anchor"; of the two, `check_and_update` does the second: it writes a new guard and refuses nobody (`LoseGuard`).

Accounts:

15. Each failure sets the lock its own count calls for, so a slower request replaces a longer lock by a milder one (lockout.py:33). `LockMatchesCount` excuses it by an observation.
16. A process that dies between INCR and EXPIRE leaves a counter without end (lockout.py:27-29).
17. A login that was past the check when a lock was set clears it on success (auth.py:108); it also goes on with the row it read when the account is deactivated meanwhile.
18. A confirmation of the second factor writes the columns that differ from the row it read (mfa.py:58-60): a disabling in between leaves a secret with the factor off, or the other way round. Its last step deletes the pending secret even if a newer set-up has replaced it (mfa.py:61).
19. Deactivation and password reset leave the refresh tokens as they are; a refresh tests the account, and they work again after a reactivation.
20. In the last second of an access token a logout has no seconds left for the denylist (auth.py:157).

Desk:

21. Only `alert_new` is ever fired, although webhooks.py:8-10 lists seven events.
22. A webhook that is deleted during a delivery, or cannot be read again because the database fails, makes the loop raise and the webhooks behind it are skipped (alert_engine.py:164 swallows it); one that is disabled meanwhile is still posted to.
23. Alerts of one transaction share `created_at`, and the page after one of them begins behind all of them (alerts.py:91). The list's `total` counts a product of two tables (alerts.py:111-115).
24. Acknowledge, snooze and resolve accept any earlier status, and nothing wakes a snoozed alert. A note may have 1000 characters (alerts.py:48) where the column has 500 (models/alert.py:31).
25. The correction file is written before the commit (review_queue.py:144), so the comment at :165, that the correction "is already in the DB", is early; file and row part when either fails.

Cameras:

26. Before its first frame a camera counts as alive (health.py:87): one that never connects is shown online.
27. stop() sets an event and waits for nobody: a report under way sets key and row to online after mark_offline (health.py:52 speaks of a key that does not linger). The key lapses, the row stays; `StoppedHeartbeatLapses` is about the key.
28. A failed database call leaves the shared session unusable: the row freezes while the key goes on.
29. Building a GStreamer pipeline stands outside the try (gst_capture.py:82): a failing build ends the thread and nothing replaces it. A full queue drops the newest frame, not the oldest (gst_capture.py:127). A bus error counts as no error, so the delay before the next attempt is zero.
30. A camera thread whose recogniser or stream raises ends (main.py:144-164) and nothing starts it again before the process is started again. The shutdown is seen at a frame only; a camera without frames is given up after ten seconds, its row left as it was. PATCH of `enabled` does not reach a running thread.

Storage:

31. Partitions are made when the API starts. While rows of a month lie in the default partition PostgreSQL refuses to create the month's own, and after retention has taken them nothing creates it before the next start; `CurrentMonthReady` is stated around both.
32. The purge sets `exit_event_id` of closed stays to NULL; analytics.py:89 and parking.py:156 then count them as open, and parking.py:180 lets them be closed and billed again. `ReopenedByRetentionOnly` says that nothing else does this, and when.
33. `audit_logs` and `continuous_recording` policies are never enforced, and `retain_days` is not checked. A month with rows that are referred to cannot be dropped. Nothing calls the monthly report and the export tasks. A read stamped just before midnight (writer.py:39) may be committed after it, and a report counted in between lacks it; the model stamps and commits in one step.
34. Days are cut in UTC and hours of the traffic chart in Asia/Kathmandu.
35. `0001_initial_schema.py` declares `id` the primary key of a table partitioned by `ts`, which PostgreSQL refuses (:134, :147); the model takes the partitions as 0007 describes them. The API's `main.py` uses `asyncio` at :48 without importing it.

## 6. Abstractions

- Plates, texts, ids, tariffs and licences are model values; amounts are whole units, confidences tenths, timestamps ticks.
- Several entries of one watchlist that match one plate make as many alerts (alert_engine.py:99-120), which differ in nothing a property speaks of: `CheckList` makes one.
- The row limits of the files (reports.py:78, :123, :181; export.py:66, :90) and of the list of frequent plates are left out: `RangesAddUp` is about which rows belong to a range. The API's and the worker's files are two pieces of code with one meaning, and two definitions.
- Redis channels are left out except where a property is about an announcement: nobody who listens changes state.
- Passwords, tokens and one-time codes are right or wrong; a token's age has three values. One organisation and one site: scoping by site is not modelled. Audit rows are left out.
- Redis times to live that only guard a window are lapses that may come at any time (`Login`, `Sessions`); where a property is about the time they are counters (`CameraHealth`, `ParkingSession`).
- PostgreSQL transactions are atomic and isolated at READ COMMITTED; a commit whose answer is lost is modelled in the pipeline (`WriteEvent`, `CommitAlerts`), parking (`DatabaseFails`) and gates (`LogTrigger`).
- Foreign keys act as the model classes declare them. A site is deleted in the admin panel (`DeleteSite`); the sites API (sites.py:120-128) goes through the ORM, which first sets the `site_id` of its cameras to NULL, and is refused for a site that has cameras. In the gate a controller that `db.get` has in its identity map is read afresh.
- In the licence the clock is read right before the guard: no process pauses for the rollback threshold (two minutes) between the two calls. A guard written by two processes at once may be either record or unparsable.
- A camera's role, site and stream are fixed while its thread runs: `main` loads them once.
- The validity of `rules_json` is not modelled; a tariff holds the shapes `_compute_charge` recognises.

Not modelled because there is no ordering or state in it to check: image processing, layout of reports, queries, audit and log formatting, the clients, deployment and training material.

## 7. Plan

1. Password reset and the assignment of sites beside `Sessions`; registration of push tokens.
2. OCR's text filters as pure operators against a reference definition.

Runs stay few: where a new component shares constants with an old one they are checked in one run, and instances are merged before a question is dropped.
