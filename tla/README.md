# Formal models of WIDPS

WIDPS is a wireless intrusion detection system: a Rust backend that captures
802.11 frames, runs detectors over them, scores devices and raises alerts; Python
programs for machine learning; and a React dashboard. This directory holds TLA+
models of its concurrent and time-dependent parts, the TLC runs that check them,
and TLAPS proofs of the results that matter most. `PROJECT.json` maps every
definition to the source lines it stands for.

## 1. The system

| Component | State | Operations | Who calls it |
|---|---|---|---|
| Alerts (`alert.rs`, `db.rs`) | `widps_alerts.jsonl`, table `alerts`, `ALERT_FILE_LOCK` | `fire`, clear, acknowledge, audit, retention, archive | every detector; API thread; maintenance thread |
| Event stream (`sse.rs`, `/api/stream`) | ring of 200 events, ids, subscribers; per connection two channels, a worker thread and a reader | `push`, `subscribe`, `catch_up_since`, `ChannelReader::read` | `fire`, ML reader, honeypot; API thread; SIEM listener |
| Flood detectors | per source: count, window start, last alert | `process` | capture loop |
| Rogue AP, Karma, sequence detectors | seen BSSIDs and ciphers, answered SSIDs, sequence numbers | `process`, `flush_pending` | capture loop |
| Threat scorer | per device: score, decay time, alert count, recent sources | `add_evidence`, `prune`, `clear_device`, `get_all_profiles` | capture loop, profiler, honeypot, API |
| Behavioural profiler, client tracker, fingerprints | per-device baselines, client histories | `observe`, `handle_anomalies` | capture loop |
| Threat intelligence | per-device reputation and tags | `observe`, admin actions | API |
| Honeypot monitor | probe counts, known MACs, correlations | 3-second poll of the connection log | own thread |
| Whitelist | SSID to BSSIDs, TOML file | `is_trusted`, `add_trusted`, `remove_trusted` | capture loop, API |
| Runtime settings (`config.rs`) | six atomics | `apply` | API; maintenance thread |
| ML bridge, inference | pipe to the Python process, shared last prediction | `send_frame`, reader thread | capture loop |
| Online trainer | table `confirmed_samples`, model files | `retrain` | daemon |
| Packet statistics, channel hopper | atomic counters, current channel | counting, swap to 0 | two threads |
| API server | one thread answering all requests | about 20 endpoints | dashboard |
| Dashboard polling (`fetchApi`, `useSequentialPoll`) | base URL, back-off and answers cached, shared by all views; per view what it shows | a loop per view: fetch, show, sleep | five hooks |
| Dashboard shell (`App`, Alert Center) | alert list, read marks in localStorage | polls, mark read, clear, reload | user |
| Dashboard live feed (`useLiveFeed`) | items, last event id, alert count, notifications | three polls, reload | user |
| Dashboard SSE hook (`useSSE`) | EventSource, reconnect timer, list | connect, reconnect, handlers | no page yet |
| Dashboard pages | per page: loop, filter, page number, ticks, statuses, requests in flight | polling, buttons, navigation | user |
| Settings page, QR dialog | localStorage, switches, camera, frames, detections | toggles, GET and POST of the configuration, scan | user |
| SIEM forwarder | a subscriber of the broadcaster | forward over UDP or TCP | own thread |
| Frame parsing, logger, reports, offline training, scripts | none, or files | | |

How they interact: detectors run inside the capture loop and call `fire` and
`add_evidence` directly. `fire` holds `ALERT_FILE_LOCK` over the file, the
broadcaster and the database. `add_evidence` calls `fire` with the scorer's mutex
held, so the lock order is scorer, file lock, then broadcaster or database. The
single API thread takes one component's mutex at a time, and stays inside
`respond()` for the whole life of an event stream.

Hard behaviours: several threads calling `fire` at once and clear, retention and
crashes between its steps; connecting to a stream while events are pushed;
clients that are slow or leave without a word; windows, cooldowns and decay that
are only looked at when the next frame arrives; state that survives a restart
(file, table) beside state that does not (event ids, scores); and in the dashboard,
functions that go on after an `await` when the page, the filter, the list or the
backend is no longer what it was: loops that share a cache, answers out of order,
pages left with requests in flight, lists that shift under what the user ticked. What can go wrong
and where is the list of hazards in `PROJECT.json`.

What makes each component correct, in short: alerts are in every sink, in one
order, whole, and stay cleared once cleared; a stream gives each connection
consecutive events and its resources come back when the client leaves; a flood
alert is true, not repeated, and a big enough flood is not missed; a score is
what a leaking bucket would give, and forgetting a device loses nothing. A view of
the dashboard shows the current data once the backend can be reached, whatever failed
before, and never mixes up alerts; a page that was left asks for nothing more; a switch
is, in the end, what the backend runs with.

## 2. Modules

| Module | What it is |
|---|---|
| `AlertPipeline` | `fire` step by step, and everything that touches the alerts |
| `AlertPipelineProofs` | theorems about it |
| `EventLog` | abstract: what an event stream promises a connection |
| `EventStream` | broadcaster, worker, channels, reader; implements `EventLog` |
| `EventStreamProofs` | theorems about it |
| `FloodDetectors` | the four flood detectors |
| `FloodDetectorsProofs` | theorems about them |
| `ThreatScorer` | the composite scorer |
| `ThreatScorerProofs` | theorems about it |
| `TrustedAps` | the whitelist, its file, the rogue AP detector and the capture loop's lookups |
| `TrustedApsProofs` | theorems about it |
| `OnlineLearning` | confirmed samples, retraining, and the model files |
| `OnlineLearningProofs` | theorems about it |
| `ApiPolling` | `fetchApi` with its shared state, and the loop of every data hook |
| `AlertList` | the list of alerts as the dashboard gets and names it |
| `AppShell` | what every page shows: list, read marks, threat level; extends `AlertList` |
| `LiveFeed` | the feed of items and the notifications; extends `AlertList` |
| `SseClient` | the hook that would listen to `/api/stream` |
| `DashboardProofs` | theorems about `ApiPolling`, `AppShell`, `LiveFeed` and `SseClient` |
| `PolledPages` | eight pages that ask the backend themselves |
| `AlertPages` | threat map and event log, over `AlertList` |
| `Pages` | composes `PolledPages` and `AlertPages` under the dashboard's navigation |
| `QRScanner` | the dialog that scans a code |
| `SettingsPage` | switches, localStorage and the backend's configuration, with the dialog; extends `QRScanner` |
| `PageProofs` | theorems about `Pages` and `SettingsPage` |
| `MC...` | values of the constants for TLC; `MCAppShell` puts two models side by side, `MCAlertPipeline` bounds how much happens at once |

Operators named "mutant of X" are X with a plausible bug. No specification uses
them: each is there to show that a property notices the bug.

### AlertPipeline

Each caller has a program counter through `fire`: `Sign` (timestamp and HMAC, no
lock), `TakeFileLock`, `WriteLine` and `WriteNewline` (the two writes of
`writeln!`), `PushSse`, `InsertRow`, `Return`. An alert is the number of its turn
at the lock. A clear request is two steps with the database mutex held,
`ClearTable` and `ClearFile`; `Acknowledge`, `Audit` and `Maintain` are one
critical section each. `FaultySinks` names the sinks whose operations may fail, each on
its own and at any time: an open, the first write of `writeln!` (which may leave a part
of the record, `PART`), its second write, an INSERT, either half of a clear, a DELETE of
retention or an UPDATE of archiving; all these errors are dropped by the code. (An
acknowledgement that fails changes nothing and is left out.) `Crash` keeps file
and table, and loses everything else. `SetBack` is the wall clock going back; the
stretches between are the eras of the rows.

* `alerts` checks that the three sinks keep one order, that an alert both halves of a
  clear removed is never served again, from table or file, that an alert is in every
  sink whose own write of it did not fail, that lines are glued only by a crash or
  a failed write, that no row is deleted before one that came earlier in the same era,
  and that the file lock is always given back. Two callers, two alerts, two clears, one
  crash and all of the failures above: a clear and the crash can fall between any two
  steps of one call while the other waits. Three seconds, an age of one and one set-back
  of the clock: of two rows either, both or none may be due. Time passes only where no
  process died, no record was cut short and at most one clear was made (`FileWorked` in
  `MCAlertPipeline`): all of it at once is out of TLC's reach, and the theorems have no such
  bound. 751,000 states, under two minutes. Fairness: a thread inside `fire` or a clear
  request keeps running; no request, alert or second is forced.
* `alert_audit` (violated): the HMAC covers a timestamp taken before the lock; the
  row has another. A second that passes between makes the audit report
  tampering, against README.md:300.

Of a clear whose DELETE or truncation fails, or that a crash cuts in two, nothing is
promised: the half that stayed is served again, although the request was answered
"cleared".

### EventStream and EventLog

`Push` is one step (the broadcaster's mutex). `Accept` is the handler of
`/api/stream`: catch-up and subscription under the same mutex. A worker goes
through `SendCatchUp`, `SendConnected`, then `Forward` and `Keepalive`; each of these
sends, and the worker learns only from a send that fails (`SendFails`) that its reader
is gone. `Read` is one call of `ChannelReader::read`, which may
return part of a chunk. The HTTP library is external: a response is written while
the reader gives bytes, and a failed write drops the reader (`RespondFails`);
`written` is what reached the socket's buffer, and nothing is claimed about when
the library flushes it.

* `stream` checks that while a connection is served, what was written, the reader's
  rest, the pipe, the catch-up and the inbox are together every event from the
  first owed to the newest, once and in order; that the ring is the latest events and
  a returning client resumes exactly; that the whole implements `EventLog`
  (refinement); and that after a client left, the keepalive gets the only API thread out
  of `respond()`, and a send that fails ends the worker. Two connections, a ring of 2 and a pipe of 2 with
  4 events per life of the process and one restart: the ring overflows, the pipe
  fills, and an id from before the restart is used after it. Fairness: workers and the
  API thread keep running and the 15-second timeout expires; no event is ever
  forced.

### FloodDetectors

One action per detector. `Counted` is the tumbling window, `CooledDown` the
cooldown, `Record` what all do. The histories keep every frame's arrival time and
every alert, and the properties compare the two.

* `floods`: an alert is true (the last T frames did come within the window);
  alerts do not repeat; a burst of 2T-1 frames within the window is never missed,
  wherever the windows fall. Thresholds of 2 and 3, windows of 1 and 2 and time for
  three windows are enough for a burst to be cut anywhere and for a cooldown to end
  inside one.

The windows tumble, so a burst of T to 2T-2 frames may be cut in two and missed:
the 2T-1 of `FloodIsAlerted` is what the code gives, and README.md:103 promises more.
Frames are counted per source, so randomized sources (README.md:108) are never added up.

### ThreatScorer

`AddEvidence` is `add_evidence` (one critical section): `Decayed`, `Recent`,
`Bonus`, `Scored`, `Alerts`, and pruning. The history `ideal` is the score of a
bucket that leaks at every moment. Points and seconds are integers.

* `scorer`: score and ideal differ by at most the decay of one second; pruning forgets only
  devices that have leaked away; the correlation bonus needs two sources; no five
  crossings in a row are silent.

The API lists the scores as they were stored at the last evidence
(threat_scorer.rs:338), without the decay since.

Bounds: 12 points instead of 100, the throttle 1 and 3 instead of 3 and 5, the order of the constants kept (prune level
below alert level below critical level, correlation window shorter than the prune
interval); time for two prunes.

### TrustedAps

The capture loop is a program counter: `Beacon` is the detector (`process`, with
the whitelist's mutex held), `LookUpTrusted` and `LookUpEntries` are the loop's own two
lookups, each with a lock of its own, and `AddEvidence` adds points to the device. The
API thread is another: `AddTrusted` (or `AddAgain`), then `Truncate` and `Write`, the two
halves of `fs::write`, then `ClearScore` and the answer. `PersistFails` is a full or
read-only disk, whose error the code drops; `Remains` says what is then in the file; `Crash` ends the
process and `Load` reads the file again, or cannot, which leaves the whitelist empty. A request may name the BSSID in lower
case: it is stored in upper case and not found when the score is cleared (`Found`).
Left out: the ciphers and the severity chosen from them, labels for the access point store, and
`remove_trusted`, which nothing calls.

* `trust` checks that a restart knows every access point the operator was told is
  trusted, except after a crash or a failed write in the rewriting of the file, or when
  the file cannot be read; that of
  two unlisted access points of one network one is reported, in any order of beacons;
  that no alert is raised on an access point once its request was answered; and
  that the race between the lookups and a request lets at most one piece of evidence
  through. Two networks (one hidden), two BSSIDs, two frames, two requests and one crash:
  each request can fall between any two steps of the loop, and the
  second can overlap the evidence of the first.

### OnlineLearning

`Confirm` is the request that inserts a sample. A trainer goes through `Begin` (the
samples read, a model fitted, the accuracy gate passed), `BackUp` (the old model loaded),
`Open` and `Dump` for each of the four files, and `Mark`. A model is the set of
samples it was fitted with; a sample is good, or spoils the accuracy, or is skipped
(the dashboard posts no features at all, so all of its samples are), or makes `retrain`
raise (features that are null or a number have no length, online_trainer.py:153; a list
of the right length that holds other than numbers fails at :173). The training data
is taken to be present. Nothing keeps trainers apart: the daemon and one run by hand
interleave freely. joblib writes a file in pieces after it truncated it: of two
trainers that fill the same file at once (`Writers`, `mixed`), either one's model may be
in it, or nothing that loads (`Result`). `Crash` kills a trainer, `MarkFails` is a table
locked for longer than SQLite waits.

* `learning` checks that a marked sample was in a deployed model that loads, that with one
  trainer at a time a loadable model or backup exists at every moment, and that
  enough pending samples are learned. One sample of each kind, a
  threshold of 2, two trainers and one fault: a confirmation, the other trainer and the
  fault can fall between any two steps (1.3 million states). Fairness: the daemon calls
  `retrain` again and again, and a call that began goes on; nothing is confirmed by
  force, and nobody has to run a trainer by hand.

`UsedWasLearned` leaves out, by name, the rows that were skipped and those of a model
that two trainers wrote at once (`garbled`): the file may then load for nobody while
both mark their samples. `OneGoodModel` excludes overlapping trainers on purpose: two at
once do leave neither file loadable. A model that does not load makes the next
backup raise, for ever (online_trainer.py:209), and a sample that raises ends every
later call before it fits anything: `PendingIsLearned` says so.

### ApiPolling

An instance is a mounted component with a hook; its loop goes through `CallApi`,
`Responds` (the status line), `BodyRead`, `RequestFails` or `BaseRejects`, `Deliver`
and `TimerFires`, one action per stretch between two awaits, over the
`resolvedBase`, `backingOff` and `responseCache` that all loops share. An answer is
the version of the endpoint's data. Time is not counted: the delays are any delays.
The production build is meant: in development React's StrictMode runs every effect
twice, and two loops with it.

* `polling`: no view goes back to an older answer unless `fetchApi` fell back on its
  cache, whatever the other views fetch meanwhile; once a route stays up and the
  data stays the same, every mounted view comes to show it. Two views with one
  endpoint in common, two routes, two versions: each can store what the other falls
  back on, lose the base for the other, and be unmounted at any await. 748,000
  states, under three minutes. Fairness: each loop's steps (a timer fires, a request
  is answered or fails) and the end of the back-off. That every request ends is the
  code's doing only for the requests with a timeout of 3 seconds; the one to a base that
  is known has none (useMockLiveData.ts:36) and ends when browser or TCP ends it.

### AlertList, AppShell and LiveFeed

An alert is its row number. `ApiAlerts` is the answer of the backend, `Displayed`
the list turned round, `IdOf` the id made of time and place in the list. `AppShell`
adds the backend's table and `App`'s list and read marks; `LiveFeed` the table, the ring
of events, and `useLiveFeed` with its three polls. A poll is one step here; `ApiPolling`
has what happens inside one. A poll that fails replays an older answer out of the cache.

`MCAppShell` puts the two side by side: neither reads a variable of the other, so
each runs while the other is in its initial state.

* `shell`: an unread Critical alert that is listed keeps the level at CRITICAL, so
  the mark of an alert never passes to another while the list grows or the page is
  loaded again. Four alerts, lists of three, the times of two equal: the list slides.
  And an item enters the feed once at most, over failed polls, a first answer that
  comes in the other order and events that have no item; and none is missed until more
  events came between two answers than the ring holds, or than the feed has room for.
  Five events, the third without an item and two of them alerts (`FeedRows`), a ring of
  three, a feed of two, a first batch of two: the page falls behind both. 419,000 states,
  a quarter of a minute. No fairness.

`CriticalRaisesLevel` stops where ids do pass on: after a clear, and when the list
slides. `FeedFollowsEvents` stops at a restart, after which the ids start again at 1
below the page's `last_id`.

### SseClient

One connection is one call of `connect` with its EventSource, in two steps: up to
the `await` of the base, and after it. `OnError`, `ReconnectTimer`, `reconnect`,
`UnmountHook` fall in between.

* `sse`: until it is unmounted, and if nobody calls `reconnect`, the hook has one
  thing under way and the clean-up would close it; and once the network stays up,
  the list comes to hold every event of the ring, even with a call of `reconnect` at
  the worst moment. Four connections, three events, a ring of two. 312,000 states.
  Fairness: each connection's steps (its await ends, its timer fires, the backend
  takes it up when it serves no other, the events of an open stream arrive).

### PolledPages, AlertPages and Pages

`Poller` has what each page's fetcher awaits and does on failure; `Answered` is the
loop. A cancelled loop goes on until it looks at its flag, so the loop of a page
left runs beside that of the page shown. `SystemLogs` has requests in flight by
filter. `AlertPages` has the list, the filter, statuses, ticks and pages; what a
filter lets through is the set of places in the list, which `Rank` counts. `Navigate`
mounts and unmounts. The data of all endpoints has one version, the number of
alerts, so that the data changes as often as an alert is raised.

* `pages`: a page left open comes to show the current data in every section; the
  loop of a page that was left ends; the log viewer comes to show the entries of the
  filter chosen; the status on the threat map was given by a button of that alert;
  the event log shows an empty page of a list with matching alerts only while an answer
  out of the cache keeps the list shorter than it was. Four of the six
  polling pages (one that reads three endpoints, one that blanks on failure, one
  with sections that come and go, one that survives an unreadable body and keeps what
  it shows when an answer is empty), two loops,
  two alerts, two requests of the log viewer in flight. 176,000 states, two
  minutes. The other two pages differ from these in their sections only. Bound:
  the page shown gets one answer that cannot be read on a visit (`garbled`), where
  any number may come. Fairness: each loop's steps, the
  answers to the log viewer's requests, and its interval. The pages' own requests have no
  timeout either: browser or TCP ends them.

`PagesCatchUp` leaves out a page whose loop an unreadable body has ended, and
ShapExplainability as long as the backend has no explanations: it then goes on showing
the old ones.

### QRScanner and SettingsPage

`toggle` is one click: the row, localStorage and, for the switches that are sent, a
post with `Body`, which reads all the others back. Posts and the GETs of this visit
and of earlier ones are applied, lost or overtaken in any order, and `RestartBackend`
forgets all. The dialog has a camera, a frame or timer pending and any number of
detections in flight; a camera still asked for when its dialog closes is one of
`orphans`.

* `settings`: once the last post made is the one applied last, and no GET crossed
  it, the backend has every switch as localStorage does: the next post brings along
  what a lost one or a restart left behind. It does not say that localStorage is what
  the user chose: each GET writes two switches over (section 4). And with the dialog
  closed no camera is on but one granted after its dialog was closed, whether it was
  closed by a click, a code, the report of an earlier dialog or with the page, and
  whether it showed the picture or a message. Three switches (one the page reads back,
  one it does not, one that is not posted), two posts, two GETs at once, two detections
  of each kind and a camera of a closed dialog. 1,104,000 states, under a minute. No
  fairness.

## 3. Proofs

All theorems hold for every value of the constants that satisfies the named
assumptions, with no bound on counters other than those assumptions. The invariants
named below were checked by TLC on the runs' instances before they were proved; most
stand in the component's module, after the property they are for.

* `AlertPipelineProofs`: `TypeCorrect`; `SinksAgree` (the order), by `OrderInv`: the
  owner of the lock has the latest number, and a sink it has not reached holds only
  earlier numbers, without which order is not inductive; `ClearIsFinal`, by
  `ClearInv`: an alert a clear must remove has been through file and table, so no
  step of its call can write it again; `OldestGo`, by `RowTimesInv`: no row of this era
  is stamped later than the clock, so times follow ids within an era, and a cutoff by
  time takes the first rows of each; `AlertsDelivered`, by `DeliveryInv`: an alert is in
  each sink whose step its call has passed, unless that write failed; `LinesWhole`, by
  `LineInv`: the glued lines, with a line that is open and nobody's, are at most as many
  as the crashes and the failed writes.
* `EventStreamProofs`: `TypeCorrect`; `RingRecent`, the ring is exactly the last
  MAX_EVENTS events; `ResumeExact`, which follows from it for the step that accepts
  a connection; `NothingLost`, by `DeliveryInv`: what was written, read, sent and
  queued, put end to end, are the events from the connection's first to the newest,
  and each step only moves the joints (`Row`, `Cat` stand for the sequence of five
  parts); `ImplementsLog`, the refinement of `EventLog`: `Push`, `Accept`, a failed
  response, `Restart` and a `Read` that writes something are steps of the log, all
  others stutter. The pipe is flattened recursively (`FlattenSeq`); what that does to
  an `Append` and to a `Tail` is proved by induction over the length, as a fact about
  sets of naturals (`SetInduction`).
* `FloodDetectorsProofs`: `TypeCorrect`; `CountsAreRecent` and from it
  `NoFalseAlarm`: the counted frames are the latest ones and lie inside the window;
  `NoAlertStorm`, by `Behind`: what was alerted on lies behind the window or the
  cooldown; `NoMissedFlood`, by `BurstInv`: a window that reached its threshold was
  alerted on, and so were Threshold frames before it, unless a window began among
  them, which puts them more than Window before the present one.
* `ThreatScorerProofs`: `TypeCorrect`; `LeakTracked`, by an invariant that says in
  which direction the score may be off, depending on the decay still to be applied;
  `PruneQuiet` from it; `SilenceBounded`, by `SilenceInv`: a profile's crossings
  since its last alert are at most its count modulo ALERT_EVERY, and pruning leaves none;
  `CorrelationReal`, by `RecentInv`: a recent source did give that evidence.
* `TrustedApsProofs`: `TypeCorrect`; `TrustKept`, by `KeptInv`: the file lags behind
  memory only during a request or after a fault; `TrustedNeverAlarmed`;
  `AtMostOneLate`, by `LateInv`: evidence can be late only for the frame the loop
  already looked up; `TwinsReported`.
* `OnlineLearningProofs`: `TypeCorrect`; `UsedLearned`, by `BatchInv`: what a call
  marks is what it fitted and what it skipped, and what it fitted is learned unless
  another wrote the model with it; `OneGood`, by `SafeInv`: the backup
  is written only while the model is whole, and the model only while the backup is.
* `DashboardProofs`, polling: `NoOlderAnswer`, by `PollInv`. What a view shows is
  not comparable with the cache, which another view may have filled later or
  earlier; what is inductive is that an answer under way, if it is fresh, is no older
  than what its view shows (`GotGood`, `BodyGood`), that it is null only if the view
  shows nothing of that endpoint, and that whatever is shown has been cached
  (`Known`). `InTurn` ties an answer to its endpoint.
* `DashboardProofs`, shell: `CriticalShown`, by `ListInv` and `MarksInv`: as long as
  all fits, place i of the list is row i, of whatever time the answer is, so an id names
  one row for good.
* `DashboardProofs`, feed: `FeedComplete`, by `FeedInv`. Nothing enters twice, by
  `CacheInv`: the answer cached for the present `last_id` is empty, and none is cached
  for one to come. Nothing is missed: while the page has not fallen behind, the events
  it does not know are still in the ring and fit in the feed.
* `DashboardProofs`, hook: `OneAtATime`. Counting is not inductive; `OneToken` is:
  there is one token, the connection or the timer of the one that failed, and each
  step hands it on. `Unborn` is needed for the failure of a hook that is not mounted,
  which sets no timer.
* `PageProofs`, settings: `SwitchesReachBackend`, from `PostsAgree` (the last post
  has the switches of localStorage) and `ConfigAgrees` (so has the backend, when it
  took that post). The answer to a GET would break both; `GetAlone` and
  `AnswersAgree` say that those that crossed no post bring back what the backend has.
* `PageProofs`, dialog: `CameraIsStopped`, by `CamerasCounted`: the cameras that are on
  are the dialog's and those granted late, and a closed dialog has none.
* `PageProofs`, alert pages: `PagesInvariant`; from it `MarksStay` (`InOrder`,
  `MarksActed`: the ids marked or being confirmed are those of rows acted on, by time
  and place) and `PagesHaveRows` (`PageBegins`: the page shown begins before the end
  of what was filtered when the list was longest; `Ranked`: the places let through are
  numbered without a gap).

Every safety and action property of a passing run is thus a theorem, and so is the
refinement. Only model-checked: the liveness properties, which with their fairness
are outside the prover (`FileLockReleased`, `StreamIsGivenUp`, `WorkerIsReaped`,
`PendingIsLearned`, `ViewsCatchUp`, `EventsReachList`, `PagesCatchUp`, `PollsEnd`,
`LogsMatchFilter`), and the run that is violated.

## 4. Where code and docs disagree

* Run `alert_audit`: see `AlertPipeline` above.
* A clear request is answered "cleared" although the DELETE, or the truncation of
  the file, failed (db.rs:95, api_server.rs:300).
* The retention of days set in the settings is that of the table; an empty table is
  served from the JSONL file, which is never pruned (api_server.rs:308), against
  "Automatically delete alerts" of SettingsPage.tsx:187.
* The throttle of the scorer can swallow the step to the critical level
  (threat_scorer.rs:236), against README.md:127.
* A whitelist that does not parse, or cannot be read, is taken for empty and then
  overwritten (whitelist.rs:41-46); the one in the repository does not parse
  (config/whitelist.toml:27). An unlisted access point heard first is never reported
  (rogue_ap.rs:51), against config/whitelist.toml:2.
* Samples marked by one retraining are not used by the next (online_trainer.py:76,
  126), against online_trainer.py:8. A confirmation whose features are null or no
  numbers is stored as any other (api_server.rs:627) and makes every later retraining
  raise (online_trainer.py:153, 173). Two trainers that deploy at once can leave a
  model that does not load, with the samples of both marked (online_trainer.py:213).
* A new Critical alert is notified only when the list starts with Critical ones, as
  the new alerts are taken from the wrong end (useMockLiveData.ts:252), against
  SettingsPage.tsx:178.
* The hook for the event stream promises "Last-Event-ID tracking for zero message loss"
  (useSSE.ts:9), but never sends the id: each reconnect is a new EventSource, and what
  the backend's ring has dropped meanwhile is lost.
* The live feed drops the newest of an answer that does not fit: items are put in oldest
  first and the list is cut at 30 (useMockLiveData.ts:318). After a long back-off the
  ring of 200 has lost the oldest of them (sse.rs:46); events that are neither alerts nor
  predictions never show (useMockLiveData.ts:307).
* EventLog does not turn back when an older answer out of the cache makes the list
  shorter: it may show an empty page of a list with matching alerts (EventLog.tsx:82-83).
* ShapExplainability ignores an empty answer and goes on showing old explanations
  (ShapExplainability.tsx:97).
* The GET of each visit to the settings writes the backend's channel hopping and client
  tracking over the user's (SettingsPage.tsx:74-75): a switch whose post was lost, or
  that a restart forgot, is undone when the page is next opened, and the next post sends
  the undone value, while the row may still show the user's.
* Every switch but the retention's own posts a retention of 0 (SettingsPage.tsx:86),
  and a row shows what localStorage had before the answer to the GET came
  (SettingsPage.tsx:24, 74); a refused permission leaves its switch on
  (SettingsPage.tsx:145).
* A camera granted after the dialog was closed is never stopped (QRScanner.tsx:29),
  and an invalid code ends the scan until the dialog is opened again
  (QRScanner.tsx:94). Several detections in flight each report the code they find, one
  of an earlier dialog closes the one that is open (QRScanner.tsx:73). In a browser
  without BarcodeDetector the dialog says "Point camera at AP QR code" and looks for none
  (QRScanner.tsx:68-69, 161).
* An answer that is no JSON leaves the button of SecurityAudit disabled for good,
  that of SystemLogs until the next answer (SecurityAudit.tsx:60,
  SystemLogs.tsx:84).

Only the first is a run; the models have all of the others as the code has them, and
the properties leave them out by name or by condition.

## 5. Not modelled, and the plan

The rows of section 1 without a module are listed in `PROJECT.json` with the reason.
Of the dashboard: pages that only render what a modelled hook gives them; themes,
toasts, the styles of the display switches; push notifications and the service
worker, which no page registers; the validity of a scanned code; the selection of an
explanation or of a log entry, and the accuracy that the AI page fetches once. The
plan, in order:

1. `KarmaDetector` and `SequenceAnomaly`, beside `TrustedAps`.
2. `Honeypot`: the probe tracker, the poll, correlation, and the mutex poisoned by a
   panic.
3. `MlBridge`: pipe, frame windows, last prediction.
4. `ThreatIntel`, `Profiler`, `PacketStats`, `ChannelHopper`, `SiemForwarder`.
5. Proofs: the safety of the new modules; what the liveness properties rest on that
   is safety (no step of `fire` waits for a lock held by one that waits for it, a
   cancelled loop is never one the page shows).
