# TLA+ models of the maintenance system and its console

The repository monitors SQL Server clusters (Layer 1), analyses what it finds
with an LLM agent (Layer 2), shows it on the web (Layer 3), and runs index and
statistics maintenance on the same clusters in nightly windows (`maintenance/`).
The models are of two parts of it:

- the maintenance runner, which changes production databases, and whose correctness
  depends on state shared by several actors: its threads, a Telegram bot, the web
  API, the TTL index of MongoDB, SQL Server itself, and a container that may be
  killed at any moment;
- the web, in two halves: the forms whose documents the runner obeys (window,
  campaigns, catalog configuration), from the click to the document; and the pages
  of the console, where a DBA acts on what is shown, while effects of React, late
  answers and placeholders of other queries change what is shown.

## 1. Inventory

| Component | State it keeps | Operations | Hard because |
|---|---|---|---|
| Work queue (`repositories/queue_repo.py`, `models/work_item.py`) | one document per item: status, attempts, resume_token, terminal_at | claim, release, finalize, decide, supersede, expire, recover | written by four actors; some filters name the status, some only the id |
| Cluster executor (`execute/execute_service.py`) | the item in hand, deferred ids, window flag, stop flag | one tick: gates, claim, admit, execute, write back, count | not atomic; death at any point; a call that raises half-way |
| Campaign repository (`repositories/campaign_repo.py`) | status, dates, total and three counters | expire, update_status, increment_stats, reset | unfiltered status updates; counters written after the item |
| Discovery (`discovery/discovery_service.py`) | locals of one run; the run ids it has seen | first discovery, re-discovery | runs beside the tick on the same queue and campaign |
| Approval bot (`notify/approval_adapter.py`) | batch documents | approve or reject a batch or an item | races the web and discovery |
| Health monitor (`safety/health_monitor.py`) | health state shared with the tick | stop, pause, recover, confirm | two threads, two locks |
| Runner (`runner.py`) | scheduler, locks, services | start, stop, jobs, commands | restart on the remains of the last process |
| Window, policy, estimator, gates | configuration | pure answers | windows over midnight, two clocks, budgets |
| Commands (`command_repo.py`, `command-service.ts`) | pending, running, done, failed | claim, mark | no recovery after a death |
| Catalog capture (`catalog_service.py`) | one document per table and run | nightly job, command with a scope | a filtered run becomes the latest one |
| Web queue actions (`queue-action-service.ts`) | none | approve, reject, skip, reset; bulk | reads, checks, then writes unfiltered |
| Web campaign service (`campaign-service.ts`) | none | create, update, cancel, list | reads, checks, then writes unfiltered; defaults of the schema |
| Web window configuration (`maintenance-service.ts`, `WindowStatusBar`, `WindowConfigDialog`) | the window document; a page's copy of it | get, put, kill switch, state | computes the window a second time, on another clock |
| Web catalog configuration (`catalog-service.ts`, `ScopeEditor`) | the configuration; unsaved entries | get, put, lists | whole-document writes; case of names |
| Console store (`dashboard.store.ts`) | cluster, topic, range, filters, page | setters, persistence | outlives the pages; a reload keeps a part |
| Catalog page and charts (`CatalogView`, `CatalogCharts`, dialogs) | selections, lists, dialog, hidden lines | choose, capture, look | selections corrected by effects from lists that change |
| Campaign page (`MaintenanceCampaignPage`, `CampaignControl`, tables) | selected campaign, tab, filters, page, confirm | select, approve, bulk, discover | acts on answers that may be of the previous key |
| Campaign form (`CampaignForm`, `CampaignList`) | the form | fill in, submit | effects fill it in again |
| Dashboard and findings API (`DashboardPage`, `findings-service.ts`) | drafts, sort | range, filters, list, timeline, statistics, cards | four queries tell of the same findings |
| Topic previews (`*Preview.tsx`) | answers, hidden replicas | fetch all pages, buckets, compare | boundaries of buckets and ranges |
| Notifications (`notify_queue.py`, Telegram) | a bounded queue | send | I/O |
| Layer 1 (`scheduler.py`, `topic_runner.py`, `dedup_repo.py`, detectors) | jobs, role cache, dedup documents | run topics, detect, notify | check, dispatch, mark across a crash |
| Layer 2 (`agent/orchestrator.py`) | one agent session, insights | loop with tools | loop bounds, upserts |

How they interact: discovery inserts items and tells the bot; a DBA decides in
Telegram or on the web; the tick of the cluster claims what is approved, sends
T-SQL, writes the outcome back and counts it in the campaign; the health monitor
takes the tick out of service while the server is loaded. They meet in a few
collections (`maintenance_queue`, `maintenance_campaigns`, `maintenance_window`,
`catalog_config`, the captures), without transactions: each MongoDB operation is
atomic, and nothing larger is. The console talks to the API alone, and its pages
to each other through the store.

What makes each part correct:

- queue and executor: a terminal item stays terminal; only approved items run; what
  is RUNNING is in hand; nothing runs more often than it may; nothing stays RUNNING;
- campaigns: COMPLETED says that no item is left, and comes once none is; one
  campaign of a cluster is live; none comes back to life but by its own discovery or
  an extension;
- discovery: an object is queued at most once, and none is forgotten; a campaign
  does not hang in DISCOVERING, unless a call failed where nothing catches it;
- window: what the web shows open is open; the kill switch stops; saving what was
  not edited changes nothing;
- catalog configuration: entries do not overlap; what is offered is accepted;
- web actions: a decision is made once; a bulk approval reaches only the cluster and
  the campaign that are shown; what is asked of the runner exists;
- console: the selection settles, on one campaign or table of the selected cluster;
  what several views tell of the same data agrees; no filter works unseen;
- health: a stop is obeyed, is confirmed before it is lifted, and is lifted as long as
  the monitor lives.

## 2. Modules

| Module | Models | Extends |
|---|---|---|
| `WorkItem` | the queue as a function from item ids to documents, every `QueueRepo` operation as an operator | |
| `Executor` | `ClusterExecuteService.tick`, the process, the window, the server | `WorkItem` |
| `Maintenance` | one campaign being executed: executor, operators, cancel, TTL index | `Executor` |
| `ItemLife` | abstract: what the queue promises of an item, whoever works on it | |
| `MaintenanceWeb` | the web's single-item actions in two steps | `Maintenance` |
| `Discovery` | the campaign's life from PENDING, discovery beside the tick | `Maintenance` |
| `HealthMonitor` | the health state between monitor and tick | |
| `WindowTime` | "is the window open", as the executor and as the web compute it | |
| `WindowConfig` | the window documents, their writers, the page, the tick | `WindowTime` |
| `Campaigns` | the campaigns of a cluster: pages, requests, discovery, days, a crash | |
| `CatalogConfig` | the catalog configuration: editor, PUT, captures, lists, validation | |
| `ConsoleStore` | the store of the console, a setter each | |
| `CatalogPage` | database, schema and table, their queries and effects; capture commands; the detail dialog | `ConsoleStore` |
| `CampaignForm` | the scope in the campaign dialog | `CatalogPage` |
| `CampaignPage` | selection, summary, queue, history, row and bulk actions, discovery command | `ConsoleStore` |
| `Dashboard` | ranges, filters, list, timeline, cards, statistics | `ConsoleStore` |
| `PreviewSeries` | buckets, lines, the earlier range, cards, legends, tooltips of the previews | `ConsoleStore` |
| `Previews` | paged fetches, placeholders, the legend | `Dashboard`, `PreviewSeries` |
| `CatalogTrends` | a capture as list row, trend point, index and statistics series, chart models | |
| `CatalogCharts` | the chart panel over captures that come in | `CatalogTrends` |
| `Console` | the pages over the store: cluster selector, reload, navigation | `CampaignForm`, `CampaignPage`, `Previews`; `CatalogCharts` by INSTANCE |
| `Maintenance_proofs` | types and safety of `Maintenance`; that it implements `ItemLife` | `Maintenance`, `FiniteSetTheorems`, TLAPS |
| `QueueUsers_proofs` | which limits of the queue hold beside the web, and which items are out of them; one open item for each object; that discovery implements the growing `ItemLife` | `Discovery`, `MaintenanceWeb`, `Maintenance_proofs` |
| `HealthMonitor_proofs` | the stop, the pause and the recovery | `HealthMonitor`, TLAPS |
| `Campaigns_proofs` | the campaigns of a cluster and their edits | `Campaigns`, `FiniteSetTheorems`, TLAPS |
| `WindowConfig_proofs` | the window document, the kill switch, and the two computations of "open" | `WindowConfig`, `FiniteSetTheorems`, TLAPS |
| `CatalogConfig_proofs` | entries that do not overlap, lists that are accepted | `CatalogConfig`, `FiniteSetTheorems`, `SequenceTheorems`, TLAPS |
| `Console_proofs` | filters, bulk actions and what the console asks for | `Console`, TLAPS |
| `ConsoleViews_proofs` | that the views of the dashboard, of the charts and of the previews agree | `Console_proofs`, `FiniteSetTheorems`, `SequenceTheorems` |
| `MC...` | constants for TLC, one module per family of runs | |

### The runner: state and code

`queue` is the collection. A document keeps the four fields that decide its life;
`ttl` stands for "terminal_at is set". The status `absent` is an id without a
document. `campaign` is the campaign's document; `ended` stands for
`end_date <= now`. `tick` is the tick thread: `pc` names the point of the code it is
at, and the other fields are its locals (the item as claimed, the minutes read
once, the turns of the claim loop). `server` is what SQL Server holds of resumable
operations. `granted`, `started` and `finished` are history variables that only
properties read.

Points of `tick.pc`, in the order of `execute_service.py`:

    idle -> gates -> (bounce -> claim)* -> claimed -> running [-> retry]
         -> succeeded | paused | failed -> count -> check -> close -> idle

Each action ends at a MongoDB operation or at the SQL statement, so anything may
come between two of them. `CallRaises` is an exception at any MongoDB call of the
tick. `InTry` says where it goes: inside the try of `_execute_item` to
`_handle_execute_error`, elsewhere out of the tick. An operation that took effect
before its call raised is the action followed by `CallRaises`. `RetryOffline` is the offline
fallback of the error handler. `recover_running`, which is an `update_many`, takes the
documents one by one: `Recover(i)`, and `Start` once none is left.

`MaintenanceWeb` splits `updateQueueItemAction` between its `findOne` and its
`updateOne`; a request remembers the status it has `seen`, and `overtaken` collects the items
whose status had changed when one wrote. `Discovery` has one action per document that
a discovery changes: its `update_many` and `insert_many` go through `disc.todo`, as MongoDB
makes no more than a document atomic. Any of its calls may raise: inside the try to the
handler (`pc = "handler"`), whose own write may raise as well, or outside of it
(`MarkingRaises`); `faults.lost` says that the latter two left a campaign DISCOVERING with
nobody at work on it. `HealthMonitor` has its own coarser tick, with the
accesses to the health state and to `_current_item` as steps, and with the offline
fallback; `judged` says whether a check of the monitor gets as far as the gates, and a read
of the window outside the try of the loop may end the thread (`pc = "dead"`). The two models
share no variable.

`ItemLife` is what a DBA is promised: stages instead of statuses, no tick, no
attempts, no server. `StageOf` in `Maintenance` is the refinement mapping; `torn` is
mapped to "a call raised", and the three steps that `ItemLife` allows only when torn
are just what a write-back left half done can lead to. Its second specification,
`GrowingSpec`, begins with items that are not there yet: a discovery gives them a document
that awaits its approval, and it is what `Discovery` implements.

### The web's forms: state and code

`WindowTime` holds both computations side by side: `ExecutorWindowState` (wall clock
of Vietnam stored as if it were UTC, overrides, `window_override`) and
`WebWindowState` (the start converted by `VN_OFFSET_MS`). `WindowConfig` has the
documents `docs`, the status bar and the dialog of one `page` with the answers they
hold, requests that are under way (`puts`), and the `tick` of each cluster: admitted by the
window it read, with an item claimed, or with a statement sent, which the offline fallback
may follow. `begun` and `sent` count the items and statements since the kill
switch was set.

`Campaigns` has the documents `camp`, a `page` for each DBA with the copy its dialog was
opened on and the request in flight (checked, then written), and `disc`, the
discovery thread with the campaign it found and the status it had then. A discovery may
be lost (`DiscoveryLost`), and the executor's tick expires a campaign between any two steps of
it (`TickExpires`). The payload a form makes, the defaults
the schema fills in, and the normalisation of the API are operators that are
composed as in the code, because their composition is what `UntouchedEditKeeps` and
`ExtendAccepted` are about.

`CatalogConfig` has the `stored` document, the editor of one page with its modal,
the waiting commands, the run under the catalog lock and the captures. Names have a
spelling and a folded form, since some comparisons fold and some do not.

### The console: state and code

`store` is the zustand store. Each page is a record (`catalog`, `cpage`, `form`,
`dash`, `preview`) that holds what React keeps while it is mounted: choices, the
answers of its queries with the key each is of, drafts, the dialog that is open. An
answer arrives by an action of its own, with what the API tells at that instant. A
render's effects are one action (`CatalogEffects`, `CampaignEffects`), as React runs
them all before the next event. `placeholderData` is an answer that stays when its
key changes; a query without it loses its data. A command or bulk action records what it was
sent with (`command`, `request`, `sent`).

`Console` mounts one page at a time (`route`). The Topbar's links load a page anew;
the two maintenance pages take turns. The cluster selector corrects a cluster that is no longer
enabled (`WithClusters`) whenever the list arrives.

`CatalogTrends`, `PreviewSeries` and the query half of `Dashboard` are pure operators
from documents to what is drawn, checked over all the states the pages reach. A line of a
preview finds its values by the key of a name (`KeyOf`, `replicaKey` in the code), which
two names may share.

## 3. Runs

### What holds

| Run | Bounds | Shows |
|---|---|---|
| `core` | 2 items (a rebuild, the rebuild of a partition), 2 attempts, window of 1 minute, 1 death, 1 call that raises | types; RUNNING means in hand; paused means resumable; only granted items are started; attempts are bounded; a finished statement is not repeated; COMPLETED means over; terminal is final |
| `live` | 2 items (rebuilds of a partition, which nothing defers), 1 attempt, 1 death, 1 call that raises, fairness | a death leaves nothing RUNNING; an executed campaign leaves ACTIVE unless a count was lost; the executor implements `ItemLife`, half-done write-backs included |
| `web` | 1 item, 2 requests, 2 attempts, 1 death | attempts stay bounded and a finished statement is not repeated, except for an item whose status changed between the read and the write of a request |
| `discovery` | 2 generations of one object, 2 captures, 1 death | an object is open once; a re-discovery leaves the item in hand alone; discovery beside the executor implements the growing `ItemLife` |
| `discovery_live` | 1 item, `maint_dry_run`, 2 captures, 1 death, 2 calls of discovery that raise, fairness | DISCOVERING ends, unless the call that raised was outside the try or the handler's own |
| `health` | 4 changes of the load or of what the monitor can judge, both kinds of item, fairness | at most one item, and with the offline fallback two statements, begin after a stop request; the pause does not cut off a recovery; recovery takes two passed checks; a stop of a running statement ends; STOPPED recovers as long as the monitor lives and judges |
| `window` | 2 clusters, a day of 8 units, windows over midnight, 2 writes | a window that the web shows open on a default slot is one the executor works in; an untouched save keeps the document; the health limits survive a PUT; under the kill switch at most one more item is claimed, and at most its two statements are sent |
| `campaigns` | 2 campaigns, 2 DBAs, 1 table, 2 types, 3 forms, 1 day, a crash, a lost discovery | one live campaign; nothing is revived but by the discovery that found it before it was over, or by an extension; an untouched edit changes nothing |
| `catalog` | 3 entries in 2 spellings, 2 tables, 2 writes, 1 command | stored entries do not overlap in any spelling; what the lists offer passes the validation |
| `console` | see below | the selection settles; bulk approvals stay in their cluster; what is asked for exists; no filter works unseen; cards, timeline, statistics and, where no replica is filtered, the pager of the list agree; previews draw what was detected; charts agree with the rows |

Where a property holds only if nothing failed before, it says so itself, and its comment
says what failed:

- `RunningIsInHand`, `CompletedIsOver`, and `RunningEnds` as an alternative: a call that raises
  before the try of `_execute_item` or in its error handler leaves the item RUNNING with
  no tick that works on it, until the next start.
- `NotRepeated`: a death makes the item run again by design, and so does a write-back
  that raised.
- `ExecutedCompletes`: a death or a call that raises between the write of an item and its
  count loses the count, and nothing makes up for it.
- `OneOpenItemPerObject`: an item that is DONE and whose write-back raised may be put back beside
  the one a newer capture brought for its object.
- `KeptUnlessOvertaken`: `updateOne` names the item id alone, so that a request whose item was
  claimed, finished or given up since its `findOne` writes over that; two statements of one
  item may then run, and its attempts begin anew. Such items are in `overtaken`, and the
  property says that no other way leads there.
- `DiscoveringEnds`: a call that raises after the write of DISCOVERING and before the try, or in
  the handler, leaves the campaign so until the process starts again (`faults.lost`).
- `StoppedRecovers`: a disabled monitor returns before it looks at the gates, and a monitor
  thread that is gone looks no more.

`PausedIsResumable`, `StartedOnlyIfGranted`, `AttemptsBounded` and
`TerminalIsFinal` hold through deaths and failing calls.

`RevivedByDiscoveryOrExtension` allows what CAMPAIGN_FLOW.md wants of an extension. That no
extension gets there at present is what the run `extend_refused` shows.

`WebOpenIsExecutable` is stated for the default slots, without `day_overrides` and
without a campaign's own window, which the web does not look at (section 4); it
relates two programs in two languages and two clocks, and is checked at every
write for times on both sides of each boundary. `OneLive` is not ensured by the API, which
checks and then writes: it holds by the order in which the one discovery thread looks for a
live campaign before a pending one, and because no extension, which could revive one,
passes its check at present (`extend_refused`). `StoredEntriesDisjoint` is not ensured by the API
either, which compares within one spelling of a database: it holds by what the
editor lets a page enter.

### Where code and documents disagree

Each of these runs checks one sentence of a document or of the console's own text, and
TLC finds a behaviour of the code that violates it. `PROJECT.json` quotes the
sentence under `findings`.

| Run | Sentence violated | Behaviour |
|---|---|---|
| `kill_ignored` | once the kill switch is on, the runner takes no new item | the campaign has a `window_override`, and `state_from_override` reads neither `kill_switch` nor `enabled` |
| `extend_refused` | an active or expired campaign can be extended | the schema of the PUT fills in `scope: null`, and the service refuses a scope for a campaign that is not pending |

### Bounds, and why they are enough

- Two items: claim order, deferral and completion need one item in front of another.
  One actor works on one item at a time, so a third adds no new relation.
- Two attempts: one that is retried and one that is the last.
- `MaxWindow` 1 against estimates 2 and 1: one item fits, the other only because a
  rebuild can be resumed, and neither once the window is closed.
- `MaxDeaths` 1: each property relates the state before a death to the state after
  it; a second death finds the same states as the first. Liveness needs the number
  of deaths to be finite, which the bound gives.
- `MaxRaises` 1, in `core` and in `live`: one half-done write-back, whose rest the other actors
  then meet. `MaxFaults` 2: a call of a discovery and the handler's. The theorems of section 5
  hold for any number of deaths and failing calls.
- `MaxRequests` 2: two requests that hold a stale read of the same item.
- `MaxCaptures` 2: one first discovery and one re-discovery. In `discovery` the second one finds
  another generation of the object, withdraws the first or leaves it in hand, and inserts; no call
  of a discovery raises there, which the theorems make up for (any `MaxFaults`, any number of
  items). `discovery_live` has one item, as two take TLC too long with fairness: what it asks is
  about the discovery's own steps and not about the items.
- `MaxChanges` 4: load, relief, load again during the recovery, relief, or the monitor
  disabled and enabled in between.
- `ClaimLoopLimit` is the code's own 100; with two items `Cardinality(deferred) + 1`
  is the smaller term.
- A day of 8 units with an offset of 2, beside windows of 2 and 3 units: the window the
  web shifted touches the executor's or overlaps it; one window goes over midnight and one
  begins at midnight; times at, before and after each bound. One draft is typed, of a
  window over midnight.
- `MaxWrites`, `MaxPuts` 2: one writer writes over what another has read.
- Two campaigns and two DBAs: a live and a pending one; a stale copy and a fresh one.
- Console, which mounts one page at a time, so that its pages add up and do not
  multiply. c1 and c2 are enabled; the browser kept the disabled c3 where the maintenance
  pages begin, and nothing elsewhere; the previews begin with each topic on c4, and look at
  no other cluster. 2 clicks in one visit of a page (a choice, and another over what the first
  has not settled yet); 4 in the form (the last for a choice, a second choice over a
  late answer, the fields and the submit); 1 change elsewhere; 1 capture; pages
  of 1 row, so that lists have a second page; one execution type in the form, where the
  three work alike. `Navigate` arrives where nothing more is clicked. The data are
  chosen for the boundaries: findings at the start and end of a range and a minute after,
  two readings in one bucket, a replica known only by its node, two replicas ("A-1", "A_1") and
  two NUMA nodes of one key, a heap, an
  index that becomes partitioned, a database that disappears, and a schema the
  configuration prefers.

- Time of the console: minutes, of which minute 0 begins a Monday; the run begins at 00:40 of a
  Monday, so that today and this week have begun forty minutes before. All nine presets are
  resolved; a relative range, which `time-range.ts` could resolve, is made nowhere in
  the web. Vietnam has no summer time. An empty range goes back by a millisecond, which in minutes
  is from its begin to before its end.
- `KeyOf` is a constant: which names share a key is what matters of `replicaKey`. Names that
  are whole numbers, which JavaScript orders before others, and empty names of nodes
  are left out.

`CHECK_DEADLOCK FALSE` stands in the configurations of the executor, where `stop()` sets
`_stop_requested` for good and nothing more need happen once the allowed deaths are
used, of `health`, where a monitor thread that is gone leaves the cluster stopped for
good, and of the console, where the last click leaves a page at rest. Everywhere else
deadlock is checked.

### Fairness

`TickStep` is weakly fair: APScheduler starts the tick job every `maint_tick_sec`,
and a thread that has begun a tick runs on; a statement ends (`maint_connection` has
a timeout). `Restart` is weakly fair: the container restarts, and `recover_running` goes through
its documents. `DiscoveryStep` is weakly fair: its job runs every 60 seconds.
`MonitorStep` is weakly fair, and none of its steps is enabled once the thread is dead
(`IntervalReadFails`, which is not fair). Nothing is assumed of
the DBA, the web, deaths, failing calls, the load or whether the monitor judges it; the
time-dependent actions `WindowPasses` and `EndDatePasses` are not fair either, so nothing depends
on a window that opens.

In the console `Settling` is weakly fair: React runs the effects of a render, and a
query that has no answer for its key is fetched until it has one. Nothing is assumed of
refetches, since `refetchInterval` is off unless the live switch is on: an answer that
is there may stay stale for ever. `SelectionSettles` says that even so the effects do
not go on correcting each other for ever.

## 4. Behaviours without a run of their own

The models contain these; no property states the contrary, and each is told here
so that a reader of the properties knows what they leave open.

The runner:

- a history insert that raises after `finalize(DONE)` reopens the item
  (`execute_service.py:499`): `CallRaises` at `succeeded`; the same item keeps its
  `terminal_at`, so the TTL index may delete it while it is open (`Reopen`, `Forget` of `ItemLife`);
- a death during a resumable rebuild: the item returns without `resume_token`
  (`queue_repo.py:262`), and a new REBUILD meets the paused one on the server;
- the claim loop claims the same deferred first item each turn (`execute_service.py:376`);
- STOPPING without a statement in hand is never left (`execute_service.py:272`);
- an offline fallback is sent without a look at the health state, the gates or the window
  (`execute_service.py:553`), also under a stop request or the kill switch: `FallbackBegins`,
  `TickSends`, `RetryOffline`;
- the monitor reads the window once more outside the try of its loop (`health_monitor.py:56`):
  when that read raises the thread is gone, and nothing starts it again: `IntervalReadFails`. A monitor
  that is disabled while the state is STOPPED leaves it STOPPED (`health_monitor.py:61`);
- a call that raises before the try of `_execute_item` or in its error handler leaves the item
  RUNNING (`execute_service.py:376`, `:586`), one at the count loses it (`:602`): `CallRaises`;
- a failing call that leaves the campaign DISCOVERING (`discovery_service.py:94`, `:115`):
  `MarkingRaises`, `HandlerRaises`;
- any error of a rebuild whose text has "pause" or "3643" counts as a pause
  (`execute_service.py:534`, `:42`), also where nothing is held on the server, so that the next
  attempt is a RESUME of nothing: `StatementPaused`;
- the retry of a failed first discovery deduplicates everything it inserted, and the
  campaign becomes COMPLETED (`discovery_service.py:102`);
- the rebuild of one partition counts as resumable, so it skips the budget check
  (`execute_service.py:405`), and is then built without RESUMABLE
  (`statement_builder.py:70`): `Admitted` against `ModeFor`;
- rejected, skipped (on the web) and expired items are in no counter, so a campaign
  that has one stays ACTIVE until its end date (`campaign_repo.py:117`): `Dismiss`;
- `update_status` names no status in its filter, so a discovery writes over a cancel
  (`campaign_repo.py:95`), and a cancel over COMPLETED: `CancelWrite`, `ReportFirst`;
- the dedupe key has no database (`work_item.py:138`): `Fresh` over `DedupeKey`;
- a re-discovery adds the counters it read before it began to the items open at its
  end (`discovery_service.py:160`): `disc.counted`;
- `run_discovery` while a campaign is active re-discovers that one;
- `window_budget_used_minutes` of an override only grows, over all the nights of a campaign;
- a command that runs at a crash stays RUNNING; a command with a scope asks neither
  whether capture is enabled nor for the configuration.

Queue and campaigns on the web:

- a request whose item has changed since its read writes over it (`queue-action-service.ts:89`):
  an item in hand becomes APPROVED or REJECTED under its statement, and one that was done is run
  again: `WebWrite`, `overtaken`;
- reset leaves `terminal_at` (`queue-action-service.ts:78`), and a reset item is
  counted twice; a request that read an item before the DBA rejected it in Telegram writes
  over the rejection (`:97`): `WebWrite`, `SingleUpdate`;
- the form always sends `window_override` with an extension, which EXPIRED refuses
  even without the scope, so the branches that revive and shorten are never reached; an edit of
  DISCOVERY_FAILED always answers 400;
- a request that saw PENDING may change the scope of a campaign that is ACTIVE when
  it writes; pending campaigns are not counted and pile up;
- `end_date` is midnight UTC in one program and wall clock in the other;
- an edit keeps the first database and schema only; a refetch of the databases resets
  the whole form; tables that are gone from the list stay selected.

Window:

- the status bar goes on showing the previous cluster's window while its buttons act
  on the new one; the confirmation survives the change of cluster;
- a stale dialog saves back a kill switch that was set meanwhile, or the defaults if the
  configuration had not come; a refetch wipes what was typed;
- the web counts the history from 7 hours before the window, ignores `day_overrides` and
  the minutes to the end, and shows a slot that ends where it starts as open all day,
  when the executor never works; its reason can never be `budget_exhausted`.

Catalog:

- the mode "specific" with no table is saved as all tables; a modal that is open over
  a refetch appends where it should replace; unsaved entries are wiped by a refetch;
- a PUT replaces the whole document, also one sent before the configuration came;
- a filtered capture becomes the latest run of its database: the list of tables and
  the next discovery see only that table;
- a trend has 30 points and the series of indexes and statistics have all of a range of days,
  which each of the three queries counts from its own present (`catalog-service.ts:385`, `:392`):
  the documents of `CatalogTrends` are those within it;
- the details dialog takes the newest run of the database, so a table that this run does not
  have shows no statistics; a table with statistics made by the server alone shows
  an empty state without the switch that would show them; hidden lines and the view
  survive the change of table.

Campaign page:

- the pager disappears when the total fits one page while a later page is shown; the
  filter of outcomes compares `DONE` with what is stored in lower case;
- row actions go by item id, with no check of the cluster; the button "approve all"
  follows the previous campaign's summary while the new one is on its way, and the
  filter of the server is what keeps it harmless (`BulkStaysInCluster`);
- after a change of cluster the page selects the old cluster's campaign again until the
  answer comes, and a discovery may be queued for the new cluster on the old one's status;
- the page falls back to one campaign and its control to another while none is
  selected; a confirmation outlives a change of campaign.

Dashboard and previews:

- cards override the severity filter; totals and rows are two queries; paging breaks no
  ties, so a finding that arrives between two pages appears twice or not until the next
  fetch; more than 100 pages are cut off;
- a finding exactly at an aligned end of the range is counted, and its bar is not
  drawn; ranges in UTC shift the bars of intervals that do not divide 7 hours; the
  list of replicas is cut off in UTC against wall-clock times;
- the replica filter compares `replica_server_name`, so findings known by node alone
  drop out; it filters the rows of the page that came (`FindingsTable.tsx:14`), so that under it
  the pager tells how many of this page are left, while cards and timeline count every replica; a
  draft of the query hash survives a change of topic;
- where the current bucket of a replica has no value, the tooltip of redo shows the past
  one as current; a later reading without a metric hides an earlier one of its bucket; a range that
  is no multiple of the bucket puts the past line off by up to one bucket;
- replicas, or NUMA nodes, whose names differ only in what is no letter or digit share the line of
  a chart (`AgHealthPreview.tsx:124`): each of them shows the values of the one that
  appeared last in the bucket: `DrawnUnder`;
- the card of the redo samples counts hidden replicas too; suspended counts samples and
  not replicas; a hidden replica that the series loses for a moment is shown again.

## 5. Proofs

The theorems hold for every value of the constants that the named assumptions allow,
so for any number of items, campaigns, clusters, DBAs, deaths, failing calls and writes.
The assumptions say that the constants have their types; what else they say is listed
here. TLC evaluates each of them in a run.

| Assumption | Says beside types | Evaluated in |
|---|---|---|
| `ItemsAssumption`, `RankAssumption`, `ExecutorAssumption` | the items are a finite, nonempty set; limits are positive; `NoItem` is no item | `core` |
| `RequestsAssumption` | | `web` |
| `DiscoveryAssumption` | items of one object have one dedupe key, as the key is the object without its database | `discovery` |
| `HealthAssumption` | | `health` |
| `CampaignAssumption` | the documents' values are told apart from `Null`; what the forms offer is well formed | `campaigns` |
| `DayAssumption`, `WindowAssumption`, `NoDataAssumption` | times lie within a day; typed slots are slots; null and undefined are no documents and null no window | `window` |
| `HistoriesAssumption` | the statements of a history are finitely many, and none took longer than the 7 hours between the two clocks | `window` |
| `CatalogAssumption` | an entry has a database, a schema and a set of tables | `catalog` |
| `ContentsAssumption` | a cluster has a first content; its lists are sequences of names, as the routes answer with arrays of strings | `console` |
| `ScopesAssumption` | the scope of a stored campaign names a database and a schema: `campaigns.schema.ts` refuses empty ones | `console` |
| `InstantsAssumption`, `FindingsAssumption` | the clock and the times of findings are numbers; the findings are finitely many, each with one of the three severities and an id that is a number and its own | `console` |
| `ChartsAssumption` | runs are numbered or have no id; a fragmentation is a percentage or unknown | `console` |
| `PageAssumption` | a page has rows | `console` |
| `ReadingsAssumption` | a metric of a finding is a number or missing; one with a deviation has what deviates, as the detector of Layer 1 writes the `ple_sec` it compared into each (`baseline_detector.py:126`); a replica has a name; a range is a preset or has ends that are numbers | `console` |
| `StartsAssumption` | the clusters enabled and the one kept in the browser have contents | `console` |

| Theorem | Property | Strengthening |
|---|---|---|
| `TypeCorrect` | `TypeOK` | `TypeInv`: past its claim a tick holds an item; the claim loop has a turn left while it runs |
| `GrantedBeforeStarted` | `StartedOnlyIfGranted` | `GrantInv`: approved, running and paused items and the item in hand are granted |
| `PausedCanResume` | `PausedIsResumable` | none, beside the types |
| `AttemptsAreBounded` | `AttemptsBounded` | `AttemptInv`: as long as the tick may still reach the error handler, the attempts it claimed with and those in the document leave one |
| `RunningMeansInHand` | `RunningIsInHand` | `HandInv`: a dead process has no tick, and no open item is marked for the TTL index |
| `TerminalStays` | `TerminalIsFinal` | `HeldInv`: the status of the item in hand at each point of the tick, whatever raised |
| `FinishedStaysFinished` | `NotRepeated` | `HandInv`: what is in hand is RUNNING, so the next claim finds no finished item |
| `ClosedMeansOver` | `CompletedIsOver` | `CountInv`: the counters, the open items and the item between its write and its count add up to no more than the total |
| `ImplementsLife` | `ImplementsItemLife` | all of these, and `UndecidedInv`: an item that awaits its approval was never granted and is not marked for the TTL index |
| `WebKeepsLimits`, `WebStartsGranted` | `KeptUnlessOvertaken`, `StartedOnlyIfGranted` (which no run checks there) under `WebSpec` | `WebInv`: `GrantInv`, and `KeptInv`: what is in hand is RUNNING unless it was overtaken, and a request has read a status its action is allowed in |
| `OneItemPerObject`, `DiscoveryLeavesRunning` | `OneOpenItemPerObject`, `RunningIsInHand` under `LifeSpec` | `LifeInv`: what was found has no document (`FoundInv`), what is fresh no open item of its key (`FreshInv`) |
| `DiscoveryImplementsLife`, `DiscoveryStartsGranted`, `DiscoveryRevivesNothing` | `ImplementsGrowingLife`; `StartedOnlyIfGranted`, `TerminalIsFinal` under `LifeSpec` | `GrowInv`: `LifeInv`, what the refinement of `Maintenance` needs, and that what was granted was born (`BornInv`) |
| `OneItemBeginsAfterStop`, `PauseCutsNoRecovery`, `TwoPassesRecover` | `AtMostOneItemBegins`, `PauseKeepsStop`, `RecoveryIsConfirmed` | `HealthInv`: an item that began is past the gates, and before its fallback one statement of it began (`BeginsCounted`); what the monitor has read counts as passed checks (`MonitorKnows`) |
| `CampaignTypes` | `CampaignTypeOK` | `TypeInv`: the body a request carries is what its mode makes of a form (`PageFits`) |
| `OneCampaignLives`, `RevivedAsMeant` | `OneLive`, `RevivedByDiscoveryOrExtension` | `LiveInv`: once the discovery has found none alive there is none, and what it holds is all that may live |
| `UntouchedEditsKeep` | `UntouchedEditKeeps` | `EditInv`: documents and bodies have the plain form the console gives them; an extension never reaches its write |
| `WindowTypes`, `UntouchedSaves` | `WindowTypeOK`, `UntouchedSaveKeeps` | `WindowInv`: each document has two slots, and so has the body of each PUT |
| `LimitsSurvive` | `HealthSurvives` | `HealthInv`: a request under way carries the limits in force, unless they were changed |
| `WebOpensWhatExecutes` | `WebOpenIsExecutable` | `WindowInv`: a document that was written has its form, and so its default slot |
| `KillStops` | `KillStopsInWindow` | `KillInv`: the item claimed under the kill switch took the only admission, and its first statement leaves room for the fallback alone |
| `CatalogTypes` | `CatalogTypeOK` | `TypeInv`: without an open modal the index is 0; the page's copy and the request are sequences of entries |
| `EntriesStayDisjoint`, `ListedPassesValidation` | `StoredEntriesDisjoint`, `ListedIsAccepted` | `DisjointInv`: so are the entries of the page, of its copy of the document and of the request under way |
| `StoreInvariant`, `HiddenFilters` | `HiddenFiltersAreOff` | `StoreInv`: the store has its fields, its cluster has contents, the page is one of the six |
| `BulkInCluster` | `BulkStaysInCluster` | none: a property of steps that no other step disturbs |
| `RequestsInvariant`, `RequestsListed` | `RequestsAreListed` | `RequestsInv`: the lists on a page are of the keys it shows (`CatalogInv`, `FormInv`), the scope of the form was listed or is the edited one (`ScopeListed`) |
| `RangeInvariant`, `ViewsAgreeAlways` | `ViewsAgree` | `RangeInv`: ranges, drafts and anchors have ends that are numbers |
| `DocsInvariant`, `ChartsAgreeAlways` | `ChartsAgree` | `DocsInv`: each capture has indexes and statistics of the form the collector writes |
| `PreviewInvariant`, `PreviewsAgreeAlways` | `PreviewsAgree` | `PreviewInv`: the answers are lists, the range has ends that are numbers, and a hidden replica is in the legend |

Why the strengthenings are needed. `started \subseteq granted` says nothing of an item
that is approved but not started, and the next statement is sent for just such a
one: the grant has to be followed through every status on the way. RUNNING in
the database says nothing of TTL: were an open item marked, the index could delete
the item in hand, so `HandInv` says none is. `TerminalIsFinal` needs to know what
`release` and `finalize`, which filter on the id alone, will overwrite: `HeldInv`
says it is a RUNNING document, none at all, or the DONE one whose write-back raised.

`CompletedIsOver` speaks of the moment the counters reach the total, and it is false
of a state in which they reached it by counting an item twice. `CountInv` is the sum
that excludes it: an item leaves the open ones when it is written and enters
the counters one step later, and in between it is the 1 of `OnTheWayToCount`. A death there
loses the 1, so the sum is an inequality; an open item never comes back (`OpenShrinks`),
so it never grows. Without a death or failing call it would be an equation only if
rejections were counted, which they are not.

The web writes over what its item has become, so under `WebSpec` the item in hand
need not be RUNNING (a stale reset may have made it APPROVED), and `HandInv` is not
inductive. `KeptInv` is what is left of it: an item that was never overtaken is RUNNING while it
is in hand, so that its write-back finds what the tick claimed; and a request that finds the status
it has read, finds one its action is allowed in, so that it neither takes an item out of hand nor
approves one that is done. A reset sets the attempts to 0 and is allowed only where an item is
over.

Discovery reads the queue and inserts several steps later. `FoundInv` and `FreshInv` say
what it read is still true then, and their proof is one about the others: an id without
a document gets none (`AbsentStays`), and no item comes open again (`OpenShrinks`). The second
needs that no write-back raised, which is why `OneOpenItemPerObject` has that condition; TLC
gives the behaviour without it.

`OneLive` is not the API's doing, so the invariant is about the discovery alone: the order of its two
queries; the expiry by a tick between them only takes life away. For `KillStopsInWindow` the counts
are not enough, for one more item may be claimed whenever a tick still holds an admission from
before; `KillInv` says where the tick is for each count. `BeginsCounted` does the same for a
stop of the health monitor.

`putCatalogConfig` compares names of databases as they are spelled, so that nothing it checks
keeps two spellings apart: `DisjointInv` follows the entries through the page, where they are
checked one by one, to the request and to every page that fetches them. Grouping by database
changes their order only, which is what `GroupedPermutes` shows: `Grouped` puts at place `k` the
one entry with `k` entries up to it, and since those sets are nested and differ, counting them is
an injection of the places into themselves and so a surjection (`PlacesDiffer`).
`ListedPassesValidation` then needs no more: a list comes from captures only where an entry stands
for all tables of its schema, and such an entry is alone, so that the merge is empty.

`RequestsAreListed` speaks of what is on its way, and what is sent is what the page
shows. So the invariant is about the page: each list is Null or one that was listed for the
database and schema that are chosen *now*, whatever was chosen when it was asked for. That is
what a query without placeholder data gives (`TablesAtKey`). The catalog page needs no more,
because it sends only at rest, when its table is one of its list (`ChosenIsListed`). The form
keeps its selection when its lists change, and needs `ScopeListed`: each level was in some list
for the levels above it, or is the edited campaign's; nothing is chosen below an open level, so
emptying one (`PickDatabase`) has to empty those below. Answers only get more
(`VersionsGrow`), so what was listed stays listed. `HiddenFiltersAreOff` is inductive but for
types: a record update means something only for a store that has the field.

`ImplementsGrowingLife` lifts each step of `Life` to one of `Grown` (`LifeIsGrown`): a step of the
executor gives no document to an id without one (`BornStays`), so that beside the steps of
`Maintenance` only the insert of a discovery and its withdrawal of open items are left to look at.

`WebOpenIsExecutable` compares two sums over the same history. Both windows begin at the same
instant, which is arithmetic on the remainder of an instant by a day (`BoundsFacts`). The web counts
what started since 7 hours before that, the executor what ended since then; as no statement takes
longer than those 7 hours, what the executor counts is among what the web counts, and the web has at
most as many minutes left (`MinutesGrow`).

What several views tell of one set of findings is about sums over parts of it. A theorem that
adds by induction over a set is out of reach here, so `PartsAddUp` counts by a bijection: `counts[x]`
numbers the elements of each part, the pairs of a part and a number are as many as the sum, and
each element of the whole is one pair. The timeline, the cards, the statistics and the samples of
a preview are its instances. `ViewsAgree` relates them to what the pager of the list shows
(`TotalShown`), which is their total as long as no replica is filtered (`TotalOfList`). The highest of a chart is the highest of the highest of its parts
(`HighestOfParts`), where all parts may be unknown; a run has at most one capture
(`DocsInv`), so that a point of a chart and the row of a list are of the same document.

`PreviewsAgree` relates lines, which go bucket by bucket, to cards and findings, which do not. A
line finds its values by a key: what it draws is always what some replica of that key has
reported (`DrawnIsReported`), and where a replica is alone with its key, it is that replica
(`AloneLineValues`). For such a one, what
the line ends with is the newest reading of its replica, because places are ordered by time and then
by place (`BeforeIsAnOrder`), the newest of all is the newest of its bucket (`NewestInBucket`), and
a later bucket holds nothing older (`BucketsOfRange`). The past range starts where the shift puts
it and not on a bucket; `BucketsBelow` says that what was detected there still lies below a bucket of
the shown range, at most one off, and none off where the shift is a number of whole buckets. `PreviewInv` is needed since an answer is
collected page by page, over keys that change: a page is a list whatever number it has
(`PagesAreLists`), and the legend is cut down whenever the series changes (`RerenderedKeeps`).
The proof found a flaw that TLC could not: where guards of a CASE overlap, TLA+ does not say which
alternative is taken, and TLC takes the first one. Such tables of thresholds and intervals are
written with IF now, in the order of the code.

The proofs of `Maintenance` go from the operations to the steps to the invariants. One lemma for each
`QueueRepo` operator says which fields of which item it changes (`ReleaseFacts`,
`FinalizeFacts`, `BulkFacts`, ...). One lemma for each group of actions that uses it
lifts that to the step (`ClaimStep`, `ReleaseStep`, `FinalizeStep`, `QuietStep`,
`RestartStep`, `DecideStep`, `TtlStep`), and `StepCases` sorts every step into one of the
groups. Each invariant is then one proof by these cases, and so is the refinement:
`ClaimIsBegin`, `ReleaseIsLeave`, `FinalizeIsLeave`, `RecoverIsLeave`, `ApproveIsGrant`,
`DismissIsRefuse` and `TtlIsForget` say which step of `ItemLife` each group is.
The web's reset is an action of `MaintenanceWeb` and no part of `Maintenance!Spec`, so
the refinement says nothing of it: a reset takes an item from over to open.
`Discovery` and `MaintenanceWeb` compose `Maintenance!Next` with steps of their own, and their
proofs cite its lemmas for the former and add one for each of the latter.

Only model-checked:

- the liveness properties and everything that needs `ENABLED`: fairness is out of the
  prover's reach.

Every invariant and every action property of a passing run is stated by a theorem.

## 6. Not modelled

- T-SQL text, history documents, fragmentation measurements, messages of Telegram:
  nothing reads them back but the window budget, which sums history.
- Which catalog objects pass which threshold: discovery may find any set of new
  items, at most one for an object.
- The answers of policy, gates and primary lookup: any answer, each time. In
  `Executor` so is the window; its arithmetic is in `WindowTime`.
- Time: estimates and the window are small numbers; `remaining_minutes` is read once
  per tick as in the code, and the window may close at any moment.
- Several clusters in the executor: clusters share no document except through
  `recover_running`, which is one `update_many` over the documents of all of them.
- Errors of queries in the console (data stay as they were), answers out of the cache on the
  campaign page (they come as any other), rate limits of the API, the
  20-second timeout of a killed session, the wording and layout of pages.
- Finding details and their modals, insights, settings, the query plan viewer with its
  glossary, and the proxy to the agents: they render what they are sent, or write one document.
- Layer 1, Layer 2 and the notifications, each with its reason in `PROJECT.json`.

## 7. Plan

1. `Commands`: busy triggers, death and restart over a RUNNING command.
2. Layer 1: topic jobs and roles, finding deduplication across a crash, the bounded
   notification queue; the blocking chain as a graph algorithm, from the detector to
   the modal that draws it.
3. Layer 2: the agent loop and its bounds, insight upserts.
4. That the pages of a list neither repeat nor lose a finding, while findings come in.
5. `Console` as an implementation of a page whose answers come at once.
