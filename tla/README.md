# Verification project of the dark web scanner

This directory holds TLA+ specifications of the threat intelligence platform in
`src/`, model-checking runs for TLC and proofs for TLAPS. The platform is one
Flask application (`src/src/darkweb_scanner`) with a PostgreSQL database, plus a
command line that shares the database and the data volume with it. The
deployment runs one gunicorn process with eight threads
(`docker-compose.yml:92-100`); cron or a person runs `scan` in other processes.
Paths below are relative to `src/src/darkweb_scanner/`.

## 1. Inventory

What can go wrong here is seldom in a function and often between two of them:
request threads, background threads, other processes and restarts share rows,
files, locks and in-process counters.

| Component | State it keeps | Operations | Talks to |
|---|---|---|---|
| Crawl lifecycle (`dashboard_routes.py:540-700`, `main.py`, `crawler.py:80-330`, `storage.py:420-610`) | rows of `crawl_sessions`, counter `_local_crawls`, file `crawl.stop` | start, stop, status, the crawl thread, `scan`, heartbeat, sweep | database, file, Tor |
| Crawler (`crawler.py`) | frontier, visited pages, counters | fetch a batch, save a page, follow links | Tor client, keyword scanner, alerter, storage |
| Alert sender (`alerting.py:83-134`) | bounded queue, one thread | offer, send, flush | webhooks, the alerted flag of a hit |
| Projects and hit matching (`main.py:81-125`, project routes) | projects, their keywords, domains and entities, `project_hits` | edit, pause, delete, match a new hit | database, crawl |
| Heavy job limiter (`dashboard/jobs.py:40-200`) | `_total`, `_per_user`, a flag per slot | acquire, release, run in the background | every heavy route |
| Digest, DNS recon, breach checks (`dashboard_routes.py`) | `_digest_sending`, job rows | take a slot, start a thread, write the row | limiter, database |
| DNS recon (`dns_crawler.py`) | what one recon has found, the geolocation cache, its row | records, passive sources, transfer, brute force, probes, enrichment | resolver, third parties, fan-out pool |
| Fan-out pool (`jobs.py:204-266`) | shared pool, a gate per call | run items with a limit and a deadline | lookups of many routes |
| Rate windows, paced queue (`jobs.py:281-371`) | stamps, a queue and its thread | wait for a slot of an upstream's quota | IP lookup |
| IP lookup (`ip_lookup.py`) | queued extras per lookup, its row | look up, complete later | cache, windows, queue |
| Quick Scan (`quick_scan.py`, `dashboard_routes.py:3790-3900`) | `quick_scan_sessions` | start, cancel, the scan thread | limiter, Tor client, database |
| Upstream cache (`upstream_cache.py`) | ordered table of entries, one fetch per entry | get, peek | feeds, IP lookup |
| Outbound HTTP (`http_client.py`) | none; the redirects of one fetch | check, connect, follow | every third party |
| Channel Monitor (`channel_monitor_routes.py`, `channel_monitor.py`) | the active job, `job.json`, folders, ZIP files | start, export, finish, download, delete, retention | file system, threads, Telegram |
| Sign-in (`auth.py`, `auth_routes.py`) | user rows, session version, TOTP step, throttle rows, the cookie | log in, verify, enrol, change password, log out | database |
| User administration (`dashboard_routes.py:740-860`) | user rows | delete, promote, reset | sign-in |
| Settings files (`file_store.py`, keyword and seed routes) | keyword and seed files, a lock per file | add, import, remove, read | crawl, command line |
| Database migrations (`migrations/`, `storage_helper.py`) | schema, revision mark, advisory lock | create or upgrade at start, downgrade | every process |
| Keyword scanner, reports, feeds, WHOIS and DNS parsing, validation, Telegram scan, front end | none shared, or none | pure functions, I/O, layout | the above |

### Hard behaviours

* The decision "no crawl is running" is taken from three places that no lock
  covers together (row, counter, stop file), by threads and processes that may
  die or stall at any step.
* The slot of a heavy operation belongs to two threads at once, its request and
  its job; either may have to give it back, and both may try.
* A Quick Scan and its cancel route read the same row and then write it; so do
  two changes of a session version, and a recon and its enrichment.
* `Thread.start`, the database, a file or the Tor client fail between the step
  that claims something and the step that gives it back.
* A process restarts under rows, folders, queues and files that say "running",
  under a half-written file, or half way through a migration.
* A fetch ends by exception, by a `BaseException`, or long after the caller's
  patience; the entry that recorded it may have been evicted meanwhile.
* Items of a bounded pool call the pool; the time limit of a call passes while
  its items run.
* Pages of a batch overlap and fail, and their links depend on them.
* The retention sweep takes no lock while jobs start, downloads pack and people
  delete.
* Names change their addresses between the check and the connection.

### What makes each part correct

* **Crawl lifecycle**: one crawl at a time over all processes; a crawl is taken
  over only when it is gone; claims come back; a stop reaches the crawl it was
  meant for, and no other.
* **Crawler**: breadth first whatever fails; "completed" means complete.
* **Heavy jobs, pool**: counters equal slots held; work stays inside the limits;
  every slot, lock, row and worker comes back, whichever step failed.
* **Quick Scan**: a thread that ended told its row; a cancel that was seen is
  kept; a scan ends.
* **Upstream cache**: one fetch per key; a failed or killed fetch does not block
  its entry; an outage costs one call per back-off period.
* **IP lookup**: a row says "pending" only while somebody works on it.
* **Outbound HTTP, DNS recon**: no connection into the private network; keys and
  bodies go to the host they were meant for.
* **Channel Monitor**: one job at a time; the files never say "running" of a job
  nobody runs, once somebody reads them; a delete or a sweep never hits the
  active job; a download holds what its folder holds.
* **Sign-in**: a code works once; a session older than the last password or
  second-factor change is out; a lock on failures holds.
* **Alerts**: a hit is marked alerted only if its alert was queued and tried.
* **Projects**: a hit is recorded once in each project it meets.
* **Settings files**: a change is atomic and none is lost.
* **Migrations**: the mark of the database tells its schema.

The hazards, each at its line, are in `PROJECT.json`.

## 2. Modules

| Module | Role |
|---|---|
| `CrawlRegistry` | abstract specification: what the table of sessions promises |
| `CrawlLifecycle` | the crawl lifecycle of dashboard and command line; implements `CrawlRegistry` |
| `CrawlPages` | the walk of one crawl over pages and links |
| `AlertSender` | hits, the queue of alerts, its thread and the marks |
| `HeavyJobs` | limiter, slots, and the four kinds of operation that hold one |
| `FanOut` | the shared pool and the calls that fan out |
| `IPLookup` | lookups, the rate window, the paced queue, the rows |
| `DnsRecon` | one DNS recon and the enrichments of its row |
| `Projects` | projects, the requests that edit them, the match of a hit |
| `SettingsFile` | abstract specification: what a file of settings promises |
| `Settings` | the steps of the requests that rewrite it; implements `SettingsFile` |
| `QuickScan` | the Quick Scans of one user |
| `UpstreamCache` | the answers of third parties, the fetches and who waits for them |
| `SafeFetch` | one outbound fetch with its redirects |
| `ChannelMonitor` | jobs, folders, ZIPs and the retention sweep |
| `ChannelExport` | the export of one channel within its limits |
| `SignIn` | one account: password, second factor, sessions, throttling |
| `Migrations` | the schema and its revisions |
| `CrawlProofs` | theorems about `CrawlLifecycle` and `CrawlPages` |
| `HeavyJobsProofs` | theorems about `HeavyJobs` and `FanOut` |
| `UpstreamCacheProofs` | theorems about `UpstreamCache` and `SafeFetch` |
| `RecordProofs` | theorems about `IPLookup`, `DnsRecon`, `Projects` and `Settings` |
| `ScanProofs` | theorems about `QuickScan` and `AlertSender` |
| `ChannelProofs` | theorems about `ChannelMonitor` and `ChannelExport` |
| `SignInProofs` | theorems about `SignIn` and `Migrations` |
| `QueueLemmas` | lemmas the proofs share: queues, sets in some order, induction, loops |
| `MC...` | instances for TLC |

Definitions named `Bug...` are plausible mistakes in the definition that follows
them. No action uses them; they show that a property can fail.

**Sums.** Some MC modules check several components in one run: `MCCrawlWalk`
(`CrawlLifecycle`, `CrawlPages`, `AlertSender`), `MCJobPace` (`HeavyJobs`,
`IPLookup`, `DnsRecon`, `Settings`, `Projects`), `MCJobPool` (`HeavyJobs`,
`FanOut`), `MCUpstreamCache` (with `SafeFetch` and `QuickScan`), `MCChannelMonitor`
(with `ChannelExport`), `MCSignIn` (with `Migrations`). The parts share no variable. A
behaviour chooses its part at the start and the others keep one initial state, so
the state space is the sum of the parts and not their product, and a property of
one part holds of the sum if and only if it holds of that part. Where parts do
meet in the code, each contains what it needs of the other: `CrawlPages` has the
stop file and the halt, which others write at any time; `DnsRecon` starts with
its slot held; `ChannelMonitor` knows of an export that it ends somehow.

### CrawlLifecycle

`row[s]` is the row of session `s` with its status, its owner and the age of its
heartbeat counted in heartbeat periods up to `StaleAfter`. `sessions` is the
sequence of ids. `job[s]` is the thread that runs the crawl: where it is (`at`),
`Crawler._halted` (`halt`), `Crawler._stopped` (`stopSeen`), the status it
will report (`final`), and what `update_crawl_session` read before it writes
(`ended`). `req[r]` is a request thread of the dashboard, `local` is
`_local_crawls`, `flag` is `crawl.stop`. `flag.since`, the number of sessions
when the flag was written, is a history variable: no guard reads it.

A database transaction is one step; a routine with several transactions is
several steps. So `begin_crawl_session`, which holds an advisory lock, is one
step (`InsertSession` or `RefuseSession`), while `update_crawl_session`, which
reads the row and then writes it, is two (`EndReads`, `EndWrites`), and
`_end_stale_crawls`, which reads the counter and then sweeps, is `Arrive` and
`Sweep`. Faults: `db` (a begin or the end of a session is not
written), `config` (a file or the Tor client fails before `run_scan`),
`unlink` (the old stop file cannot be removed, and the request ends with its claim
kept), `spawn` (`Thread.start` raises). `DashRestart` and `CliCrash` kill threads at
any step and keep rows and flag.

What it does not say: a heartbeat that fails is one that does not come before
the next `Tick`; a sweep that raises is left out (the route answers with an
error and changes nothing). Ctrl-C of the command line is `CrawlFails`. The name
of the dashboard's owner (host and pid) is the same after a restart, as it is in
a container; were it different, only the heartbeat would decide. Sessions
without an owner (`telegram-scan`) are never the running crawl and are left out.
The crawl loop is here only where it looks at the stop signal, ends, or fails;
the rest of it is `CrawlPages`.

### CrawlRegistry

What the table says of each session, the running ones whose heartbeat has lapsed,
those begun under the dashboard's name, and those whose crawl has begun to write
its end. `Begin` needs everything that runs to have lapsed and interrupts it.
`Interrupt` takes a session that has lapsed or has the dashboard's name: by that
name alone `_end_stale_crawls` decides, so the specification cannot forbid it
(`CrawlFreshKept` shows what follows). `BeginReport` and `Report` are the two
steps of `update_crawl_session`, so a crawl that was interrupted in between, and
only that one, has its own end written over it (`CrawlInterruptedKept`); one that
was interrupted before keeps that status. `Abandon` is a write that never comes,
`Lapse` is time. The refinement mapping reads all four from rows and threads.

### CrawlPages

`frontier`, `visited` and `batch` are those of `Crawler.crawl`; a page of a batch
waits, is fetched and has a result, in any order, and `Take` hands the results to
the loop of `run_scan` in the order of the batch. What a page links to is chosen
when it is fetched, and a fetch may fail. `stopFile` comes and
goes at any time, as the routes write and remove it; `halted` is what a heartbeat
sets. Storing a page may fail. The count of a domain is of finished pages and is
looked at when a link is queued, as in the code. Delays, circuit rotation and the
text of pages are left out.

### AlertSender

Hits are numbered in the order they are found; for each, `at` goes through
`save_hit` (row, match, alert, mark). A full queue drops the alert and the row
stays unmarked. The code marks a row when its alert is queued, and a process may
end with alerts unsent after the bounded `flush`; `MarkedIsTried` says which
marks are true of a process that was not cut short. `on_sent` has no caller. A
process that has no channel to alert on queues nothing and is left out.

### HeavyJobs

`total` and `mine` are the limiter's counters, `slot[o]` the slot of operation
`o` with `_released` as "marked", `at` where the request and the thread of `o`
are. Four kinds: a `@heavy` route; a breach check without HIBP, which has a row
but works in the request; a job (DNS recon, breach check with HIBP); the digest,
which is a job without a row behind a lock. Faults: `row` (create fails),
`save` (final write fails, or the sweep at start does), `start`
(`Thread.start` raises), `late` (it raises although the thread runs).
`Restart` is always possible.

### FanOut

`fan[c]` is a call with the next item it submits, the permits of its gate and
whether its time is up; `poolQueue` and `worker` are the executor. A call made by
an item runs its own items in that worker's thread (`_worker.busy`), which may
nest. `result` is the list the items write to, `returned` the copy the caller
got; both are kept to tell whether a late item reaches the caller. The time limit
of a call in `Timed` may pass at any step. `SubmitFails`: the pool cannot start a thread
and `submit` raises, which ends the call and leaves the item in the queue.

### IPLookup

`request[l]` is the route, `row[l]` its row, `pacedQueue` and `pacer` the
`PacedQueue` with its one thread, `window` the stamps of `VT_WINDOW` as ages,
`kept` the addresses whose extras the cache has. Each write of a row may fail.
`excused` (history) holds the rows that a failed write, or a stop between the
saving of a row and its being set to running, leaves pending, as the code does.
A VirusTotal call takes its turn of the window and may then fail. At start the rows
that say running are closed; that this succeeds is assumed. Ids are not reused.

### DnsRecon

Phase 1 is four parts that answer in any order or not in time; names and
addresses are chosen by the resolver, anew for every query. `found` is what the
recon keeps, `touched` every address it connects to or looks up backwards, `listed`
the addresses of its result with their source (the recon's own resolving, a zone
transfer, DNSDumpster), `located` the geolocation cache. The records of a transfer
and what DNSDumpster names are stored as they came. `probe[n]` checks a
name and later connects to what it has checked. An enrichment reads the row's
result and writes it back in another step. The probe of one host may connect any
number of times, more often than the code does; with one public address `GeoMax`
is not reached; e-mail security analysis and technology detection are data.

### Projects

One row of `projects` and of its keywords, domains and entities per id; a request
looks the project up (`AskProject`) and changes it in a later step; the match of a
hit reads the active projects, then their tables one by one (`LoadRows`), as edits
go on between them, and then takes the projects in turn. A pattern that an
older release stored and this one refuses is never met. An archived project is
like a paused one. Deleting a project leaves rows of a match that goes on behind;
nobody can reach them.

### Settings and SettingsFile

`SettingsFile` has one action that changes the file: all of a request's change, at
once, made to what is there. `Settings` is `file_store.py` step by step: lock,
read, write a temporary file, rename; a request fails or the dashboard dies at any
of them, and others read whenever they like. The refinement mapping reads the
content of the file through the fallback to the bundled file, and of a request
whether its change is done. Comments, the `settings:` block and the order are
layout. The list of digest subscribers is not such a file (see the hazards).

### QuickScan

`status[s]` is the row, `worker[s]` the thread, `seen[s]` the cached answer of
`_cancel_requested`, `req` the start and cancel routes. Reading the row and
writing it are separate steps, as they are separate transactions. `lost` marks a
thread that ended, or never started, without a word to its row: Tor client
outside the `try`, failing start, failing handler, restart whose sweep failed.
Other users appear only through the limit of slots; the sources, variants and
findings of a scan are data and left out.

### UpstreamCache

`order` is `_entries`, `entry[e]` an `_Entry` object, `call[t]` what thread `t`
does inside `get`. What a thread does under `_lock` is one step; the fetch and
`done.set()` are outside the lock and are steps of their own. Entries are object
identities, each labelled with the key it can stand for (`KeyOf`), because a
thread keeps its entry when the table drops it and makes another for the same
key. An entry that neither the table nor a call refers to is collected and its
identity used again. Ages are counted in ticks up to the age at which nothing
changes any more. `call[t].well`, whether the fetch that was waited for
returned, is a history variable: no guard reads it. A fetch returns, raises, or is cut
off by a `BaseException`.

`peek` only reads and `clear` is for tests; neither is an action. The answers,
their copies and the counters are data. `stale_for` decides which answer is
handed out and not who fetches. The run has the setting of the IP lookup, `stale_for = 0`
(`ip_lookup.py:56`), where a waiter may find the answer too old. A failure is
remembered by its entry, so eviction forgets it: `OutageCostsOneCall` speaks of
the entries in the table.

### SafeFetch

One call of `safe_fetch`, `fetch_public` or `fetch_public_redirects`, chosen with
its method and URL at the start. Each hop applies the policy of its function,
resolves the name once, refuses the whole answer if one address is internal, and
tries the addresses in turn; servers redirect to any URL. `sent` (history) is the
last request that went out. TLS and the reading of a body are I/O.

### ChannelMonitor and ChannelExport

`active` is `_active`, `worker[j]` the thread, `disk[j]` the folder and its `job.json`,
`zip[j]` the download. What `_jobs_lock` covers is one step; a ZIP is built over several
steps under `_zip_lock`; the sweep takes one file or folder at a time under no lock. The
sweep notes the active job under the lock and lists the directory after it
(`SweepNotes`, `SweepLists`), so a job that starts in between is listed and not spared,
and only its age keeps it. Every write, unlink and deletion may fail and leave a part
behind, a ZIP may be older than its folder when it is built, and `Restart` may come at
any step. `told` (history) is how a job's end was last told; the error that a start
answers with when its thread cannot start names no job and is not counted. The sweep is
assumed to take less than the retention time, and one sweep runs at a time; half-built
`.part.zip` files and who owns a job are left out. Ids are drawn at random and not
twice.

`ChannelExport` reads messages and media until the limit of messages, a full disk,
a failure, or the end; the size that Telegram states may differ from the one that
arrives. Bytes that a failed download leaves behind are not counted, as in the
code.

### SignIn

One account, several browsers and requests. Every call of the storage is a step.
`account` is the row of `users` with `user_security`, `throttle` the rows of
`auth_throttle` for the account's name and id, `cookie[b]` the signed cookie.
`account.secret` and `account.pending` are the second factor in use and the one that was
shown; a request keeps both as it read them. History variables: `spent` (what was
accepted, pairs of a secret and a step), `again` (secrets that were enrolled twice),
`cookie[b].ended` (set when a change is stored, not when the version is raised), `cut`
(the request of such a change was cut off before it raised the version), `muddled` (two
requests read the same version). `account.last` is `totp_last_step`, which `Confirm`
sets whatever it was; `Accept` is the one conditional `UPDATE` that claims a step.
Looking at a lock, checking and clearing it are steps of their own, and so is the
removal of the mark that a password must change (`Unmark`). `BumpReads` and `BumpWrites`
are `bump_session_version`. The throttle per address is left out (it only refuses more),
as are audit rows. The version starts at 1 and is bounded by `MaxVersion` where the code
wraps at 2^30. An id is not used again; what a request still writes for a deleted
account is cut off.

### Migrations

`db` is the committed database: its revision mark and its schema as tables with
their columns. A starter (thread of the dashboard, or command) peeks, takes the
advisory lock in a transaction, reads the mark again, and creates the tables or
applies the revisions that are missing; `Fail` and `DashDies` may come at any
step. The dashboard's threads share one Storage behind `_storage_lock`. It is
PostgreSQL only, without rows, column types and all indexes but one; a database
of a release up to 1.2.0 is taken to have the columns of the baseline.

## 3. Runs

| Run | Question | Bounds | Result |
|---|---|---|---|
| `CrawlSafety` | can two crawls run, does a thread work for a row that is not its own, can an old flag stop a dashboard crawl, can a fresh `scan` be interrupted; is a page stored too deep, is "completed" complete; is a mark true | 2 request threads, 1 `scan` process, 2 sessions, 1 crash, all faults; 5 pages of 2 domains, depth 2, batches and domains of 2, 3 lists of links; 4 hits, a queue of 2 | holds |
| `CrawlLiveness` | do gone sessions end, interrupted crawls halt, flags get seen, claims come back; does the table implement `CrawlRegistry` | 1 request thread, 1 `scan` process, 2 sessions, 1 crash, all faults | holds |
| `CrawlInterruptedKept` | does an interrupted crawl keep that status (`storage.py:590`) | 1 request thread, 1 session, no faults | violated |
| `CrawlFreshKept` | is a fresh crawl of the dashboard ever interrupted (`storage.py:564-566` says no) | 2 request threads, 1 session | violated |
| `CrawlStopHonoured` | does a stop end the crawl it was written for (`dashboard_routes.py:664`) | 1 request thread, 2 sessions, no faults | violated |
| `HeavyJobsSafety` | do the counters equal the slots held; is a pending row worked on; does a recon stay outside; is a hit recorded once where it belongs; is a change of the settings one step | 4 operations of 2 users, limits 3 and 2, all faults; 3 lookups of 2 addresses, a queue of 1, 2 calls per 2 ticks; 4 names, 2 addresses, 1 enrichment; 3 entries, 2 requests; 2 projects, 2 rows, 1 hit, 1 request | holds |
| `HeavyJobsService` | does work stay within limits, do slots, lock and rows come back; does every fan-out return, and does its answer stay | 5 operations of 3 users, limits 2 and 1, `row` and `start` faults; a call whose 2 items call, 2 workers, 2 permits, 2 time limits | holds |
| `QuickScanCancelIsKept` | is a cancel kept (`quick_scan.py:292-294`) | 2 request threads, 2 scans | violated |
| `QuickScanSingleActive` | is one scan active per user (`dashboard_routes.py:3808`) | 2 request threads, 2 scans | violated |
| `CallsAndScans` | one fetch per key, waiters served, one failed call per back-off, every call returns; does a fetch only go where it was checked; what does a Quick Scan leave in its row, and does it end | 2 threads, 3 keys with 2 entries each, a table of 1, ages up to 1; 3 hosts of which 2 listed, 3 public and 1 internal address, 3 redirects; 2 request threads, 2 scans, 1 restart, all faults | holds |
| `ChannelMonitorJobs` | do slot, thread and folder agree, does an end that was told stay, is a ZIP that of its folder; do media stay within the limit | 2 jobs, any number of restarts, downloads, deletes and sweeps; 4 messages, sizes up to 4 | holds |
| `SignInChanges` | does a code work once, is an ended session out, does a lock hold; is the schema the one of its mark | 2 browsers, 2 requests, 2 secrets, 2 codes, 3 versions, locks at 1 and 2 failures, in three parts; 3 starters, 1 downgrade | holds |

Why the bounds are enough: every conflict in the crawl lifecycle is between one
crawl and the next, so two sessions reach all of them; a third only repeats the
second. Two request threads give every race of two routes (threads beyond the
second wait or repeat). `MaxBeatAge = StaleAfter = 2` lets a crawl stall until
it is stale, and be fresh, half old or stale when another step happens. One
crash separates "before" and "after"; a second crash only returns to a state of
a smaller instance. The walk of five pages has a domain that fills, a seed twice,
more seeds than a batch takes, links back, and a page reachable at two depths. Four
hits fill a queue of two while the thread sends one and drop another.

In `HeavyJobsSafety` three operations of one user compete
for two slots of that user and, with a fourth, for three slots in all, so each
limit is reached separately and together; the safety theorems below hold for
every number. Three lookups fill the queue of one and the window of two, and two
of them share an address, so the cached extras are used too. The recon has a host in
the word list, one that only answers name, one outside the domain and one of
the private network. Two requests on three entries, one of which is not valid,
lose each other's change if the lock fails; any number is covered by the theorem.
One request at a time edits projects beside a match of two: what a match can meet
is some change between any two of its steps, and requests follow each other.
In `HeavyJobsService` two inner calls take both workers of the pool: the
deadlock that calls from the pool would cause needs no more.
In `CallsAndScans` two scans of one user and two requests give start against
start, start against cancel and cancel against the thread. A table of the cache
of one entry evicts at every miss; with three keys a
third can push out the entry that one thread still holds while the other makes a
second entry for the same key, and two threads never hold more than two. Two
jobs of the Channel Monitor are the active one and one on disk; the sweep, one
download per job and the deletes run between any of their steps. There a job is
interrupted or ends in an error, since nothing in the table tells a completed job
from one that failed, and at most one download waits for another. Two requests of
one account send a code twice, change a password during a sign-in, or end
sessions at the same time; three versions let two changes follow each other. The
instance is three: `codes` (one browser at a time, factors replaced and confirmed
again), `sessions` (both browsers, two versions, the factor not replaced) and
`locks` (one browser at a time, failures noted), because what each is about does not
need the rest of the others; the theorems have no such split. Three
starters are two threads that share a Storage and a command that does not.

Deadlock is checked in every run. What really ends (a recon, a walk, an export, a
fetch, the calls of a pool, a process that alerts) stutters there and only there,
which the MC modules say.

### Findings

1. `CrawlFreshKept`: a status request reads "no crawl here", a start request
   claims, inserts its session and begins, and the status request's sweep then
   interrupts it, because the session bears this process's own name. The crawl
   halts at its next heartbeat.
2. `CrawlStopHonoured`: `run()` removes the stop file as its last statement,
   after the session has ended and the claim was released. A crawl started in
   that gap can have its stop request deleted.
3. `QuickScanCancelIsKept`: a cancel answered between the scan's read of its row
   and its write of "running" is overwritten, and the scan completes.
4. `QuickScanSingleActive`: two start requests both see no active scan.
5. `CrawlInterruptedKept`: `update_crawl_session` reads the row and then writes the
   end; a sweep in between ends the row as interrupted, and the crawl's own end is
   written over it, status and reason.

Met while modelling; no run, but the models contain each of them and the
properties set it apart by name:

6. `upstream_cache.py:102`: a caller that finds a fetch in flight gets the default
   at once when the entry has an answer that is past `ttl + stale_for`, although
   lines 7-8 say it waits. It is the disjunct of `AtOnce` about an entry in flight.
7. `storage.py:803`: two requests that read the same pending secret both confirm it,
   and the second takes `totp_last_step` back (or enrols the same step twice): a code
   that was accepted works again (`again`).
8. `auth_routes.py:279`: a request that is cut off after its change was stored ends
   no session (`cut`).
9. `storage.py:883`: two overlapping changes raise the session version by one, and
   a session issued between their writes survives the second (`muddled`).
10. `dns_crawler.py:245` and `dashboard_routes.py:1835`: the records of a zone
    transfer, and the addresses DNSDumpster names, are stored unfiltered, although
    `dns_crawler.py:11-12` says that addresses that are not public are left out of
    every result (`Lists`, with its sources).
11. `channel_monitor_routes.py:459`: the sweep unlinks ZIPs without `_zip_lock`, and
    (452) misses one that was finished after it listed the directory (`stray`).
12. `crawler.py:175`: the limit of pages per domain counts finished pages when a
    link is queued, so more than the limit may be queued and fetched.
13. `dashboard_routes.py:1288`: a process that stops between the saving of a lookup
    and its being set to running leaves its extras pending for good (`excused`).
14. `dashboard_routes.py:1886`: an enrichment writes the result it read before its
    request; a recon or enrichment that ended meanwhile is lost.

Stated by no document: a crawl whose thread could not be started, or whose old stop file
not be removed, keeps its claim until the process restarts; an exception before
`run_scan` leaves the session running until its heartbeat is stale; `scan` neither
removes an old stop file before it begins nor its own afterwards; a cancel route can
turn a scan that completed meanwhile into a cancelled one; a job whose thread could not
be started says "running" until the next restart; two administrators can delete each
other at the same time (`count_admins` has no caller); subscribers of the digest are
rewritten in place without a lock.

## 4. Fairness

Threads are scheduled: weak fairness for each step of a thread that is enabled.
More is assumed in these places only.

* `BatchCheck` is reached again and again, because every page fetch has a
  timeout and a batch is finite. `Exhausted` is not fair: a crawl need not run
  out of links.
* `Tick` is fair: time passes.
* `Arrive` is fair: an open page polls `/api/crawl/status` every five seconds
  (front end, `dashboard.js:112`). Gone sessions are swept by that request, so
  nothing would end them if no page was open, until the next start.
* `TimeIsUp` of a Quick Scan is strongly fair: the check before a batch is
  reached often and `TOTAL_TIMEOUT` is over sooner or later.
* Work of a heavy operation ends, as every fetch and every wait in it is bounded.
* A fetch of the cache ends, by the time limits of the outbound HTTP client.
  `GiveUp` (the wait's own time limit) is not fair: calls return without it.
* An item of the pool ends, and workers take what waits. That the time limit of a
  call passes is not fair: `EveryCallReturns` does not rest on it.

Nobody has to start, stop or cancel anything, and nothing has to crash. The parts
of a sum that do not run have no fair step to take, except that time may pass in
them, which their properties do not depend on.

## 5. Proofs

Every safety property that a passing run checks, invariant or action property, and
both refinements are theorems: they hold for every value of the constants that
satisfies the assumptions of the module, so for any number of sessions, threads,
requests, jobs, projects, pages and so on. Each rests on
an inductive invariant, which is stronger than the property.

### Crawl lifecycle (`CrawlProofs`)

The inductive invariant is

    IInv == TypeOK /\ AtMostOneRunning /\ WorkerMatchesRow /\ Unused /\ Reserved

`Unused`: a row that was not inserted yet is empty and has no thread, so the id
that an insert takes is nobody's. `Reserved`: a request between the insert and
`Thread.start` refers to an inserted session of this process whose thread has
not begun, and no two requests to the same one, so a start cannot put a second
thread behind a session. `WorkerMatchesRow` is not inductive without them:
`Spawn` moves the thread of whatever session the request names.
`AtMostOneRunning` needs only that nothing but an insert makes a row run, and
that an insert sweeps first (`OnlyInsertStarts`, `InsertRunsAlone`).
`KeepsRegistry` shows that every step maps to a step or a stutter of
`CrawlRegistry`; it uses `IInv` for the steps of threads (a thread about to write its
end read a row that said running, which maps it into `ending`) and `Owned` (a running
row has an owner) for the sweeps.

`CliCrawlsAreKept` goes through the writes of a row (`RowSteps`): the owner a sweep
takes for idle is the dashboard or nobody, and the thread's own last write has another
status. `StopsAreFresh` needs `FlagIsFresh` beside `IInv`: from the moment a start is
about to create its thread, a flag that is up was written after the insert of its
session. It is inductive because of the unlink before `Thread.start`, and because a
flag is written with the number of sessions there are.

### The walk (`CrawlProofs`)

What lies ahead of a crawl is its batch and after it the frontier (`Ahead`).

    WalkInv == WalkTypes /\ OrderInv /\ LinkInv /\ DoneInv

`OrderInv` is what makes a queue breadth first: what lies ahead is ordered by depth,
spans two levels at most and is no higher than what was stored. `LinkInv`: a link
that was to be followed joined the queue, then or earlier, and is nowhere deeper than
its page put it, or its domain was full and it never joins. It is not inductive
without `OrderInv`, which says that a link that waits already does so at most one
level below the page now taken, nor without the fact that a domain once full stays
full. `DoneInv`: what joined the queue was fetched, is ahead, or the crawl saw a stop.

The links of one page are a loop over a sequence. `NewLinks` writes it as a recursive
function; `LoopRuns` shows that the function of a loop exists and `CountingUp` is
induction, both stated of sets, since the rule for an operator is out of the provers'
reach: a set of numbers that is not empty has a least element (`LeastNatural`, from
the well-foundedness of `<` on the naturals). With them `NewLinksJoin` says what any
number of links adds to the queue.

### Heavy jobs and the pool (`HeavyJobsProofs`)

`Released` says for each operation who is going to release
its slot: a held slot has a thread that comes to its release, a slot is marked
if and only if some thread is about to give it back, and never two. With it, and
only with it, each decrement matches one slot, which gives `CountsExact`.
`Within` bounds the counters by the limits, since `acquire` tests both under
one lock. `WorkWithinLimits` follows from the three: work is done only under a
held slot, unless a thread outlives the exception of its start. For `OneDigest`
the invariant is `OneOwner`: at most one digest is between its arrival and its
unlock, and the lock is locked for as long.

For the pool: `PoolInv` says that an item is in the queue at most once or with one
worker, and that its call has submitted it; `GateInv` that the free permits of a gate
and the items that hold one are together no more than the gate has. `AnswerStays` is an
action property, as `returned` is a copy: no step of an item writes it.

### Upstream cache and fetches (`UpstreamCacheProofs`)

The inductive invariant of the cache is

    IInv == TypeOK /\ Refers /\ Flights /\ WaitsForAFlight /\ Learnt

`Refers`: a thread inside `get` refers to an entry. `Flights`: an entry in
flight is in the table and has exactly one fetcher, and a thread that fetches has its
entry marked. The first half is what `OneFlight` needs: the cut stops at an
entry in flight, so no second entry of that key can be made while the first is being fetched
(`CutTable` says what a cut keeps, `MovedTable` that moving an entry to the end
changes no membership). `WaitsForAFlight` is that no wakeup is lost.
`Learnt`: whoever has been told that its fetch returned holds an entry with an
answer. `OutageCostsOneCall` follows from `WaysToFetch`: only `Miss` and
`Refetch` begin a fetch, the first needs that the table has no entry of the key,
the second that its entry does not back off.

For a fetch, `FetchInv` keeps two facts from the check to the request: the addresses
left to try are public ones, all of the answer that was checked; and a key or a body
still goes with the first URL. `HopInv` bounds the redirects. That the addresses are
finitely many is assumed, as an answer in any order is a sequence.

### Lookups, recon, projects, settings (`RecordProofs`)

`PendingIsAtWork`: `LookupInv` says of each row (`RowInv`) that it is saved before its
lookup is queued, and that as long as its extras are pending, its request, the queue
or the thread has it. A pending row that says "completed" is one that its request has
still to set to running: so the next start, which closes the rows that say running,
closes every lookup that was queued. The window is ordered by age, so its first call is
the one to wait for, and holds at most `MaxCalls`.

`ReconStaysOutside`: `ReconInv` adds what a later step relies on: names that were
found lie in the domain, and a probe that is under way holds the public addresses
that were checked and nothing else, however the resolver answers afterwards. Of what
is listed it says only where it came from and that what the recon resolved itself is
public; the stored result of a row is of that type too, which an enrichment keeps.

`MatchedIsRecorded`: `ProjectInv`, `HitInv` and `MatchInv`. The projects a match has
still to take are distinct and among those it loaded; for those it has taken, there is
one record for each that the hit meets and none for others, and nothing is asked of a
project deleted meanwhile. While tables are still to be read all of them are to be
taken. Ids are not used again, or a record of a deleted project would be taken for one
of its successor.

Settings: the inductive invariant is

    SettingsTypeOK /\ OneWriter /\ ReadIsCurrent /\ NothingAsked

`OneWriter`: a request from its read to its rename holds the lock.
`ReadIsCurrent`: what it has read is what the file still holds, which is inductive
only with `OneWriter`, as a rename of another request would break it. `NothingAsked`
is needed to map a request that fails to `NoWish`. With them each rename, and each
request that finds nothing to change, is the abstract change made to the present
content (`ChangeIsDone`); every other step leaves content and wish alone, or asks
or answers. `KeepsChanges` is the refinement, `OneChangeAtATime` the invariant.

### Quick Scans and alerts (`ScanProofs`)

`ScanInv`: a row that was not inserted has no thread; a thread that has seen the
cancel is on its way to leave the status, which is then the cancel's; a thread that
ended left a final row. `ReqInv`: a request about to start a thread is the only one to
do so for its scan, and that thread has not begun. Without it a second start could
put a live thread behind a final row.

`AlertInv`: `pending` is what waits plus what is being sent, so a flush that sees 0
has seen everything sent; what is marked is under way or sent.

### Channel Monitor (`ChannelProofs`)

`JobInv(j)` speaks of one job at a time, and each step is shown to keep it for the job
it touches and for all others: `Running` (a live thread holds the slot and its folder is
whole; a sweep that has noted or listed spares that job, or finds it too young),
`OnlyEnded` (only an ended job is told, packed or swept), `ToldIsStored`, `ZipIsFresh`
(what is packed, and a ZIP newer than the folder, are what the folder has) and
`ZipIsListed` (while folders are swept, the ZIPs that are there will be looked at).
`ToldIsKept` needs `Running` and `OnlyEnded`, since a job that nobody works on any more
is told to be interrupted before its file says so.

`WithinBudget`: from the test of the stated size to the addition of the real one the
budget is kept; the difference is what Telegram understated, and less than one file.

### Sign-in and migrations (`SignInProofs`)

`CodeWorksOnce`: `SpentIsOld`, what was accepted of the account's secret is at most
`account.last`, which the conditional update only raises; a secret that was enrolled
twice is set apart, since that may take it back. `OldSessionIsOut`: unless two changes
overlapped, at most one request is about to write the version and what it has read is
the present one (`OneBump`), and a session that ended has an older version, or a request
is about to raise it or was cut off before (`EndedIsOut`, `WillEnd`). `LockHolds`: the
failures under a lock and the requests that may still fail under it are together fewer
than the requests there are (`LateOnes`), because the one that set the lock has failed
already; this is a count over a finite set of requests, which is assumed, with at least
one of them.

`MarkIsTrue`: what a starter under the lock holds in its transaction is the committed
database, or that with a part of the revisions applied (`TxnIsTrue`), and only the
holder of the lock commits (`LockIsHeld`). It is assumed that "nobody" is no starter.

### Only model-checked

Liveness properties: they need fairness and ENABLED, which are beyond the prover. They
are `GoneSessionEnds`, `InterruptedCrawlHalts`, `FlagIsSeen`, `ClaimIsReturned`,
`SlotComesBack`, `DigestCanBeSent`, `JobRowEnds`, `EveryCallReturns`, `ActiveEnds`
and `CallReturns`. The five runs that find a property violated are counterexamples and
need no proof.

## 6. Not modelled

* **Pure functions**: keyword scanner, regular expression checks, WHOIS and
  feed parsing, ransomware and actor data, validation, report layout. Their
  output depends on text; the tests of the repository cover them and TLC would
  not reach further.
* **I/O**: Tor client, PDF and image text, the Telegram sign-in of the command
  line, `telegram-scan`. In the models they are steps that end, fail or take time.
* **Without a caller in this repository**: port scan and directory enumeration of
  `dns_crawler.py`, `on_sent` of the alerts.
* **Single checks before one write**: creating users and their roles, audit rows,
  read-only routes, investigation lists.
* **Digest**: the list of subscribers (no lock, see the hazards) and the PDF.
* **Front end**: only its polling matters here, see the fairness of `Arrive`.

## 7. Plan

1. An abstract `JobFile` for the Channel Monitor (what a reader of `job.json` may
   see of a job) that `ChannelMonitor` implements, with the refinement proved from
   `MonitorInv`.
2. The safety part of liveness, as theorems: that a thread which waits always has
   somebody to wake it (`WaitsForAFlight` is the one for the cache), for the slots, the
   paced queue and the pool.
3. The circuits of the Tor client (sessions that retire while requests run on
   them), if a run has room for them.
