# InternTracker: a TLA+ development

InternTracker polls job boards for internships, keeps what it finds in one table, decides
with rules and an agent which postings are published, and mails subscribers about them. A
web server shows the table and takes suggestions, subscriptions and reports. This
directory models the parts of it whose correctness depends on the order of steps: crashes
between two writes, two processes over one table, caps that must hold across restarts,
promises a visitor was given - and the rules that are written down more than once and must
stay the same.

Contents: the system, the modules, the properties and the runs that check them, the
proofs, what is not modelled, and the plan.

## 1. The system

Two long-lived processes share a database (SQLite or Postgres): one **poller**
(`intake run`, a loop around `Pipeline.run_cycle`) and one **web server**
(`ThreadingHTTPServer`: a thread per request). They exchange nothing but rows.

| Component | State | Operations | Hard behaviour | What makes it correct |
|---|---|---|---|---|
| Poller pipeline (`pipeline.py`, `cli.py`) | in memory: the rows a stage read, the folds to do, the batch to announce | detect and upsert, rule gate, reconcile duplicates, verify, publish, announce | a kill between any two writes; stages write whole rows back from copies; folds of several rows with one write each | verdict before publication, rejection final, no live twins, no live job folded away, everything found is decided |
| Postings table (`store.py`, `schema.py`) | one row per company and title: status, sources, first_seen, canonical URL, verdict | `upsert_detection`, `update`, `by_status`, `duplicate_groups` | a rejected duplicate is detected again every cycle | what detectors reported is not forgotten |
| Rule gate and verifier (`verify/`) | none | refuse or pass; approve or deny; both may raise | a gate exception ends the cycle, a verifier exception does not | a failing posting is retried and does not stop the others |
| Detectors (`detectors/`) | none | poll a board, yield sightings | partial failure | (inputs of the pipeline) |
| Subscriptions (`web.py`, `senders.py`, `notify.py`, `store.py`) | `subscriptions`, `notify_sends`; one limiter window per process | subscribe, confirm, unsubscribe, prune, mail backlog, fan out alerts | web thread and poller mail the same row; send, stamp and count are three steps | opt-in before any alert, caps, little after an unsubscribe, consent not thrown away, no signup in another's way |
| Suggestions and resolver (`web.py`, `detectors/suggestions.py`, `resolve.py`) | `suggestions`, `company_resolutions`, `resolver_spend`; the poll's queue and allowance | submit, answer, defer, paid search | check-then-insert race; a kill between count, call and cache; an error of one row among many | budget holds, no search repeated whose result was kept, found postings kept, every suggestion answered |
| Postgres store (`store_postgres.py`) | one connection behind a lock, index of what a sighting may add | the same operations, each statement retried once on a broken connection | applied or not, nobody knows; a retried `+ 1`; an index the pipeline's updates bypass | a request fails only for a fault of its own, a retry applies at most once more, no sighting is lost |
| Snapshot cache and listings API (`web.py`) | version, rows, expiry per process | version probe, rebuild, ETag answers | rows and version read apart, by many threads | no reader is pinned to old rows |
| Reports, visits, limits (`web.py`, `store.py`) | `reports`, `visits`, `visit_salts` | report, count a visit, mint a day's salt | check-then-insert, two minters | one salt a day, caps |
| Interview agent (`src/interview/`) | sessions, daily token use | start, turn, finish, score | concurrent turns of one session; a stream that dies | the budgets hold |
| Classifiers (`dates`, `degrees`, `locations`, `roles`, `triage`) | none | season, levels, countries of a posting from several findings | title, page, excerpt, source and verdict disagree; the clock moves on | a repair settles, and repairs what it is there for |
| Readers of a posting (`Listings.tsx`, the page of `web.py`, `notify.py`, `audit_filters.py`) | the reader's filter | is this posting shown, mailed, counted? | one rule, four copies in two languages | they agree |
| Frontend (`frontend/src`) | page state | poll the listings, filter, forms | a late answer overtakes a newer one | the newest answer wins |
| Scripts and deployment (`scripts/`, `k8s/`, CI) | - | backfills, copies, manifests | a backfill run again and again as the rules see new years | a second run changes nothing |

Interactions: the web server inserts suggestions, subscriptions and reports, which the
poller reads one cycle later; the poller changes postings, which the web server's cache
must notice; suggestions become detections of the same cycle's pipeline; the cycle's
published batch goes to the alert fan-out, which reads the subscriptions.

The hazards of this code, line by line, with the property that covers each of them, are the
"hazards" of `PROJECT.json`.

## 2. The modules

| Module | Models | Checked with |
|---|---|---|
| `PostingLifecycle` | abstract: what a posting may go through, whoever does it | as the property `ImplementsLifecycle` |
| `Pipeline` | `Pipeline.run_cycle` over the postings table | `MCPipeline` |
| `Subscriptions` | signups, confirmations, alerts: web server and poller | `MCSubscriptions` |
| `Suggestions` | submit endpoint, suggestion detector, `GuardedResolver`, the resolver's conversation | `MCSuggestions` |
| `PgStore` | one process over the Postgres store: connection, retry, merge index, the requests that write | `MCPgStore` |
| `SnapshotCache` | the web server's two caches of the postings table, its handler threads, the polling page | `MCSnapshotCache` |
| `Interview` | the interview's turn loop, budget guard, scoring pass and store | `MCInterview` |
| `Seasons`, `Degrees`, `Places` | operators: season, levels and countries of a posting from what the patterns find | in `PostingLabels` |
| `Gate` | operator: what the rule gate makes of a posting (extends `Seasons`, `Degrees`) | in `PostingLabels` |
| `Views` | operators: the two boards, the alerts, the audit (extends `Seasons`, `Degrees`, `Places`) | in `PostingLabels` |
| `PostingLabels` | one posting's labels through gate, verifier, sightings, backfill and years (extends `Gate`, `Views`) | `MCPostingLabels` |
| `PipelineProofs`, `SubscriptionsProofs`, `SuggestionsProofs`, `PgStoreProofs`, `SnapshotCacheProofs`, `PostingLabelsProofs`, `InterviewProofs` | theorems about the module of that name | tlapm |
| `NatLemmas` | least and greatest elements of sets of naturals, sums that the counting proofs share | tlapm |

Operators named `Bug...` are faulty variants of the definition that follows them. No
action uses them; each property is shown to fail when one takes its definition's place, so
no property holds vacuously.

### Pipeline

`rows` is the postings table, with the fields that decide something. `pc` is the stage
`run_cycle` is in; `work` the copies the stage read with `by_status` and has not handled;
`folds` the plan of the reconcile pass; `inHand` a posting whose publisher call returned
but whose status is not stamped; `batch` what the cycle will announce. `handed`,
`announced` and `missed` record what the hooks did. Every write of the store is one
action: a fold of three rows is three steps and a kill can fall between them (`Crash`,
then `Restart` with an empty memory). A row is written back whole from the stage's copy,
as `Store.update` does, so a stale copy would show.

Abstractions. A title is the pair `fold_title` and `has_trailing_season` make of it, a
URL carries the requisition id `extract_job_key` reads; `Redirects` says where fetching
may end, and a site that answers 403, 429 or not at all leaves a posting its own URL.
`first_seen` values are distinct, since a row is stamped when it is inserted. What the
rules and the agent decide is nondeterministic. A database exception ends the process,
which is `Crash`. Pruning and confirmations, which the cycle runs in the middle, touch no
posting; they are in `Subscriptions`. The fan-out is one step here (`Notify`) and one step
per message there.

### Subscriptions

`table` and `sends` are the two tables; `hits[p]` the limiter window of process `p` (a
module global, so the two processes have one each, and a restart empties it): of each
address the number of hits of each age, which is all that a list of times says. `web[s]`
follows the request that makes row `s` through insert, send and stamp; `poller`, `queue`
and `todo` follow the poller through prune, backlog (send, stamp, count) and fan-out
(send, count) - each database write and each message a step. The queries order by id, so
the rows a stage still has are a set, of which it takes the least. `mail` says whether the
deployment can send: off (no SES client), blocked (no postal address) or on; `TurnOn` is
the redeploy of both processes. `mailed`, `today`, `alerted` are what the mailbox saw, and
`left` the rows whose owner was shown the page of an unsubscribe, `late` what the mailbox saw
after that; no action of the code reads them, except that a link is followed only from a
message that came.

Time is a `Tick` that ages stamps and limiter hits, and a `NewDay` that starts the
day's counters. Ages stop growing at the bound that matters. SES may accept a message,
refuse it, or reject the recipient (the row is deactivated); a refusal leaves a row first in
the next cycle's backlog, and for the rows in `Refused` nothing says that refusals ever end,
as for every row while the account is in the sandbox. `Early` are signups that were taken
before the channel worked, so that a behaviour may begin with a backlog. `DailyCap` is at
least one.

### Suggestions

`rows` is the suggestions table, `order[i]` the submission that made the row with id `i`
(`queue` holds ids, and `First` is the row of the least), `submit[r]` the handler thread of a
submission between its duplicate check and its insert, `cache` and `spent` the resolver's
tables. The poller's `queue`, `allowance` and detections (`out`) are memory. `Answer` is
the write that closes a row: `promised` remembers those whose answer said that postings
were found. The endpoint refuses names no company could have (`Worthwhile`), but rows from
before it did may be in the table (`Init`), so the detector asks again before it pays.

A search is counted (`CountCall`), held (`CallReturns`, `CallRaises`) and cached
(`CacheResolution`). Holding it is the conversation of `CompanyResolver.resolve`: each
request is billed and comes back with a result, a refusal, a pause of the server's search
tool, or plain talk, after which the tool is forced once; `turn` and `forced` are the
loop's locals. Of a result the links to an employer's own page count (`Checked`). A search
whose turns are used up, a refusal and an invalid result are empty resolutions, cached like
any other; an exception is not cached.

An error inside `resolve` ends the row, not the poll: the lookup of the cache or of the day's
counter (`LookupRaises`), the count (`CountRaises`), a request (`CallRaises`) and the write of
the cache (`CacheRaises`) may each raise, the two writes with their effect or without, and the
row is answered `error` (`DeepSearchFailed`) while the next one is looked at. `Fault` is what
does end the poll: a kill anywhere, a store error in one of `poll`'s own statements, for which
`run_cycle` passes over the detector, or one in an upsert, which ends the process. What the
poll had in memory is gone then.

`billed`, `paid` and `lost` are the ledger nobody in the code keeps: requests made today,
searches counted for a company since its entry last lapsed, and those of them that left
nothing in the cache. A request that raises is taken as billed. The submit endpoint's
per-address limiter is left out: it only lowers the number of submissions. So is a cached row
of an old shape, which fails validation and is searched for again (`resolve.py:422-426`): the
shape changes with a release.

### PgStore

One process, the web server or the poller (`process`), with its connection `conn` (none,
live, or dead and still held), the lock of `_run` as far as it is held between two attempts
(`lock`), and `th[t]`, the request of thread `t` with the statement it is at (`stage`) and
its locals. `db` is the tables: salts, visits, reports, signups, counters, one posting. One
attempt of one statement is one step. It is answered (`Run`, `Rerun`), or the connection
breaks before or after the server applied it (`Breaks`, `RerunFails`), or the connection
held is found dead (`FindsItDead`), or a new one is refused (`Refused`); `Dropped` is the
server closing an idle one, and after `Crash` the process starts again with an empty
memory. `Executed` says what each statement does to the tables, `NextStages` where its
answer takes the request. `broke` and `wrote` count, per request, the faults it met and the
times its own write was applied.

In the poller the posting and the sightings are sets of items (a source, a location, a
date). `index` is what `_index` holds of the posting: loaded by one query, kept in step by
the upserts, not told of what `update` writes. `sighted` are the items of the sightings that
were answered, stored or "nothing to merge". The poller is the only writer of postings.

### Seasons, Degrees, Places, Gate, Views, PostingLabels

A text is what the patterns of the code find in it: for seasons its first season word, the
year beside it, its first year, and whether it offers several starts; for levels the words,
the abbreviations, and which of these stand near a degree word; for a location label its
tokens, each with what the tables of `locations.py` know of it. What a regular expression
matches is an input, how the findings of title, page, excerpt, source and clock are combined
is the model: `Parse`, `Resolve` and `Reconcile` are `parse_season`, `resolve_season` and
`reconcile_season`; `Classify` and `ClassifyPosting` those of `degrees.py`; `CountriesOf`
folds the labels in order, because the code's search for "US" asks whether the label before
it added anything. `Gated` is one pass of `run_rules` with the row writes of `run_cycle`.

`Views` has the predicates by which a posting is shown: `BoardShows` (`matches` of
`Listings.tsx`), `PageShows` (`matches` of the page in `web.py`), `AlertMatches` (`_matches`
of `notify.py`), `InAuditedView` (the audit's replay of the default view); and
`SeasonFlag`, `Unsupported` and `Unlabelled` are what the audit complains of.

`PostingLabels` follows one posting: gate, verdict, publication, later sightings that add
locations, the backfill of `reclassify_fields.py` at any time, and new years, which turn
seasons stale. `swept` is the year the backfill ran, if nothing relabelled the posting since.

### SnapshotCache

`db` is the set of writes the table has committed. A write takes its stamp (`StartWrite`,
`updated_at = now()`) before it commits, as Postgres does. `snap` and `list` are `_snapshot`
and `_companies_cache`; `holder` is the thread inside `_snapshot_lock`; `request[h]` is what
thread `h` is doing. The version and the rows are read in two steps under the lock
(`ReadVersion`, `ReadRows`), and the table may change in between. `now()` is taken once,
before the lock, so a slow thread stores an entry that is already old (`ListStamp`). The
page is `newest`, `due`, `shown`: its latest request id, its timer, its rows. An age counts
ticks and stops growing where nothing tells it apart any more. The store is Postgres's:
SQLite's has no version and is read again every time, which is the simpler path. One
process writes (`MaxOpen`). With two, the token is not valid: the older stamp may commit
last.

### Interview

`stored` is the store's rows, `spent` the day's counter, `thread[h]` what a request handler
does, on its own copy of the session: a copy is durable when it is saved. A transcript is
the number of turns the candidate has taken; tokens are small numbers. A turn is saved,
judged (`Decide`), streamed, recorded (`Record`: on the copy and on the day) and saved
again. Nothing of a reply takes effect if its stream breaks (`StreamBreaks`,
`CloseBreaks`), and a scoring pass may fail and be tried again. `billed` is a ledger nobody
in the code keeps: what was counted for a session, whatever its row says.

The HTTP endpoints that will call this loop are not written. What they do is taken from
`docs/interview-agent.md`: one request per turn, a session read with `get`. `overlap` says
whether requests about one session may run at the same time. If they may, whole-copy saves
undo one another, and only `DayCeilingHolds` and `TypeOK` hold; so the endpoints have to
exclude it, and `SessionBounded` is stated for endpoints that do. The store is taken
to be durable, as its docstring requires of the Postgres one; `MemorySessionStore` forgets
everything in a restart, which is a new start of the model.

## 3. Runs

All runs finish in about two minutes or less with two workers. Deadlock is checked in every
run but those of `Interview`, which stops once every session is scored and the last midnight
is past, and `PgStore`, which stops when its requests, faults and days are used up.

| Run | Instance | Question |
|---|---|---|
| `pipeline_weak` | 3 postings, 2 detectors, verifier on, 1 crash | safety and refinement where rows share a page without an id and a third row may block their fold |
| `pipeline_strong` | 3 postings, two of them one requisition, one that makes the gate raise, with and without verifier, 1 crash | liveness; no live twins after a reconcile pass |
| `pipeline_lost_fold` | as weak, no verifier | (violation) a kill inside a fold loses what the survivor should have taken |
| `subscriptions` | 1 signup, owner who may leave, 2 crashes, three channel states | opt-in, caps, what may follow an unsubscribe |
| `subscriptions_live` | 3 signups from before the channel worked, one of them refused for ever, the other two of one address, backlog query of 2 rows, window of 1 | what is not crowded out is mailed, mailed signups are settled and not before their time |
| `subscriptions_starve` | 2 such signups, the first refused for ever, backlog query of 1 | (violation) the second is never mailed |
| `subscriptions_expire` | 2 signups whose owners may leave | (violation) a row stored for ever |
| `suggestions` | 3 submissions (one company twice, or once beside a URL; one name of no company, refused or an old row), one search a day of at most 2 requests, 1 fault, errors of the resolver without bound | budget, no search repeated whose result was kept, promises; every suggestion is answered |
| `pgstore` | 2 threads or a poller, 3 requests, 3 days, a cap of 1, 2 faults | what the lock and the once-only retry give; one salt a day; the merge index |
| `posting_labels` | 11 titles, 10 answers of a site, 4 detected seasons, 3 verdicts, locations in 3 countries, 2 years | labels that are repaired stay repaired, and all readers agree on them |
| `snapshot` | 2 threads, 2 writes (one inserts), TTLs of 1 tick, a poll every 2, 1 fault | freshness of the answers, the version token, the page |
| `interview` | 2 sessions of one user (one a day), 2 threads, budget of 2 calls, session ceiling of 1, 1 fault, 1 midnight, with and without overlap | counted spend |

### The properties

*Pipeline.* `PublishedOnVerdict`: nothing reaches the publisher without a stored approving
verdict, even after crashes and folds (a survivor takes its duplicate's verdict, which is
how this could go wrong). `HandedOncePerCrash`, `AnnouncedAtMostOnce`,
`AnnouncedUnlessInterrupted`: what the hooks see. `SourcesOnlyGrow`: no source is undone by
writing an old copy back (`RejectedIsFinal`, the same of a rejection, is proved and has no
run of its own). `DuplicatePointsEarlier`,
`FoldKeepsALiveRow`, `NoLiveTwins`: the reconcile pass retires all but one row of a job and
never all of them, at every point inside it. `ImplementsLifecycle`: every step of the
poller is a step of `PostingLifecycle` or invisible to it; the refinement maps `stage` to
the status column and `given` to the postings handed to the publisher.
`EventuallyDecided`: a found posting ends published or refused; the two exceptions, a
deployment without verifier and a posting whose gate raises, are in its statement because
the code has them.

*Subscriptions.* `AlertNeedsOptIn`, `DailyCapHolds`, `ConfirmedAtMostTwice`,
`QuietAfterUnsubscribe`. The bounds that mention `crashes` are what the code gives: a message
is sent before it is counted or stamped, so each crash in between can cost one more.
`QuietAfterUnsubscribe` bounds what may still come after an unsubscribe by two messages; the
page promises none, and that is listed below.
`BacklogDrains`: a signup is mailed in the end or retired, if fewer rows that are refused for
ever are ahead of it than the query returns, and none of them has its address
(`Unobstructed`). Without that condition it is `BacklogAlwaysDrains`, which
`subscriptions_starve` refutes. `MailedIsSettled`: a mailed signup is confirmed or forgotten,
and no row is forgotten that was not mailed a whole window ago.

*Suggestions.* `BudgetHolds` (requests, not searches: a search counted just before midnight
may be billed after it, hence the one, and no conversation exceeds its turns), `PaidOnce`
(two identical submissions may both be inserted, and the second is answered from the cache; it
is searched for again if the first search left nothing there, because a request raised, the
entry could not be written or the poll was cut short - each such search pays for one more; a
name of no company is never searched for), `PromiseKept` (of a poll that is not cut short,
whichever of its rows fail; a kill loses what was promised, see below), and
`EventuallyAnswered`, which needs every conversation to end.

*PgStore.* `OneSaltPerDay`: all visitor hashes of a day come from one salt, though two
threads mint it and their statements run twice. `RowsBounded`: checks and inserts are
statements of their own, so a cap is passed by the threads that were past the check and by
inserts applied twice, and by no more. `RetryIsSafe`: a request fails only for a fault it
met itself, never because an earlier one left a dead connection; when it succeeds its write
was applied, twice only across a break; a signup is never applied twice. `SightingsKept`: a
sighting that was answered is in the row, so the index never says "nothing to merge" of an
item the row lacks, whichever statement failed and whatever an update wrote.

*PostingLabels.* `ScriptIsSettled`: a second run of the backfill in the same year changes
nothing. `AuditIsQuiet`: of the audit's complaints a season the title has and the row
lacks, an unlisted degree and an unsupported level are what the backfill repairs, so it finds
none after a run. It says nothing of the complaints the backfill leaves standing, a season in
conflict with the title's and a season of last year, nor of levels a verdict overrides.
`AlertAgreesWithBoard`: an alert for some degrees and countries matches exactly what the
board shows under one of each; for companies the board's postings are covered by the alert.
`ReadersAgree`: the two boards on every filter both offer (the page of `web.py` may miss a
season spelled otherwise), the audit with the default view. What is compared is tab, degree,
region and season; the conditions on type, audience, role, date and words say the same
in both sources, and are one operator here, so no run would notice if one copy were changed.

*SnapshotCache.* `ServedFresh`: an answer misses no write older than one TTL before the
request (both TTLs for the companies), whoever filled the caches and in whatever order.
`TokenIsValid`: while the version has not moved, the rows kept are those of the table, so
`KeepRows` may renew them. `BoardNeverGoesBack`: the page never shows less than it did,
although requests overtake one another and the web process restarts. `BoardCatchesUp`: it
does not stay behind. The page is that of `Listings.tsx`; the one built into `web.py` polls
too (`web.py:680-685`) and takes whatever answer comes last, so there a late answer does
replace a newer one.

*Interview.* `DayCeilingHolds`: counted spend passes the budget by the turns in flight and
no more. `SessionBounded`: without overlap, one call over a session's ceiling, and one more per
crash between the count and the save. The bound counts all `faults`, so broken streams and
failed scorings, which lose nothing, make it looser than that.

### Why the bounds are enough

Pipeline: the interesting shapes are two rows of one class and one outsider that shares their
URL, so three rows; a third row of a class adds a fold step of the same kind. One crash reaches
every crash point of a cycle and every state a restart can find; the proofs cover any number.
Two detectors re-sight a row at every later stage of its life. Cycles are not bounded.
Subscriptions: one row meets itself from both processes; with three, one that is refused for
ever takes one of the two places of the backlog query in every cycle, and the other two meet in
the limiter window of their address and take turns in the other place. Two crashes, because two
bounds count them. Suggestions: two submissions for the duplicate race, a third that must not
be paid for; caps of one, so that the second search meets them; two requests a search, so that
it may end by talk, by a forced result, or by its last turn. Errors of the resolver's store are
not bounded, polls cut short are. PgStore: two threads race for the salt and past a check; two
faults break an attempt and its rerun; a salt kept for one day is pruned within three; three
requests are a sighting, an update behind the index, and a second sighting. PostingLabels: the
readers and the rules are functions of one posting, so one is enough; its titles and pages are
chosen to disagree in every way `Resolve`, `Reconcile` and `ClassifyPosting` tell apart, with
years before, in and after the window of the two current years. SnapshotCache: two threads meet
in the lock, in the list and in the page's answers; a second write moves the version a first
one set, once with and once without a new row; ages beyond the two TTLs and a slow request are
not told apart. Interview: two threads are two turns in flight; the budget of two calls is
reached by one session and passed by two; three turns reach the turn limit of two; 1 fault,
because a bound counts crashes.

### Fairness

The poller's loop and the clock go on (`WF`): `cli.py` runs cycles in a `while True`, and the
pod is restarted. `EventuallyDecided` needs `SF` of a successful verifier and publisher call
for each posting: they may fail any number of times, not for ever on one posting.
`BacklogDrains` needs `SF` of an accepted confirmation for the rows outside `Refused` only: SES
may refuse one of those any number of times, not for ever. Of the rows in `Refused` nothing is
assumed, and what they do to the rows behind them is the question. Handler threads finish the
request they began (`WF(Request)`). Nothing is assumed of visitors: no submission, click or
unsubscribe is fair. In `Suggestions` only the poll and the calendar are fair, and the run
shows that this is enough. In `SnapshotCache` time passes and statements end (`WF`); a thread
gets the lock it waits for and the page's request a thread (`SF`: both are contended, and
others may come and go for ever). A slow request is a fault and faults are bounded: a page
every request of which outlasts its poll never shows an answer. `Interview` has no liveness: a
student may leave at any time.

### Where code and text disagree

- A kill between the write of a duplicate and the write of its survivor loses, for good,
  what the survivor should have taken (`pipeline.py:226`, `229`); the poller's manifest
  says that nothing is lost but one cycle.
- A row deactivated before it was stamped is neither mailed nor pruned; the comment in
  `pipeline.py` says an address nobody confirmed must stop being stored.
- A row SES refuses for any reason but `MessageRejected` stays first in the backlog query; as
  many of them as it returns, five, keep all later signups from being mailed
  (`subscriptions_starve`). `senders.py:392-401` says that the message goes out on the first
  cycle after sending works, and that a launch-day backlog drains. Each attempt also takes a
  place in its address's window.

These have a run that shows them. The following were met while modelling; the model does
what the code does, and no run is about them.

- An unsubscribe is answered with "Nothing further will be sent to it" (`web.py:723`), while a
  copy of the row may still be in the hands of the request that made it or of the poller's
  cycle, none of which asks again before it sends. `QuietAfterUnsubscribe` says that two
  messages may come; with `late[s] = 0` in place of its bound TLC finds it violated without
  any crash.
- A row is answered as matched before its postings reach the table (`suggestions.py:125`,
  `pipeline.py:318`). A kill in between loses them, and so does an error in one of `poll`'s own
  statements for a later row; the row is not polled again. The poller's manifest says that only
  a cycle is lost. Without its hypothesis `faults = 0`, TLC finds `PromiseKept` violated.
- The probe calls `.get` on Lever's list (`suggestions.py:183`): a company with a Lever board
  that Greenhouse does not know is answered with an error, before Ashby and the paid search are
  tried (`ProbeRaises`), although the module's docstring lists Lever among what is probed.
- A failed search tells the visitor to resubmit (`suggestions.py:165`); the submit endpoint
  collapses the resubmission into the failed row for 30 days (`store.py:330`, `Duplicates`).
- `budget.py` calls the daily budget "the real ceiling" and says that a turn that errored
  partway still bills. A scoring pass is never counted, however often it is retried
  (`Attach`, `ScoreFails`), and a turn whose stream breaks is not either (`StreamBreaks`).
- `budget.py` says that admission leaves room for open sessions to finish: it reserves
  nothing, so sessions admitted against the same remainder are closed by one another's
  spending (`BeforeTurn`).
- `CONFIRM_LIMIT` is one object per process, where the comment in `senders.py` says that the
  poller and the endpoint share one window (`hits`).
- `store_postgres.py:9-10` says that every write is a single idempotent statement, so the
  retry cannot double-apply. Plain inserts and `+ 1` updates can (`Executed`), the docstring
  at 419 calls the resolver's counter the only one, and the notifier's (530) is another. A
  signup whose insert was applied before the break is answered with an error although its
  row is stored (`RefusedInsert`).
- `duplicate_report` says a double-clicked form must not become two rows; two handlers past
  the check at once make two (`RowsBounded`).
- A site that blocks the gate leaves a posting its own URL, only stripped of tracking
  parameters: a redirector's link stays canonical (`CanonicalUrl`).
- The label order of a posting can decide whether the United States are among its countries
  (`WithLabel`).
- A page that offers several starts gives no season, but its excerpt may name one, which the
  backfill then stores (`Reclassified`).
- The docstring of `_matches` says alert and board agree; the board's company key knows
  neither legal forms nor renames, so for companies an alert covers more than the board
  shows (`BoardKey`, `CompanyKey`).
- The page of `web.py` filters its rows before it resets a choice no posting offers any
  more: until the next render it shows the rows of the old choice under the new one.

## 4. Proofs

Every safety property that a run checks is a theorem of its module's `Spec`: for every
value of the constants that the module's assumption admits, where the run shows it on one
instance. Each rests on an inductive invariant (`IInv`, unless another name is given) that
TLC checked on the run's instance before it was proved. The proofs of one module have the
same shape: lemmas that say what the operators return, one lemma per action or family of
actions that says what it keeps, `InitInv`, `StepInv`, and the theorems.

| Module | Theorem | States |
|---|---|---|
| `PipelineProofs` | `TypeCorrect` | `[]TypeOK` |
| | `VerdictBeforePublish` | `[]PublishedOnVerdict` |
| | `HandedOnce` | `[]HandedOncePerCrash` |
| | `AnnouncedOnce` | `[]AnnouncedAtMostOnce` |
| | `CycleAnnounces` | `[]AnnouncedUnlessInterrupted` |
| | `RejectionFinal` | `RejectedIsFinal` |
| | `SourcesKept` | `SourcesOnlyGrow` |
| | `DuplicatesPointBack` | `[]DuplicatePointsEarlier` |
| | `TwinsAreFolded` | `[]NoLiveTwins` |
| | `PageKeepsALiveRow` | `FoldKeepsALiveRow` |
| | `LifecycleImplemented` | `ImplementsLifecycle` |
| `SubscriptionsProofs` | `TypeCorrect` | `[]TypeOK` |
| | `OptIn` | `[]AlertNeedsOptIn` |
| | `DailyCeiling` | `[]DailyCapHolds` |
| | `TwoConfirmations` | `[]ConfirmedAtMostTwice` |
| | `UnsubscribeIsQuiet` | `[]QuietAfterUnsubscribe` |
| `SuggestionsProofs` | `TypeCorrect` | `[]TypeOK` |
| | `DayCeiling` | `[]BudgetHolds` |
| | `OneSearch` | `[]PaidOnce` |
| | `Promise` | `[]PromiseKept` |
| `PgStoreProofs` | `TypeCorrect` | `[]TypeOK` |
| | `OneSalt` | `[]OneSaltPerDay` |
| | `RetrySafe` | `[]RetryIsSafe` |
| | `SightingsSafe` | `[]SightingsKept` |
| | `ReportsBounded` | `[]RowsBounded` |
| `SnapshotCacheProofs` | `TypeCorrect` | `[]TypeOK` |
| | `NeverGoesBack` | `BoardNeverGoesBack` |
| | `TokenHolds` | `[]TokenIsValid`, if `MaxOpen = 1` |
| | `FreshEnough` | `[]ServedFresh`, if `MaxOpen = 1` |
| `PostingLabelsProofs` | `RerunIsSafe` | `[]ScriptIsSettled` |
| | `AuditFindsNothing` | `[]AuditIsQuiet` |
| | `AlertsAgree` | `[]AlertAgreesWithBoard` |
| | `ViewsAgree` | `[]ReadersAgree` |
| `InterviewProofs` | `TypeCorrect` | `[]TypeOK` |
| | `DayCeiling` | `[]DayCeilingHolds` |
| | `SessionCeiling` | `[]SessionBounded` |

### What is assumed

The assumption of each module gives its constants their types and little else:

- `Pipeline`: every URL redirects somewhere.
- `Subscriptions`: rows are numbered, each has an address; `DailyCap`, `ConfirmLimit`,
  `Window` and `Expiry` are what they are in the code, at least one.
- `Suggestions`: finitely many submissions; budgets, turns and days at least one.
- `PgStore`: a salt is kept for at least the day after its own (`visit_salt` keeps two
  days), the thread set is finite and has no member that stands for "nobody".
- `SnapshotCache`: both TTLs at least a tick. `TokenHolds` and `FreshEnough` ask for
  `MaxOpen = 1`, which is the deployment: one poller, with one connection, so a write is
  stamped and committed before the next one is stamped. With two writers both are false.
- `Views`: the page's menu entries ("all", "remote", "us-ca") are no countries.
- `PostingLabels`: postings are detected as detectors report them, without levels, verdict
  or excerpt; the years make an interval.
- `Interview`: every session has a user, the ceilings and the cost of a call are positive, the
  thread set is finite.

### The arguments

*Pipeline.* `Published(work[k])` writes back a copy read long before, so one has to know
that the copy still equals the row: `WorkFresh` says so of every row a stage has still to
handle, `FoldFresh` of the copies of a fold, whose survivor may have changed by what the
merge added. Both hold because the poller is the only writer of postings, and because two
folds of one pass share no row (`FoldsFresh`, from the partition `duplicate_groups` makes).
`HandedBound` counts publisher calls by status, and `BatchPublished` ties the batch to rows
stamped and not announced. A lemma per writing action says that it writes one row and what
that row may become (`Writes`), and the invariant and the action properties follow.

A second invariant, `Tracked`, says what the reconcile pass is about. `first_seen` numbers
the postings (`Numbered`); a fold keeps the earliest of its rows, and its copy still has that
row's number and page (`FoldsOrdered`), so the pointer a duplicate gets leads back in time;
while the pass runs, two live rows of one job are in one fold (`TwinsPlanned`), so none are
left when no fold is; and before a crash a published row is announced, missed, or in the
batch (`Accounted`). That a page keeps a live row is then a statement about one step: the row
that is kept is live, and is none of the rows still to be folded.

*Subscriptions.* Two processes send to one row, and each bound is a sum of what each of them
may still do. `Share` is the request's part, which it has once; `Settled` and `Owed` say
whether the poller's part is used up or still to come; `Room` is the message that is sent and
not yet counted. A crash loses a count and is paid for by `crashes` in two of the bounds - but
not in `QuietAfterUnsubscribe`: a crash also loses the copy the cycle held, so the two messages
under way at the unsubscribe stay two (a row whose owner has left is inactive and stays so,
`Gone`, so no later query returns it). `OptedIn` holds across the fan-out because the row
copies of `todo` are verified rows and no statement takes a verification back.

*Suggestions.* `Queued` (the queue holds ids of rows) is inductive alone. `Bills` says what may
have been billed in terms of the day's counter: all turns of the counted searches, and of one
counted before midnight; in a search, the turns it has made. `Searches` says that a company is
counted at most once more than its searches were `lost`, and if once more, then the entry is
in the cache (`Bought`) or the search is under way (`Underway`); so a search can be counted
only when all before it were lost. A lapse of the entry starts the count again.

*PgStore.* A request was begun today or yesterday and is at one of its own statements
(`Underway`); one whose write was applied holds the lock between the two attempts, or is past
it (`Writing`), so nobody else has written in between. A salt in use is the salt of its day's
row, until no request of that day can be left (`SaltsStay`). What the index says of the posting
is in its row, and a row about to be written back lacks at most the item the thread itself
brings, for the poller has one request at a time (`OnePoller`). `FiledRows` counts rows filed
together with requests past the check.

*SnapshotCache.* `BoardInv`: what the page shows is in the snapshot, a reply to the board was
taken from the snapshot, and the reply to the page's newest request has all that is shown -
enough for the page with any number of writers. With one writer the committed writes are the
first ones (`InOrder`), the kept version is no later than the kept rows because it is read
before them (`TokenBehind`), and what a copy lacks is younger than the copy may be old
(`Aged`).

*PostingLabels.* `Reconcile` gives what it gave when it is applied to its own result
(`ReconcileSettles`), and levels are classified from stored text alone (`ClassifyNames`), so a
run of the backfill is idempotent (`ReclassifySettles`), and the three complaints of
`AuditIsQuiet` ask no more of a row than those two give it. The readers' agreement is a fact
about any posting of the type, by cases on the filter.

*Interview.* The spend plus a call's cost for each call in flight stays under the budget plus a
call's cost per handler (`DayInv`). Without overlap a session has one handler (`Alone`), whose
copy is the row until a call is recorded (`Copies`); the row trails the bill by what crashes
lost (`Charged`).

### Only model-checked

Liveness (`EventuallyDecided`, `BacklogDrains`, `MailedIsSettled`, `EventuallyAnswered`,
`BoardCatchesUp`): fairness is out of the prover's reach, and so is `ENABLED`. What the runs
that end in a violation show. That `Places.CountriesOf`, a fold over the labels, returns
countries: induction over data is out of reach, so the theorems about `PostingLabels` hold for
whatever set it returns. `RECURSIVE` operators, which the provers cannot handle either, occur
nowhere.

## 5. Not modelled

The text of titles, pages, prompts and mails, and what a regular expression finds in it
(`roles.py` is nothing else); parsing of the boards' formats in `detectors/`; the fetching
browser; the verifier's prompt and the parsing of its answer; the migrations of the tables;
SMS alerts, which no deployment enables; the shape of the JSON, the layout of the pages and
their option lists; the copy from SQLite to Postgres and the capture of fixtures.

A second writer of postings: every deployment has one poller. A backfill that overlaps a
poll writes old rows back and can undo a status, or a source the poller's index then never
adds again; it is run by hand, and `PostingLabels` runs it between the poller's steps. The
HTTP endpoints of the interview are not written yet.

## 6. Plan

The modules are written and their safety properties proved. What is left:

1. Abstract specifications of more components and refinements that can be proved: what a
   resolver with a budget promises (`Suggestions`), and a mailing list with opt-in and a daily
   cap (`Subscriptions`), as `PostingLifecycle` is for the poller.
2. Action properties of the components that have only state invariants: a bill, a counter and
   a verification never go back within a day, a settled suggestion is not opened again, a
   closed interview stays closed.
3. Lemmas about the classifiers that say more than the agreement of their readers: the season
   a posting is given is one its texts offer, and `Gated` refuses a posting for one reason.
