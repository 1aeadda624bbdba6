# The OpenAPI spec crawler in TLA+

A verification project for the crawler in this repository: TLA+ modules that
model its components, TLC configurations that check them on small instances,
and TLAPS proofs of the results that matter most. Paths such as
`updater.py:149` are relative to `crawler/` (or `scripts/`).

## 1. The system

A daily job (`.github/workflows/crawl.yml`) checks the repository out, runs
`scripts/run_crawler.py` and commits `data/`. One process, one thread:

```
main --discover()--> GitHubSearchClient            (lazy generator)
  |  for each result
  +--process(url)--> SpecUpdater --fetch--> SpecFetcher
  |                     |--parse_spec, determine_status, build_history_entry
  |                     |--upsert          --> CatalogManager._entries  (memory)
  |                     +--append_history  --> history/{spec_id}.json   (disk)
  +--save()--------------------------------> catalog.json              (disk)
```

| Component | State | Operations | What is hard | What makes it correct |
|---|---|---|---|---|
| `models.py` | - | record types | - | - |
| `versioning.py` | - | `determine_status`, `compute_path_diff`, `build_history_entry`, `update_catalog_entry`, `make_new_catalog_entry` | values merged over many crawls (`or`) | entries stay coherent; records describe real changes |
| `catalog.py` | `_entries`, `_loaded`; `catalog.json`, `history/*.json`, temporary files | `load`, `save`, `get`, `upsert`, `append_history`, `load_history`, `all_entries`, `count` | kill or I/O error between two steps, unreadable files | atomic replacement, append-only history, nothing dropped |
| `updater.py` | borrows the catalog and the statistics | `process` | six ways through the pipeline, two durable effects in different files | history and catalog agree; each spec counted once |
| `run_crawler.py` | `stats` | `main` | a run that dies; the next one on what it left | a crash loses at most one spec |
| `parser.py` | - | `parse_spec` | any shape of any field | accepts what is well-shaped, never raises |
| `fetcher.py` | the HTTP client | `fetch` | retries, waits named by the server | terminates, right verdict, not too early |
| `github_search.py` | `_seen_urls`, position in the queries and pages | `discover` | lazy paging, rate limits, partial failure | each file once; nothing dropped silently |
| `utils.py` | - | ids, digests, URL conversion | truncated digests | - |
| `logger.py` | module-level run id | `get_logger`, `reset_run_id`, `log_event` | formatters that keep an old run id | all lines of a run carry its id |
| workflow | the git repository | checkout, crawl, commit, push | job failure after partial work | what was saved is committed |

The hazards of the code, each at its line and with the properties that would
catch it going wrong, are listed in `PROJECT.json`.

## 2. The modules

```
Models <- Versioning <- SpecUpdater <- RunCrawler <- MCRunCrawler, RunCrawlerProofs
       GitHubSearch, GitHubUrls, RunCrawler <- DiscoveredCrawl <- MCDiscoveredCrawl
                                 RunCrawler <- CrawlWorkflow <- MCCrawlWorkflow
Models <- Parser <- MCParser <- ParserProofs
CatalogManager <- MCCatalogManager, CatalogManagerProofs
SpecFetcher <- MCSpecFetcher, SpecFetcherProofs

proofs:     RunCrawlerProofs <- CrawlEntriesProofs <- CrawlHistoryProofs
            DiscoveredCrawl, CrawlHistoryProofs <- DiscoveredCrawlProofs
            CrawlWorkflow, CrawlHistoryProofs <- CrawlWorkflowProofs
instances:  SpecUpdater -> CatalogManager -> DurableStore     RunCrawler -> AuditedCatalog
            CrawlWorkflow -> PublishedRepository              MCRunCrawler -> Parser
```

An arrow `A <- B` is `B EXTENDS A`.

**Models** holds the record types. A record keeps what the crawler decides
with; `info.version` stands for the three fields that are merged with their old
values (title, description, version), and fields that are overwritten on every
crawl are left out. A timestamp is the number of the run that took it, so the
`fetched_at` of an entry and of its record, taken a moment apart, are equal.

**Versioning** is `versioning.py` as operators of the same names.

**CatalogManager** is `catalog.py`. Every write in the code is
`mkstemp`, write everything, `os.replace`. It is cut in two, `BeginAppend` or
`BeginSave` and `ReplaceHistory` or `ReplaceCatalog`, because a kill or an
`OSError` can come in between; `temp` is the file being written. A file that
does not parse is answered by the code like a missing one, so both are the
empty content. The constant `Faults` says what the environment may do:
`kill`, `write` (an `OSError` while writing: the temporary file is removed and
the exception goes on), `read_catalog` and `read_history` (an `OSError` while
reading), `damage_catalog` and `damage_history` (between runs, somebody leaves
a file that does not parse). `StoreNext` is the manager in the hands of an
arbitrary caller, nobody else touching its files; damage to files is composed
in `RunCrawler`. The module is shown to implement **DurableStore**, a store
whose operations are atomic and which survives the loss of its process.

**SpecUpdater** is `SpecUpdater.process`, cut where it leaves something behind:
the outcome of the fetch together with everything the code does in memory after
it (`FetchFails`, `FetchNotModified`, `ParseRaises`, `ParseRejects`,
`ParseAccepts`), and the two halves of `append_history`. Since the code is
sequential, what is between two cuts is one step. `MakeSpecId`, `Sha256` and
`ParseSpec` are constants: any functions, collisions included. The outcome of
a fetch is chosen by the environment.

**RunCrawler** is `main`: `Start` (load), `Discover`, `Process`, `Save` and
`Saved`, `Finish`; `DiskError` and `Kill` end a run early, `Damage` happens
between runs. `pc` is the place in `main`, "exited" and "dead" being the two
ways not to run. Runs follow each other on the same files. `discover()` is any
set of URLs in any order; that each comes once is a guard of `Step`, not of
`Discover`, because it is the search's promise and not main's. It is shown to
implement
**AuditedCatalog**: the history is the log and the catalog a digest of it.

**Parser** is `parser.py` on the shapes of the fields that it reads. What a
loader raises besides its own error, and every expression that raises on a
field of the wrong shape, yields `Raised`.

**SpecFetcher** is `fetcher.py` with time in half seconds: `Attempt` is one
request with its answer and the decision on it, `Sleep`, `Retry` and `GiveUp`
the rest of the loop. A request lasts any of `Durations`, an arbitrary set of
numbers: httpx applies its `timeout` to each connect and each read, and follows
redirects, so no bound on the whole request is in the code. `resetAt` and
`slept` are history variables: the latest reset that an answer of the call has
named, and the time that the call has slept. `SpecUpdater` uses what its
properties say of it: a call ends, with content, "not modified" or a failure.

**GitHubSearch** is `github_search.py`. `discover()` and `_paginate` are two
nested generators that are suspended at each result, so `at` is the place where
they stand (about to request, on a page, at a yielded result, done), `page` and
`pos` the items of the last answer and the one to look at next. `Receive` is
the request, the wait of `_handle_rate_limit` and the answer; `Refused`,
`RequestRaises`, `CapReached`, `ItemRaises` and `PageEnds` are the ways in
which a page or a query ends, `SkipMalformed`, `SkipSeen` and `Yield` what
happens to an item. An answer is an arbitrary page: hours can pass between two
requests of a query, and GitHub re-indexes in the meantime. `owed` is what is
left, after the wait of `_handle_rate_limit`, of the time that an answer told
the client to stay away, by the reset if hardly any request remains or by the
Retry-After of a refusal. `brought` and `due`
are history variables, computed from each answer as a whole: the number of
results that the query's answers held, and the results of the run that are
within the caps and before an item that raises.

**GitHubUrls** has the URL conversion of `utils.py`, on records of their parts.

**DiscoveredCrawl** composes `RunCrawler` with `GitHubSearch`. `NextResult` is a
`Yield` of the search and a `Discover` of the loop in one step, with
`to_raw_github_url` between them; the search advances only while the loop waits
for it, and a run finishes only when the search is done. It is the undisturbed
process: what kills it is in `RunCrawler`, and a search lives no longer than
its run. It is shown to implement `RunCrawler`, so what the crawl was checked
and proved for with free URLs holds for those of the search.

**CrawlWorkflow** is `crawl.yml` around `RunCrawler`: the files of `RunCrawler`
become those of a runner, filled by `Checkout` from the repository and lost
when the job ends, unless `Commit` and `Push` bring them back. Crawl steps are
those of `RunCrawler` with its kills and write errors. A run is `Trigger`ed with
an event, which names the commit that is then the head of the branch, and waits
for the job that is running, in place of the run that has waited so far, as the
concurrency group has it. `Checkout` takes the commit of the event
(`actions/checkout` without `ref`), not the head of the moment: an event whose
commit is no longer the head is `behind`, and a push that builds on it is
rejected. So a run that was queued behind a job that pushes loses its crawl,
with nobody else pushing; `OthersPush` is the other way to the same end.
Commits of others that touch `data/` are not in this module (they are
`RunCrawler`'s `Damage`), nor is the re-run of an old event by hand.
It is shown to implement **PublishedRepository**: every commit extends the
trail of each spec by the one new content that its entry now has, or leaves
both alone.

Definitions named `X__Suffix` are mutants: `X` the way it could plausibly be
wrong. No specification uses them; `PROJECT.json` says which property fails
when `X` is replaced by them.

## 3. What is checked

| Run | Instance | Shows |
|---|---|---|
| `crawl_core` | 2 URLs with distinct ids, 5 contents, 3 runs; kill, write errors, damage to the catalog | `LosesAtMostOneSpec`, `PublishedIsRecorded`, `EntriesAreCoherent`, `StatsMatchHistory`, `EntriesMoveForward`, `ImplementsAuditedCatalog` |
| `crawl_faulty` | 2 URLs with the same id, 5 contents, 2 runs, all faults | `TypeOK`, `VersionSignalIsImplied`, `StatsAddUp`, `CatalogIsReplacedWhole`, `HistoryIsExtendedOrRestarted` |
| `crawl_search` | 2 files, 2 queries, 5 pages of up to two items, up to 2 pages and 2 results per query, refusals and exceptions; 3 contents, 3 undisturbed runs, fair | `DiscoveredTypeOK`, `NoDuplicateRecords`, `HistoryEndsAtCatalog`, `EveryResultIsCrawled`, `YieldsOnlyWhatIsDue`, `ImplementsRunCrawler`, `EverySpecIsRecorded`, `CrawlEnds` |
| `workflow` | 2 specs, 3 contents (one breaks the crawl), 3 crawls; kill, write errors, lost runners, queued runs, rejected pushes, two data directories, fair | `WorkflowTypeOK`, `RepoHistoryIsDated`, `ImplementsPublishedRepository`, `JobEnds` |
| `store` | 2 specs, 2 entries, 2 records, histories up to 2, kill and write errors | `HistoryIsAppendOnly`, `NoEntryIsDropped`, `ImplementsDurableStore` |
| `parser` | every combination of shapes and loader outcomes, bounded as below | `ParserAcceptsWellShaped`, `ParserRejectsNonMappings` |
| `fetcher` | 3 attempts, requests of 0 or 4, reset -3/0/7 and Retry-After -1/0/5, each present or absent | `FetchTypeOK`, `ResultFollowsAnswers`, `HonoursReset`, `SleepIsBounded`, `CallReturns` |

Bounds and why they are enough:

- `MaxRuns` = 3 (2 with all faults): the longest story in the code is a first
  crawl, a change, and a crash or failure in between; every field of an entry
  depends on the previous entry only. Nothing in the code relates more than two
  specs, and two URLs also give the case of one spec dying while another is
  intact.
- The five contents are two that name different versions, one that names none,
  one that is rejected, one on which the parser raises. `MCRunCrawler` computes
  what the parser makes of them with the operators of `Parser`.
- In `MCParser`, `servers`, `schemes` and `tags` take the shapes that the code
  can tell apart there, and no keys exist without a `paths` mapping. The fields
  of bytes that no loader makes a mapping of are not varied. JSON keys are
  strings.
- `fetcher` scales time: a cap of 3 units is reached by the second back-off,
  5 and 7 units are longer than the cap, as 60 s and a reset header are in the
  code; negative values are the edge cases of both headers.
- `MaxRecords` bounds the histories of `store`. `RunCrawler` does not need it:
  its histories are bounded by the runs.
- `crawl_search` has a query after a query and a page after a page, which is
  all that the search relates. With a cap of 2 and pages of two, the cap is
  reached in the middle of a page, at its end and before a request. One of its
  two URLs is no blob page and is not converted. `MaxPages` bounds the pages
  that the server names: a server that links pages without results for ever
  would keep the search busy for ever (GitHub serves at most 1000 results).
- `workflow` has no bound of its own: the number of crawls bounds the commits,
  and nothing is triggered once the last crawl that `MaxRuns` allows is being set
  up. Two crawls are enough for a queued run that finds the branch ahead of it, a
  third goes on from there.
- `store` uses symmetry in specs, entries and records; its properties are
  safety properties.

`CHECK_DEADLOCK FALSE` is set where a system may stop: after `MaxRuns`, or
(store) with histories at their bound. The parser module stutters, and the
fetcher can always be called again, so deadlock is checked there.

Fairness. `FairSpec` adds `WF_vars(Step)`: one thread, nothing it waits for but
the end of a call, and every call ends: attempts are bounded (`CallReturns`),
sleeps end, local I/O returns, and of a request no connect and no read can hang
for longer than the timeout of httpx, so that it ends if the answer does. That
answers are of finite length is an assumption on the servers, not in the code. `Start`, faults and `Damage` are not fair:
nobody promises another run. `DiscoveredSpec` and `WorkflowSpec` assume the same
of the search and of a job (its steps end, by themselves or by
`timeout-minutes`); triggering and starting a job, breaking one and pushing from
elsewhere are not fair. For the fetcher, weak fairness of its loop: requests and
sleeps end. Its time is the client's; a server's clock that differs from it
shifts the resets, which are arbitrary numbers.

### Where code and documentation disagree

Each is a run that ends in a counterexample; `PROJECT.json` quotes the lines.

| Run | The documentation | The code |
|---|---|---|
| `doc_human_id` | every entry has a `github:owner/repo/filename` id | not if its first fetch failed |
| `doc_search` | rate limits are handled transparently; a query stops at its cap or at its last page | it stops at any answer but 200, 403 and 429 included |
| `doc_search_wait` | the secondary rate limit, 429 with Retry-After, is handled in the search | Retry-After is never read: the next query follows at once |
| `doc_backoff` | exponential back-off on 5xx | the next request follows at once |
| `doc_append_only` | history files are append-only, all past entries are preserved | a file that cannot be read is overwritten |

What holds instead of the last: `HistoryIsAppendOnly` for files that can be
read, and `HistoryIsExtendedOrRestarted` for all, which says what is lost.

Other disagreements were met while modelling. They need no run: either they can
be read off one definition, or a theorem says more than a trace would.

- "Two independent signals (OR logic)" (`versioning.py:5`): a version never
  differs without the hash, in any reachable catalog. That is
  `VersionSignalIsImplied`, checked in `crawl_faulty` and proved as
  `VersionSignalIsRedundant`.
- "The parser NEVER raises", "a single bad spec should not abort an entire crawl
  run" (`parser.py:5-7`): it raises on fields of the wrong shape, nothing catches
  it, and the run is over. That is the action `ParseRaises`, which the document
  `poison` takes in `crawl_core`, `crawl_faulty` and `workflow`.
- `path_diff` is "None for NEW entries" (`models.py:108`), but it is None for all:
  the old paths are looked up on an entry that has no such field
  (`updater.py:141`, `OldPaths`).
- "Honour Retry-After or X-RateLimit-Reset" (`fetcher.py:206`): not a Retry-After
  that stands beside a reset, nor one that is a date, which `float()` rejects
  (`_rate_limit_wait`). `HonoursReset` is what holds.
- History files "don't accumulate identical duplicate records"
  (`versioning.py:12`): after a crash between append and save, the next run
  repeats the record. `NoDuplicateRecords` holds in `crawl_search`, where no
  process dies, and in the repository, since a crawl that dies takes its files
  with it (`PublishRun` of `PublishedRepository` asks for a content other than
  the one before).

## 4. What is proved

By TLAPS, for every value of the constants that satisfies the named
assumptions of the modules (values such as `None` are no spec ids, entries or
digests; `Sha256`, `MakeSpecId` and `ParseSpec` are functions of their types;
`MAX_RETRIES` is at least one; a version that the parser has kept is not
blank). Every safety property of the passing runs is a theorem. What a theorem
assumes besides is in its statement:

| Theorem | Assumes | Says |
|---|---|---|
| *CatalogManagerProofs* | | |
| `StoreTypeCorrect` | - | `StoreSpec => []StoreTypeOK` |
| `StoreIsDurable` | `FilesAreReadable` | `StoreSpec => ImplementsDurableStore` |
| `HistoriesAreAppendOnly` | `FilesAreReadable` | `StoreSpec => HistoryIsAppendOnly` |
| `EntriesAreKept` | `FilesAreReadable` | `StoreSpec => NoEntryIsDropped` |
| *RunCrawlerProofs* | | |
| `TypeCorrect` | - | `Spec => []TypeOK` |
| `CatalogIsRecorded` | `HistoriesAreReadable` | `Spec => []PublishedIsRecorded` |
| `CrashLosesOneSpec` | no `read_catalog` | `Spec => []LosesAtMostOneSpec` |
| `VersionSignalIsRedundant` | `DigestsAreDistinct` | `Spec => []VersionSignalIsImplied` |
| *CrawlEntriesProofs* | | |
| `EntriesTellOneStory` | `NoUnsolicited304` | `Spec => []EntriesAreCoherent` |
| `CatalogIsWhole` | - | `Spec => CatalogIsReplacedWhole` |
| `SavesMoveForward` | `NoUnsolicited304`, no `read_catalog` | `Spec => EntriesMoveForward` |
| *CrawlHistoryProofs* | | |
| `CountsAddUp` | - | `Spec => []StatsAddUp` |
| `HistoriesGrowByOneRecord` | - | `Spec => HistoryIsExtendedOrRestarted` |
| `SummaryMatchesHistories` | `HistoriesAreReadable` | `Spec => []StatsMatchHistory` |
| `CrawlIsAudited` | `NoUnsolicited304`, `HistoriesAreReadable`, no `read_catalog` | `Spec => ImplementsAuditedCatalog` |
| `HistoriesEndAtCatalog` | `NothingGoesWrong`, `DigestsAreDistinct` | `Spec => []HistoryEndsAtCatalog` |
| `HistoriesDoNotRepeat` | `NothingGoesWrong`, `DigestsAreDistinct` | `Spec => []NoDuplicateRecords` |
| *DiscoveredCrawlProofs* | | |
| `SearchFeedsTheCrawl` | - | `DiscoveredSpec => ImplementsRunCrawler` |
| `DiscoveredTypeCorrect` | - | `DiscoveredSpec => []DiscoveredTypeOK` |
| `YieldsAreDue` | - | `DiscoveredSpec => []YieldsOnlyWhatIsDue` |
| `ResultsAreCrawled` | `NoUnsolicited304` | `DiscoveredSpec => []EveryResultIsCrawled` |
| `SearchedHistories` | `NothingGoesWrong`, `DigestsAreDistinct` | `DiscoveredSpec => [](NoDuplicateRecords /\ HistoryEndsAtCatalog)` |
| *CrawlWorkflowProofs* | | |
| `WorkflowTypeCorrect` | - | `WorkflowSpec => []WorkflowTypeOK` |
| `EveryCommitIsAWholeCrawl` | `RunnerIsSound` | `WorkflowSpec => ImplementsPublishedRepository` |
| `CommitsAreDated` | `RunnerIsSound` | `WorkflowSpec => []RepoHistoryIsDated` |
| *SpecFetcherProofs* | | |
| `FetchTypeCorrect` | - | `FetchSpec => []FetchTypeOK` |
| `ResultsFollow` | - | `FetchSpec => []ResultFollowsAnswers` |
| `ResetsAreHonoured` | - | `FetchSpec => []HonoursReset` |
| `SleepsAreBounded` | `HeadersAreBounded` | `FetchSpec => []SleepIsBounded` |
| *ParserProofs* | | |
| `SchemaIsEnough` | `raw \in RawContent` | `ParserAcceptsWellShaped` |
| `OnlyMappingsAreSpecs` | `raw \in RawContent` | `ParserRejectsNonMappings` |

What the assumptions mean:

- `FilesAreReadable`, `HistoriesAreReadable`, "no `read_catalog`",
  `NothingGoesWrong`: which of the `Faults` are excluded. They are needed: an
  unreadable file is answered like an empty one, and what is then written
  replaces it. `CrawlIsAudited` still covers kills, write errors and damage to
  `catalog.json`; `EveryCommitIsAWholeCrawl` covers kills and write errors at
  any point. `NothingGoesWrong` excludes every fault but leaves the
  parser free to end a run.
- `NoUnsolicited304`: no server answers 304, as no request carries a validator.
  Otherwise an entry of a spec that was never downloaded becomes "unchanged".
- `DigestsAreDistinct`, and `IdsAreDistinct` in `RunnerIsSound`: SHA-256 does
  not collide on the contents seen, nor its first 12 digits on the URLs.
- `HeadersAreBounded`: the waits that servers name have a bound. Without it
  there is no longest wait that a bound could be computed from.

The inductive invariants, and why they are needed:

- `StoreInv` = `StoreTypeOK`, `TempIsConsistent` (a temporary history is the
  target's content and one record, a temporary catalog the one in memory) and
  `MemoryCoversFile` (what the file has, a loaded catalog has). Neither
  `HistoryIsAppendOnly` nor `NoEntryIsDropped` can be seen from the step that
  replaces the file: they depend on what was put into the temporary file.
- `TypeInv` = `TypeOK` and `ControlOK` (where `pc` is, what `current`,
  `pending`, `loaded` and `temp` are). `ControlOK` is what makes
  `entries[MakeSpecId[current]]` well-defined in every action of the pipeline.
- `RecordInv` adds: an entry of the catalog in memory is recorded too, unless
  it is the one whose record is `pending` or being written. Publication copies
  memory, so the claim about the file rests on one about memory.
- `SavedInv`, `SavingInv`: a catalog being saved is the one in memory.
- `VersionInv`: an entry, in memory, on disk or in between, whose hash is that
  of a content has the version that the content names, if it names one.
- `EntryInv`: memory, file and temporary file are coherent alike, and no stored
  hash is the empty string (`existing.latest_hash or ""` of a 304 is the one
  expression that could store it, for a spec without a hash).
- `ForwardInv`: memory is ahead of the file in the sense of `MovesForward`, and
  equal to it before a spec is processed.
- `StatsInv` follows the counters through `process`: in the middle of a spec
  they differ by the one that is being counted, in a way that depends on `pc`.
- `AppendInv`: the temporary history is what the file has, or nothing (an
  unreadable file), and the pending record, dated today. `DatedInv`: no record
  is later than the clock. `CountedInv`: the records of this run are finitely
  many and as many as are counted; that appending one adds one to the
  cardinality needs that the set of positions is finite.
- `PublishInv` ties `pending` to the entry it was made from, and a catalog about
  to be saved to the newest record: the step that publishes (`Saved`) then maps
  to `AuditedCatalog`'s publication of that record, and `HistoryAppended` to its
  recording.
- `EndsInv`: the newest record is the saved catalog's content when no spec is in
  process, memory's for all others but one in the middle. `NoDuplicateRecords`
  is about neighbours in a history, but what keeps an append from repeating the
  last record is a comparison with the catalog.
- `SeenAgree`: the URLs that the loop has seen are the raw URLs of the results
  that the search has yielded, so a result new to one is new to the other.
- `SearchInv`: `collected`, counted item by item, runs behind `brought`, counted
  per answer, by the results that are left on the page (`PageInv`), and what is
  due has been yielded or is still ahead on the page (`DueInv`).
- `CrawledInv`: every URL of the run but the one in process has an entry of this
  run in the file.
- `JobInv` (no crawl runs outside the crawl step), and `OutcomeInv`, which
  says that a waiting event that is not behind has the files of the head, and
  relates those of a runner to the repository they were checked out of, as long
  as its event is not behind: each spec is `Kept`, `Grown` by one record of this run, or in between
  (`Recording`); specs not yet discovered are kept. With `IdsAreDistinct` no
  spec grows twice in a crawl, so `Push` is a `PublishRun`.
  A push of an event that is behind changes nothing, whatever its crawl did.
  `PastInv`: committed records are of earlier runs than the one going on.
- `AnswersInv`: one answer per attempt that is over, only the last definitive.
  `HonoursInv`: a sleep ends no earlier than a reset that was named. `SleepInv`:
  what has been slept, with the sleep that is planned, is within the budget of the
  attempts so far.

`SearchFeedsTheCrawl` carries the theorems on `Spec` over to the composed system
(`SearchedHistories` spells two out). In the proofs, each lemma about a group of
actions has one step per action; what several need is stated once (what a fetch
does to an entry, which actions touch which file, what `Append` does to a
history).

What failed on the way, and what became of it:

- `ParserAcceptsWellShaped` cannot be proved if `""` may be a version or
  `Raised` a parsed spec: the parser turns a blank version into none, so a
  document that names `""` is accepted without it. `Parser` now says so
  (`VersionsAreNotBlank`, `RaisedIsNoParsedSpec`); the code justifies the first,
  since a version only leaves `_safe_str` if it is not blank.
- `StatsMatchHistory` does not need distinct ids or a readable catalog, as the
  run that checks it has them: a collision of ids writes two records and counts
  two. `CatalogIsReplacedWhole`, `StatsAddUp` and
  `HistoryIsExtendedOrRestarted` turned out to need no assumption at all.
- The time of a whole call has no bound, since a request has none; what the
  code bounds is the sleep. `SleepIsBounded` holds for finitely many waits in the
  run; in general it needs `HeadersAreBounded`. Since the back-off is `2^attempt`, it also needed
  that powers are positive; with no induction at hand, that is derived from the
  number of subsets of a set of `n` elements (`PowersArePositive`).

What is left to TLC: liveness under fairness (`EverySpecIsRecorded`, `CrawlEnds`,
`JobEnds`, `CallReturns`), which with `ENABLED` is beyond the prover, and that
the conditions of the theorems are met by states that occur. Induction over
data is out of reach in general: where a proof needs it, for natural numbers, it
goes through the least element of a set instead (`LeastNatural`). The runs
that end in a counterexample have no theorem.

## 5. What is not modelled

- The logger. It is output only: no component reads its state. What is wrong
  with it - formatters keep the run id of the time when they were made, so that
  log lines after `reset_run_id` carry another id than the run reports - is one
  fixed sequence of two calls, which a test reaches as well as a model.
- Which URLs GitHub's search returns. They contain a commit, so a file that
  changes comes back as another URL with another spec id: in `data/history`, 301
  files are recorded under two ids or more, and no history has a second record.
  The model takes URLs as they come.
- The inputs of the workflow, except the data directory, and its schedule: a run
  may be triggered at any time.
- The human-readable id that `make_human_id` computes: only whether an entry has
  one is kept.
- Fields that nothing decides with (title, description, servers, tags, counts,
  version family) and the order inside path diffs.
- Two processes on one data directory: the workflow's concurrency group
  excludes it (`crawl.yml:17-19`).
- Abandoned temporary files, which no code reads.
- Files whose damage makes the reader raise rather than start afresh (a JSON
  value that is no list, bytes that are no UTF-8): a run that meets one ends
  there, as with a write error.
- Validators (ETag): no caller passes any. `FetchNotModified` is therefore an
  intermediary's doing and a fault.
- `load_history`, `all_entries`, `count`, `truncate`, `is_yaml_url`,
  `is_json_url`, `config.yaml`: nothing in the crawler uses them.

## 6. Plan

1. *Done.* Persistence, pipeline, driver, parser and fetcher; abstract
   specifications `DurableStore` and `AuditedCatalog`; first theorems.
2. *Done.* `GitHubSearch` and its composition with the crawl; `CrawlWorkflow`
   around it; abstract specification `PublishedRepository`.
3. *Done.* Proofs of every safety property of the passing runs, including the
   refinements of `AuditedCatalog` and `PublishedRepository`.
4. Next: the conditions under which the findings would not arise as theorems (a
   path diff if entries kept paths; no lost query if only 200 and the limits'
   answers came); weaker assumptions where they are known to be too strong
   (`IdsAreDistinct` only for the URLs of one run; readable files only during a
   run); theorems about the operators of `Versioning` and `GitHubUrls`; shorter
   proofs where one lemma serves two.
