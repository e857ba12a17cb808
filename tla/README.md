# TLA+ models of intentforge

intentforge is a self-hosted intent-aware meta-search engine. A Rust gateway
answers `GET /search` and a family of other endpoints by asking several SearXNG
instances (one behind a VPN, one behind tor), a local Tantivy index and an
embedding service; a Rust crawler feeds the index; shell scripts rotate the exit
addresses of the VPN and tor containers. This directory holds models of the parts
with state, concurrency and failure handling, TLC configurations that check them,
and TLAPS proofs of the most important invariants.

Sizes: about 44 000 lines of Rust, of which `services/gateway/src/main.rs` has
26 117. The models follow one search from the request to the response, what is
shared between searches, and the way of a page from the crawler's queue into the
index. The tables and the string processing below the level of words are left out.

## 1. Inventory

Paths are relative to `src/`. "State" is what survives one request or loop turn.

| Component | State | Operations | Interacts with | Correct when |
|---|---|---|---|---|
| Search request (`gateway/src/main.rs`, `handle_search`, 15186-19327) | semaphore of 8 slots, table of in-flight keys with the oneshot senders of subscribers | validate, look at the cache, wait for a slot, lead or subscribe, fan out, merge in the blocking pool, cache, notify, be dropped by the 30 s timeout | cache, fan-out, every other request of the same key | slots never leak, no subscriber is forgotten, failures are not shared, every request is answered once |
| Response cache (`SearchCache`, 9957-10044) | map of entries with size, birth and lifetime | get, put with eviction | all handlers (search, news, images, goals share it under name-spaced keys) | at most 64 MiB and 10 000 entries, never serves an expired body, keeps the newest |
| SearXNG fan-out (15535-17082, 18988) | collector of one request; detached fetch tasks that outlive it | read the breaker, two attempts, branch timeouts, join deadline, aggregation, retry, verdict | breaker, VPN rotation, tor warm-up | hits that came in time are answered, no instance is skipped when nothing was found, blame falls on the right instance |
| Circuit breaker (9762-9947) | per key: streak, window, counters | is_open, record_success, record_failure, record_connection_failure | all fan-outs, invidious, images | always closes again, short backoff for timeouts, success forgets |
| Result volume tracker, rate limits, IP rotation (6353-6451, 13007-13116, 15869-15884, `privacy-layer/*.sh`) | rolling averages, last rotation, trigger files, TOR2_WARM | observe, throttle, write a trigger file, warm tor2 | rotator script, fan-out | at most one rotation per window, no rotation lost |
| Goals (`goals.rs`) | `GoalStore` map: goals, phases, progress | create, update, leaderboard | cache | concurrent updates keep the record consistent |
| Commerce enrichment, affiliate decoration (`gateway/src/main.rs`, 3185-5825, 19164-19246) | the wall clock of one request, fetches that outlive it, the strip of results with facts | read the facts of a page, fetch in waves, replay the strip, compare offers, decorate | external shops, `handle_search`, `handle_shopping` | the answer is not lost for it, facts are attributed to where they were found, prices of two signals are not mixed |
| Query reading, constraints, ranking (`gateway/src/main.rs`, 240-12998, 15338-19024) | the constraints, results and scores of one request as they go through some twenty gates and rewrites | read, override, gather, gate, merge, score, cap, restore, report | intent engine, fan-out, indexer | caps and bounds survive later steps, gates leave something, the report says what was asked |
| Spelling, dictionary, cleaning (`spell.rs`, `dictionary.rs`, `clean.rs`) | static tables | pure functions of strings | query reading | |
| Seen-URL set (`crawler/src/main.rs`, 163-221) | two generations of URLs | insert with rotation, dump, reload | crawl queue, snapshot | bounded, never forgets recent URLs, reload is faithful |
| Crawl queue, tasks and worker (223-346, 658-939, 1609-1637) | heap, seen set, domain limiter, concurrency, batch | enqueue from four tasks, dequeue a batch, crawl, discover, tune | snapshot saver, indexer | no duplicates, polite, bounded, nothing forgotten |
| Snapshot file (311-373) | file, backup, temporary file | save, load | crawl queue | never torn, a save survives a kill |
| Ingest buffer (`crawler/src/main.rs`, 569-590), page processing, indexer (`indexer/src/main.rs`) | buffer, what each flusher took, writer, commit, reader, embeddings, pending count | crawl, batch POST, ingest, commit, reload, migrate, search | crawler, gateway | no document lost silently or duplicated, what is ingested becomes searchable, a vector costs no page but for better ones |
| Intent engine (`intent-engine/src/main.rs`) | model, caches | infer | gateway | pure up to its caches |
| GeoLite2 updater, compose files, traefik, haproxy | files | download, swap | gateway | mostly configuration |

What makes this code hard: handlers share a table and a semaphore and may be
dropped at any await; fetches are detached from the request that started them and
report to a breaker that other requests read; time limits are nested (branch,
attempt, join, retry, handler); the crawler's state is in memory and is saved
while it changes. The hazards, each at its line, are in `PROJECT.json`.

## 2. Modules

| Module | Models | Depends on |
|---|---|---|
| `SearchService` | what `/search` promises its callers (abstract) | |
| `SearchRequest` | the handler: slots, in-flight table, merge, cancellation | implements `SearchService` |
| `SearchRequestProofs` | its invariants and the refinement, proved | |
| `LossyCache` | a store that may forget but never lies (abstract) | |
| `SearchCache` | the cache with byte budget and eviction loop | implements `LossyCache` |
| `SearchCacheProofs` | its budget, the newest entry and the refinement, proved | |
| `SearchFanout` | the fan-out of a request and the breaker as a set of open keys | |
| `CircuitBreaker` | the breaker with its windows in units of 15 s | |
| `SearchFanoutProofs` | the invariants of fan-out and breaker, proved | |
| `Lists` | filter, map and stable sort of the standard library, as folds | |
| `Calendar` | dates: day numbers, comparison, date of a result, recency windows | |
| `PageScores` | the signals the ranking takes from one page, weights, calibration | `Lists`, `Calendar` |
| `Exclusions` | constraint records, what an excluded term matches, constraint score, hard filters | `PageScores` |
| `QueryTerms` | what the merge reads off the query: topic words, phrases, sides, places | `Exclusions` |
| `MergeRank`, `MergeTail` | `merge_local_and_web`: the scoring loop; the drops, boosts, order and caps after it | `QueryTerms` |
| `ResultGates` | the steps of `handle_search` on results before and after the merge | `MergeTail` |
| `Negation` | which terms a query excludes, hard and soft | `QueryTerms` |
| `QueryReading` | operators, spoken bounds, fallbacks, the intent and its overrides | `Negation` |
| `SearchPipeline` | one search as a state machine over these steps | `QueryReading`, `ResultGates` |
| `FoldFacts` | what a fold over a list keeps, proved by induction over its length | |
| `SearchPipelineProofs` | caps, bounds, exclusions, the gates and the report, proved | instances of `FoldFacts` |
| `OfferFacts` | what a product page states and how its signals are merged; comparisons | |
| `Affiliate` | programs, networks and the links of results | |
| `Shopping` | the two enrichments of a request, with their fetches and deadlines | `OfferFacts`, `Affiliate` |
| `ShoppingProofs` | the time of the enrichment, its sources, prices and fetches, proved | |
| `SeenSet`, `SeenSetMachine` | the two-generation set, its dump and reload | |
| `SnapshotFile` | the steps of a save, kills, losses of power, load | |
| `Crawler` | queue, tasks that enqueue, worker, snapshots, kills | `SeenSet` |
| `CrawlerProofs` | the invariants of seen set, snapshot file and crawler, proved | |
| `CrawlPage` | what the crawler computes from a page: trust, gate, date, price, text | |
| `IndexSearch`, `Indexer` | the indexer's search; its writer, committer, reader, migration | |
| `Ingest` | buffer, flushers, `/crawl`, composed with the indexer | `CrawlPage`, `Indexer` |
| `IngestProofs` | no silent loss, one document per URL, embeddings, commits owed and the order of dates, proved | |
| `MC*` | instances for TLC | the module of that name |

### How state and actions correspond to the code

**SearchRequest.** `permits` is `search_semaphore`, `inFlight` and `senders` the
two halves of `AppState.in_flight` (a key and the oneshot senders stored under it),
`rx` the receiver of each handler, `guard` the live `DedupGuard`s, `blocking` the
merges that run in the blocking pool. `pc` names the await a handler is at. A body
is its outcome and the request that made it: the properties need to know whose
failure it is, not what it says. `CacheHit`, `CacheMiss`, `Acquire`, `Busy`,
`Subscribe`, `Lead`, `TakeShared`, `FallThrough`, `StartMerge`, `MergeEnds`,
`RankingFailed`, `BuildResponse` and `Notify` are the pieces of `handle_search`
between two awaits; `Cancel` is the drop of the future by the `TimeoutLayer` or by
the client, including the drop of its guard.

**SearchCache.** One action per call; the eviction loop of `put` is one entry per
step with the mutex held (`lock`), with the running totals `used` and `count` the
code keeps, so that a total that drifts from the map is visible.

**SearchFanout.** `open` is the breaker as the fan-out sees it, `skip` the copy the
request took before its waits, `tasks` the detached fetches, `got` the collector.
`TaskEnds` reports to the breaker whether or not anybody listens. `Aggregate`
credits every collected response, as the code does. `AttemptEnds` and `JoinDeadline`
may happen at any moment of an attempt: time is abstract. `Retry` is fired on the VPN
instance alone, for a query with exclusions (`neg`) on every instance whose circuit is
closed (16947); in `RetryEnds` each reports under the key of its own instance.
`Respond` gives the verdict.

**CircuitBreaker.** `streak` and `left` are `consecutive_failures` and the rest of
`open_until`; the constants of the run are those of the code (15 s, 300 s, 600 s).

**SeenSet, SeenSetMachine.** A set is a record of its generations. A dump lists the
older generation first, each in any order, as iterating a `HashSet` does; a reload
inserts one URL per step.

**SnapshotFile.** `phase` walks through `save_snapshot_atomic`: copy to the backup,
create (which truncates), write, `sync_data`, rename. A snapshot is the number of
its save. The file system is external: `unsynced` are the files whose data a loss
of power may take, `stable` is what the directory durably points at.

**Crawler.** `holder` and `todo` are a loop that enqueues with the queue mutex held,
one URL per step, so that the crawls that end and the kill interleave with it. The
heap is a bag: any entry of an allowed domain may be the next. `hot` are the
domains requested less than 750 ms ago. A save has an effect as a whole or none,
which is what `SnapshotFile` shows.

**Ingest, Indexer, IndexSearch, CrawlPage.** `buffer` is `AppState.ingest_buffer`,
`batch` what a flusher has taken with `mem::take`, `request` the document of a
running `/crawl`. `Post` and `PostFails` are the two ends of the request to the
indexer: it takes the documents, or it takes none because the request fails or is
answered with an error status. Either way the batch is gone (`Flushed`); the crawler
does not look at the status. Of the
indexer, `live` are the documents the writer would commit, `committed` those on the
disk, `visible` those the reader searches; `pending` is `writer_pending` and
`committer` what the committer took from it with `swap`, before it had the lock.
Tantivy is external: a commit is atomic and may fail. `MigrationBegins` reads the
rows into memory and removes the directory, `MigrationEnds` commits them to a new
one. The search of the indexer is the operator `Search`: floors, gate, fusion
(`FusedDocs`), score, the cap per domain and the cut of the answer.

**SearchPipeline and the modules below it.** `stage` names the next step of
`handle_search`; the state is `c` (the constraints, which many steps rewrite),
`reading` (intent, confidence, distribution), `found` (web, local, what each address
has earned), `snapshot` (`constraints_clone`, which the merge uses), `answer` and
`report`. One action is one block of the handler, with all the gates and fallbacks
in it. A word is a member of a small set, with the lists of the code it is in
(`Kind`), the words its letters contain (`Within`, for the many substring tests) and
its stem; a page has a title and a body of words, and the patterns that the code finds
in its URL and text (`shape`, `marks`). A price is either given beside the text
(`page.price`) or a word of it (`Cost`): `PriceOf` is `get_price`, which prefers the
first; the price filter reads the text only (`Told`). Scores are ten-thousandths. The intent
engine, which of the sources answer, and the order in which a `HashMap` returns its
entries are nondeterministic.

**Shopping.** `results` is first the clone that `handle_search` makes for the strip
(`pass` 1), then the results `handle_shopping` enriches (`pass` 2). `tasks` are the
spawned fetches with the times at which they give up; `channel` and `due` are the
receiver and the number of items its drain still waits for. Time passes in seconds
and only where the handler waits. A fetch that fails ends without a message, as the
`if let` around `tx.send` has it. `Returned` is what `handle_search` returns, decorated
for every commercial query (19308-19323), and what `handle_shopping` goes on with; the
strip and the results of `/shopping` are decorated for exact models (`Linked`). A
response that comes from the cache or from another handler is not decorated; this is
left out.

## 3. Runs

| Run | Instance | Shows |
|---|---|---|
| `search_request` | 3 requests, 3 keys (one malformed), 2 slots | slots and wakers accounted, refinement of `SearchService`, every request answered |
| `search_cache` | 3 keys, sizes 1-3, budget 3, 2 entries, lifetimes 1-2, 4 puts, clock 4 | budget, newest kept, refinement of `LossyCache` |
| `search_fanout` | 1 request, 2 instances in both orders, any breaker state | hits kept, all probed, right blame for fetches and retries, termination |
| `circuit_breaker` | the code's windows, 66 failures | recovery, short backoffs |
| `search_pipeline` | 10 queries with pages made for them, any subset of sources, 3 attempts at the engine | caps and price bound survive the steps after them, gates before the merge leave something but for two that may not, the report gives back what the fail-opens cleared, what the exclusions took out stays out, termination |
| `shopping` | 5 results, waves of 2, window 4, strip 1, searches of 0 to 30 s, 5 requests | no answer lost, honest provenance, no second fetch of shown facts, prices as one signal states them, with a container's only where they are no price |
| `seen_set` | 7 URLs, capacity 5, 9 inserts, reload at any point | memory of the last half, faithful reload |
| `snapshot_file` | 4 saves | latest survives a kill, durable stays |
| `crawler` | 4 URLs, 2 domains, queue of 2, concurrency 1-2, one save, one kill | no duplicates, politeness, bound, nothing forgotten while up |
| `ingest` | 2 workers, ticker, 3 kinds of pages, 2 crawls, threshold 2, an old index, one kill | no step loses a document but in four known ways, none is posted twice, one document per URL, embeddings follow, nothing stranded before a commit, a vector outranks but hides nothing, searchable in the end |
| `duplicates_share_fetch`, `restart_resumes` | as above | TLC violates a statement of the code's own comments (section 5) |

Why the bounds are enough. Two slots and three requests are the least with a
leader, a subscriber that holds the other slot and a third request that waits for
one; the invariants and the refinement are proved for any number. In the cache two
entries, two lifetimes and a body that is too large exercise each limit separately.
The fan-out needs two instances to confuse their keys; requests interact through
the breaker only, whose state is free initially and whose windows may end at any
moment. What a concurrent request could do besides, opening a circuit or closing it
in the middle, affects the request only where it reads the breaker: the single read
and the check before the retry. The breaker's bound of 66 passes the width of the
64-bit backoff. Seven URLs and nine inserts rotate a set of odd capacity five several
times, before and after reloads. The crawler's queue of two makes the bound, the 80 %
threshold and the refusal reachable; a domain with two pages makes politeness matter;
a capacity of four makes the seen set rotate. Two flushers with a ticker and a
threshold of two are the least in which two find the buffer full; the page of the old
index has the URL of a page that is crawled, so that replacing, migrating and
committing meet. The queries of the pipeline are one per family of rules: a bound in
words and as an operator, with pages whose price is beside the text, in it or both,
an exclusion among other words and alone, a recency window,
instructions with a manner, a matter of taste, a phrase in quotation marks, a
superlative over poor pages; their pages differ in exactly what these rules look at. The numbers of results below which
the search asks again (5, 10, 15) are scaled to 3, so that few pages cross them; the
engine's three attempts are the code's.
The searches of the shopping run end before, at and after each of the limits 4, 24
and 30 s, and its pages carry each kind of markup, a range, the upper end of one
beside a price in a container, an unreadable price and markup outside a product.

Named bounds: `MaxPuts`, `MaxTime` (cache), `MaxStreak` (breaker), `MaxInserts`
(seen set), `MaxSnapshots` (snapshot file), `MaxSaves` (crawler), `MaxRestarts`, `MaxStale`
(crawler), `MaxCrawls`, `MaxKills` (ingest), `IntentAttempts` (pipeline). Deadlock
is checked except where requests, bounded puts, bounded saves or bounded crawls do
stop.

### Fairness

`SearchRequest!FairSpec` is weak fairness of each handler's own steps: tokio polls a
ready task, the blocking merge ends, and its semaphore is FIFO. No timeout,
`Busy`, panic or cancellation is assumed to happen: requests are answered
without their help. `SearchFanout!FairSpec` is weak fairness of the request's own
steps; `AttemptEnds` is among them because each attempt has a timer. No fetch is
assumed ever to end and no circuit to close. `SearchPipeline!Progress` is weak
fairness of the one task, with its `ENABLED` written out (a step is enabled until the
search has ended), since `ENABLED` would evaluate the whole merge again; the engine
may fail each time. `Ingest!FairSpec` is weak fairness of the ticker (a
`tokio::interval`), of a flush that has begun (its POST has a timeout), and of the
start, the count's `swap` and the reader; for the commit it is strong fairness: a
commit may fail any number of times, but one that is tried for ever succeeds once
(the disk is not full for good). The other specifications have no fairness and no
liveness properties.

## 4. Proofs

All theorems hold for every value of the constants that the named assumptions of
the modules allow. Every inductive invariant below was checked by TLC on the small
instance before it was proved.

*SearchRequestProofs.* `IInv` is the conjunction of `TypeOK`, `PermitsAccounted`,
`EntryHasOwner`, `WaiterHasWaker`, `NoInheritedFailure` and two strengthenings: `OwnBody`, a handler about
to notify holds the body it built, and `CacheHoldsResults`, the cache holds
non-empty results only. `EntryHasOwner` is inductive because a guard is dropped in
the same step that removes its entry. `WaiterHasWaker` needs that removal, by
whoever it is done, answers every sender in the entry. `PermitsAccounted` rests on
lemmas about the cardinality of the set of holders. `ReplyIsFinal` follows from
each step separately. `Implementation` maps `pc` to a status and a received
but unread body to a mailbox, and shows that each step is a step of
`SearchService` or a stutter.

*SearchCacheProofs.* The totals of the eviction loop are those of the map while it
runs (`Tracked`); a body that `put` accepts fits alone (`Accepted`), so that a loop
that has emptied the map but for one entry is over, and the entry just put is never
older than any other (`Youngest`), so that the loop takes another one first. The
bytes of a map are stated as the cardinality of a set of pairs, an entry with each of
the numbers up to its size: a fold over the entries would need an induction over data.
The refinement of `LossyCache` maps the entries a `get` would find now; expired
entries are already gone in the abstract store, so that dropping them is a stutter.

*SearchFanoutProofs.* For the fan-out, `FInv` relates the collector to the hits that
were in time: what was heard by the current attempt is in the collector
(`Collecting`), an attempt begins only after one without hits, and the second one
skips nothing (`Attempts`), which is why a verdict of "nothing" implies that every
instance was probed. That a circuit opens with a failure of its own instance only
(`FailureHitsOwnKey`) is shown step by step: a fetch and a retry report under the key
of the position they were sent to (`KeyOfInstance`). For the breaker, `BInv` is inductive as it stands once the backoff is known to
lie between 0 and the cap for every streak (`BackoffBounded`), the wrapped one
included; `SuccessForgets` needs that a key whose last report was a success has no
streak. `SetViewSound` justifies the set of open keys by which the fan-out knows the
breaker: a step opens at most the key a failure was reported for.

*CrawlerProofs, the seen set.* The invariant relates the generations to the history of accepted
URLs: the younger generation is the last part of it, both together cover at least
the last half-capacity. For the reload it relates the rebuilt set to the prefix of
the dump that has been read, which makes the order inside a generation irrelevant.

*CrawlerProofs, the crawler.* `Consistent` is what holds of a queue and its seen set: bounded,
and, if the seen set has room for all URLs (`Fits`), every queued URL is seen and queued once. It is
stated of the live queue, of a save in progress and of the saved file alike
(`Stores`), so that a restart, which reloads both, cannot break it. `InFlight` adds
that a URL being crawled is seen and not queued; it is what lets four tasks enqueue
while the batch runs. What an insert does to the seen set is taken from the lemmas about it. `Polite` and `AccountedWhileUp` are inductive with the rest;
`NoDuplicateWork` and `QueueBounded` follow. The length of the heap is the
cardinality of its entries.

*IngestProofs.* The invariant has a part for the crawler (an id is given once and is in
one place, `Numbered`), one for the indexer (`Opened` says what each phase leaves
in writer, disk and memory). `NoSilentLoss` is an action property: of every document
the crawler holds or the indexer has taken before a step, the step must keep it or
account for it, by a document of its URL that is sent and replaces it, by a request
of which the indexer takes nothing, by a kill before its commit, or by an index that is
created anew. `TakenStep` shows it of what the indexer has, `SentStep` of what is on its
way, `HeldStep` of what stays with the crawler, where a flush must not touch what
workers have pushed meanwhile; `NothingLost` puts them together. A batch that names a URL twice leaves the last of the two documents
(`LatestOfUrl`), so that one document per URL survives an upsert. The first valid date
of a page is the least member of a set of positions, which exists because the order
of the numbers is well-founded (`LeastMember`).

*ShoppingProofs.* `AnswerNotLost` for any results, pages, widths and search times.
The invariant `InTime` says that, while the request runs, neither the clock nor the
deadline of the current pass is beyond the budget less the headroom, if the search
was not; it needs that the wall of a pass started at t ends by then (`WallInTime`),
which holds because the time used is taken off the ceiling, and that the drain stops
at the deadline (`TickInTime`). Writing the response is assumed to take less than the
headroom, which is what the code reserves it for. For the facts, two lemmas hold of
every page: its prices are those of the first signal that states any, with the price
of a container exactly if that one has neither a price nor the start of a range
(`PricesRead`, which follows the facts through the merges, `ContainerPrices`), and facts without a source are none
(`SourceOfFacts`). `FInv` carries them through both passes: whatever a task of the
current pass may still deliver is for a result without an offer (`OnlyOpen`), so that no
offer is overwritten, and after the replay of the strip the results without an offer
are those that the strip does not show (`NotAgain`). That the positions to fetch are
positions of such results needs that every place in an ascending list is taken
(`AscendingMembers`) and that the waves cut that list without leaving it (`ChunksOf`).

*CrawlerProofs, the snapshot file.* The target is never torn because the temporary file is
complete and synced when it is renamed (`Written`); the contents are ordered,
durable <= visible <= taken (`Ordered`), so that undoing a rename brings back a
complete older save only; without a loss of power the target is the last save
(`Recent`). The theorems show that the fallback to the backup is not needed
against kills or losses of power: it helps only against damage from outside.

*FoldFacts.* The induction theorems of the library take the predicate as an operator,
which none of the installed provers can instantiate, and `FoldLeft` takes its step the
same way. `FoldFacts` therefore has step and invariant as constants, derives the
induction for sets from the well-foundedness of the naturals (`Induction`), shows that
the function which `FoldLeft` chooses exists (`FoldExists`) and that
what a step keeps the fold keeps (`FoldKeeps`). Each fold of the model
is then an instance: `XStep` its step, `XGood(p, n, acc)` what holds after n elements.

*SearchPipelineProofs.* The requests, with all that the sources and the intent engine
may answer, are any that have the fields the code's types give them
(`RequestsAssumption`); words, tables, rates and the sizes are free. From the bottom up:

- Every step keeps a list of pages a list of pages (`IsShelf`), one lemma a
  step. A filter, `Those`, has each position once, so that its length
  is a cardinality (`ThoseFacts`); the stable sort neither adds nor loses a page
  (`SortedShelf`).
- `GatesKeep` is an action property: each of the six gates has a lemma that it leaves
  a page if it had one. For the exclusions that needs an argument: the number of
  violations that is tolerated is one some page has (`ViolationsBound`, `NegativeShelf`).
  The gate of the official sites has no fallback (18377-18421): it leaves a page if one
  is not an official site of what is excluded (`OfficialShelf`).
- `CapsHeld` needs only that nothing scores after the clamp (`ClampShelf`, `JunkShelf`),
  which is the order the code depends on.
- `BoundHeld` follows the bound through its rewrites. `BoundsOpened` says what the
  fail-opens may do: bounds and currency are those asked for, or all four bounds are
  gone and nothing had a price. The sorting of the exclusions does not touch them
  (`GateReads`). `AnswerInBound` holds after the last filter: of a page it has let
  through, the price the text tells is within the bound, or else every page has failed
  it (`Bounded`, `AllFail`); boost, sort and clamp only rescore (`Rescored`), and junk is
  only dropped.
- `PriceReported` adds `ReportRestores`. With two price operators in a query it would be
  false: `Restore` fills a cleared maximum from the "less than" bound first, and a query
  may set the two differently (a "less than" and then a range). `OneBound` says that it
  has not: a single bound, spoken or as an operator, sets both alike.
- `ExcludedOut` carries `AnswerNames` from the hard drop to the response: no page of the
  answer names what is excluded, or all do (`NamesAllOrNone`), since the nudge only
  rescores, the last filter only drops, and its fail-open gives back the list it was
  given. That the exclusions are well-formed at all needs the scan of the query that
  finds them, a fold within a fold (`CompoundsLists`, `ScanStepLists`).

`NothingBeyondTheBound` is about the price a text tells, which is the one the filter
reads. It excepts two cases in which the code does let such a page pass: a query with an
exclusion of whose pages not one meets the constraints, which falls back to the
unfiltered list, and a page related to a site asked for, which the price test skips.
`GatesLeaveSomething` excepts the superlative gate, which for poor pages goes "even to
zero", and the official sites of what a query that only excludes is to do without
(section 5). `ExcludedStayOut` excepts lists of alternatives, as the code does, and says
nothing of a query that only excludes, for which the hard drop is skipped.

Only model-checked: the liveness properties (`EveryRequestAnswered`, `EveryFanoutEnds`,
`BecomesSearchable`, `EverySearchEnds`), which like `ENABLED` are out of the prover's
reach; `WordsOnlyOutranked`, which counts over a sorted list cut by a fold; and the two
statements that fail.

Definitions that theorems are about avoid what the provers cannot see into: lists are
filtered and sorted by `Lists` rather than `SelectSeq` and `SortSeq`, orders are
bijections rather than `Permutations`, facts are filled by `Filled` rather than `@@`,
positions are listed by `Ascending` rather than sorted, totals of the cache and the
crawler are cardinalities rather than folds.

## 5. What disagrees with the code's own words

Two have a run in which TLC must find the violation.

- `duplicates_share_fetch`: a subscriber whose leader failed removes whatever entry
  is under its key when it ends. If that is a later leader's, the next duplicate
  leads a second fetch. Nobody hangs (`WaiterHasWaker`); work is repeated.
- `restart_resumes`: a snapshot taken during a batch has the batch's URLs in its seen
  set only; after a kill they are never crawled (until the set forgets them).

Observations made while modelling that have no run of their own (line numbers are
those of `services/gateway/src/main.rs` unless another file is named):

Requests, cache, breaker

- The cache is read before the wait for a slot and not again after it. A request
  that waited may fetch although a leader filled the cache meanwhile;
  `API_REFERENCE.md:1230` speaks of at most one miss per window.
- A cancelled handler returns its slot while its merge still runs (14025, 18429), so
  more working sets than slots coexist; 13266-13268 says the slots bound them.
- The aggregation calls `record_success` (16841) for the empty placeholder of a
  skipped, refused or timed-out fetch; 9881-9886 says a real answer closes a circuit.
- Instances that answered with zero hits are counted as not ok (16846), so an honest
  "nothing" is reported as `upstream_unavailable` (18997, 19001). Hits of the retry
  do not count as ok either.
- `record_failure` replaces a running ten-minute window of a refused connection by
  its own shorter backoff, and `2u64.pow(n)` wraps to a backoff of 0 from the 65th
  failure in a row in a release build. `CircuitBreaker` models both.
- A fan-out cut by its join deadline with nothing collected has an empty tally and
  is answered as "nothing matched" rather than as unavailable.
- A comment in the dedup path (15310) gives the `TimeoutLayer` 20 s; it is
  built with 30 s (14025).
- `TOR2_WARM` is set even when the warm-up failed (6353-6451).
- `ResultVolumeTracker::record` (13062-13095) asks `rolling_count >= 3.0`, but that
  count is an average that starts at 0, takes .3 of 1 each time and so stays below 1.
  No engine is ever found degraded, and the proactive rotation (16895-16902) never
  runs; 13032-13035 and 16893-16894 say they do.

Constraints and gates

- The merge scores with `constraints_clone`, taken at 18063; the gate finds the soft
  exclusions at 18274. They are neither scored nor reported as ignored, while
  18253-18254 says "Soft negatives are applied (demoted in scoring), not ignored".
- An exclusion that is named twice becomes a hard and a soft one; "except scary" does
  too. A comma ends a term only after the first word.
- Of "laptop -dell gaming" the gateway also excludes "gaming"
  (`API_REFERENCE.md:1000` shows the operator for one word).
- The path for a term that is hard without being explicit (18180) does not ask
  `is_manner_frame`, although 18173 says the other paths do.
- Titles about a superlative are dropped down to nothing when all pages are poor
  ("the junk goes even to zero", 17543); 17511 says the drop is
  "Skipped when it would leave < 3 results".
- A manner ("without a plumber") that the engine calls an exclusion is dropped by the
  gate (18164) for the steps after it, but the exclusion filter before it (17696) and the
  merge (18063) score with it: the pages that name it still lose rank.
- The filter tests the price of the text only (6233-6243, `price: None`). A page whose
  structured price is beyond the bound, and whose text tells none but has a price signal,
  is answered, unless a `price:` operator and six pages in range make the narrowing drop
  it (17930-17987, where 17934-17935 says such pages "are already hard-dropped upstream").
- 18369-18376 says that for queries that only exclude the domain filter is skipped, since
  removing every official page "leaves zero results"; 18377-18421 removes them, without
  a fallback.
- A page related to a site asked for is not tested against the price bound (6168-6212).
- Of two price operators with different maxima, a bound that the fail-open cleared comes
  back as the "less than" one (18876-18880).
- `NegativeFilter`'s fallback "kept empty" cannot be reached, and with five pages or
  fewer nothing is removed.
- The date window is cleared by its fail-open and, unlike the price bounds, neither
  given back nor reported (17562-17644; the comment is at 17557-17560).
- The final filter (18693) does not fail open as the earlier one does: a query without
  an exclusion may get a blank page. Off-topic and adult drops may do the same.
- Negatives, language and title fields the gateway reads itself are not merged.
- `price:<` includes the bound it names.
- A spelling correction is taken back at 18795-18810 after the search ran with it.
- The answer of the relaxed query (17103) is discarded and `partial_results` never
  set (17088).

Scores

- Pages of the numeric and recall fallbacks keep the score they came with and dominate
  the division by the maximum. `relevance_vec` is not kept in step with the list when
  pages are dropped. The list is not sorted again after the caps.
- The same page on the web twice earns the consensus factor twice.
- The graded parts of the sense and conspiracy scores cannot be reached, and the
  location and site factors of the constraint score compare a page with its own URL.
- An adult page is marked with a score of -1 that the later clamp lifts to .05.
- A best semantic score of .099 sets a higher bar (.12) than one of .101.

Commerce

- The drain waits for as many messages as the wave has fetches, but a fetch that fails
  or times out sends none. One such fetch stalls its wave until the wall, and later
  waves are abandoned (4866-4891; 4540-4545 and 4847-4848 say otherwise).
- The wall is 4 s less the time of the search (4970): a search of 4 s or more gets no
  enrichment, with 20 s of the budget left.
- Pages without facts, and pages beyond the strip's limit, are fetched by the first
  pass and again by the second.
- 298-301, 404-408, 5180-5182 and 19225-19227 say that affiliate links are for exact models only,
  and that broad category queries get none "even on /shopping"; 19308-19323 decorates the
  results of every commercial query, and `handle_shopping` goes on with these.
- `source` stays "json-ld" when the JSON-LD nodes stated nothing. An aggregate with
  only a high price does not keep a price container from adding its own (3922-3925);
  `PricesAsStated` has the case. The entry
  price of an aggregate stays when its nested offers give another range.
- A `</div>` of an inner element without a scope closes the scope of the product.
- Comparisons order prices of different currencies by their numbers.
- A program suffix of several labels matches only the equal host; the doc of
  `match_program` says that it matches subdomains.

Crawler and indexer

- A batch that is answered with an error status counts as flushed and is gone
  (`crawler/src/main.rs:579-589`, where only a failed request is an error); 567-568 says
  "Returns number flushed".
- The migration removes the index directory before the new one has a commit
  (`indexer/src/main.rs:249`): a kill in between loses every document. The removal
  also takes the embeddings of earlier runs, which lie in the same directory, although
  292-294 opens their store only afterwards in order not to lose it.

## 6. Not modelled, and the plan

Next:

1. Proofs: the counting of the drain of `Shopping`; that no page is answered twice by
   the merge.
2. `IpRotation`: the 120 s throttle, trigger files, the rotator script and tor2
   warm-up, composed with the waits of the fan-out; `ResultVolume`: rolling averages
   as functions, degradation events.
3. `GoalStore`: create, progress and leaderboard under concurrent handlers.
4. The handlers for images, videos, news and fast search, which share the cache and
   the breaker; the caches and fallbacks of the intent engine; the GeoLite2 swap.

Left out for good: tokenising, regular expressions and HTML below the level of words
and tags, the word lists and tables (a word has the kinds that an instance gives it),
spelling correction, the dictionary, text cleaning, query expansion, the inference of
the intent engine, deployment configuration of third-party services. Left out of the
modelled parts: the invidious, news, image and indexer branches of the fan-out
(`SearchPipeline` has what they return), warmth bookkeeping (the list order is free
instead), result counters and weights of the breaker, priorities and the content cap
of the crawler, robots.txt, deletion and statistics of the indexer, `/commerce/extract`.
`enrich_with_commerce`, `extract_snippet_facts` and `has_any_commerce_block` are called
by tests only, and no module declares `affiliate.rs`, a copy of code in `main.rs`.

## 7. Running

    tlc -config MCSearchRequest.cfg MCSearchRequest
    tlapm SearchRequestProofs.tla

`PROJECT.json` lists each run with its configuration, the mutants (for each
property a plausible bug in a definition that breaks it), and the source lines of
every definition.
