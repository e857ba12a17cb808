------------------------------- MODULE Crawler -------------------------------
(***************************************************************************)
(* The crawler process: the crawl queue with its set of seen URLs behind   *)
(* one mutex, the four tasks that enqueue (the /enqueue handler, the       *)
(* seeder, the refresh checker, the worker with the links it discovers),   *)
(* the worker's batches, the snapshot saver, and a kill of the process at  *)
(* any moment.  What crawl_and_index does with a page is only its outcome. *)
(*                                                                         *)
(* Data: an entry is its normalized URL; the order of the heap is left     *)
(* open, any entry of an allowed domain may be the next.  A loop that      *)
(* enqueues keeps the mutex: holder is its task, todo what it has left.    *)
(***************************************************************************)
EXTENDS SeenSet, Sequences, Functions

CONSTANTS
  Domain,         \* the host of each URL
  Hostless,       \* the URLs that cannot be parsed or have no host
  Links,          \* per URL, the links of its page in order
  Seeds,          \* default_seed_urls
  Payloads,       \* the lists of URLs POSTed to /enqueue
  QueueMax,       \* max_queue_size
  LinksPerPage,   \* max_discovered_per_page
  MinConcurrency, MaxConcurrency, StartConcurrency,
  MaxStale,       \* bound: URLs one refresh finds stale
  MaxRestarts,    \* bound: kills of the process
  MaxSaves        \* bound: snapshots taken

ASSUME ConcurrencyAssumption ==
  /\ MinConcurrency \in Nat \ {0} /\ MaxConcurrency \in Nat
  /\ StartConcurrency \in MinConcurrency..MaxConcurrency
ASSUME LimitsAssumption ==
  /\ QueueMax \in Nat \ {0} /\ LinksPerPage \in Nat \ {0}
  /\ {MaxStale, MaxRestarts, MaxSaves} \subseteq Nat
ASSUME ShapeAssumption ==
  /\ Hostless \subseteq Urls /\ Seeds \in Seq(Urls)
  /\ Links \in [Urls -> Seq(Urls)] /\ Payloads \subseteq Seq(Urls)

VARIABLES
  queue,        \* CrawlQueueManager.queue: how often each URL is in the heap
  seen,         \* CrawlQueueManager.seen_urls
  hot,          \* domains requested less than min_delay_ms ago
  holder,       \* the task whose loop has the queue mutex, or "none"
  todo,         \* what that loop has left to enqueue, page by page
  room,         \* links the worker may still accept from the first page of todo
  seeded,       \* the seeder has run since the start
  concurrency,  \* AppState.concurrency
  batch,        \* the worker's batch
  fetching,     \* the URLs of it whose crawl_and_index runs
  pages,        \* the URLs of it whose links wait for the end of the batch
  saver,        \* whether a save runs
  snap,         \* the snapshot it saves
  saved,        \* the snapshot a start would load
  finished,     \* history: URLs whose crawl ended, well or not
  saves,        \* history: snapshots taken
  restarts      \* history: kills

shared == <<queue, seen, hot, holder, todo, room, seeded>>
work   == <<concurrency, batch, fetching, pages>>
saving == <<saver, snap, saved, saves>>
vars   == <<shared, work, saving, finished, restarts>>

-------------------------------------------------------------------------------
Snapshots == [queue : [Urls -> Nat], seen : SeenSets]
Empty == [queue |-> [u \in Urls |-> 0], seen |-> EmptySeen]

\* The heap: its entries for one URL are numbered.
Entries(q) == UNION {{u} \X (1..q[u]) : u \in Urls}

Length == Cardinality(Entries(queue))

Init ==
  /\ queue = Empty.queue /\ seen = Empty.seen
  /\ hot = {}
  /\ holder = "none" /\ todo = <<>> /\ room = LinksPerPage
  /\ seeded = FALSE
  /\ concurrency = StartConcurrency
  /\ batch = {} /\ fetching = {} /\ pages = {}
  /\ saver = "idle" /\ snap = Empty
  /\ saved = Empty
  /\ finished = {} /\ restarts = 0 /\ saves = 0

-------------------------------------------------------------------------------
(* The queue and the tasks that enqueue.                                   *)

\* Mutants: the heap is asked instead of the seen set; the bound is not looked at.
AcceptsUnqueued(u) == queue[u] = 0 /\ Length < QueueMax
AcceptsUnbounded(u) == ~Contains(seen, u)

Accepts(u) == ~Contains(seen, u) /\ Length < QueueMax

TakeMutex(task, lists) ==
  /\ holder = "none"
  /\ holder' = task
  /\ todo' = lists
  /\ room' = LinksPerPage

Submit(urls) ==
  /\ TakeMutex("handler", <<urls>>)
  /\ UNCHANGED <<queue, seen, hot, seeded, work, saving, finished, restarts>>

\* Once, 30 s after the start.
Seed ==
  /\ ~seeded
  /\ seeded' = TRUE
  /\ TakeMutex("seeder", <<Seeds>>)
  /\ UNCHANGED <<queue, seen, hot, work, saving, finished, restarts>>

\* Every 60 s the URLs the indexer lists and that are older than their refresh
\* interval; the indexer lists pages that were crawled, any of them here.
Refresh(stale) ==
  /\ stale \subseteq finished \ Hostless /\ Cardinality(stale) <= MaxStale
  /\ \E order \in Injection(1..Cardinality(stale), stale) : TakeMutex("refresh", <<order>>)
  /\ UNCHANGED <<queue, seen, hot, seeded, work, saving, finished, restarts>>

\* One turn of the loop that has the mutex.  The worker goes on to the next page
\* when this one has given LinksPerPage new URLs.
EnqueueNext ==
  /\ todo # <<>>
  /\ IF Head(todo) = <<>> \/ room = 0
     THEN /\ todo' = Tail(todo)
          /\ room' = LinksPerPage
          /\ UNCHANGED <<queue, seen>>
     ELSE LET u == Head(Head(todo)) IN
          /\ todo' = <<Tail(Head(todo))>> \o Tail(todo)
          /\ IF Accepts(u)
             THEN /\ queue' = [queue EXCEPT ![u] = @ + 1]
                  /\ seen' = Insert(seen, u)
                  /\ room' = IF holder = "worker" THEN room - 1 ELSE room
             ELSE UNCHANGED <<queue, seen, room>>
  /\ UNCHANGED <<hot, holder, seeded, work, saving, finished, restarts>>

ReleaseMutex ==
  /\ holder \in {"handler", "seeder", "refresh"}
  /\ todo = <<>>
  /\ holder' = "none"
  /\ UNCHANGED <<queue, seen, hot, todo, room, seeded, work, saving, finished, restarts>>

-------------------------------------------------------------------------------
(* The worker.                                                             *)

\* min_delay_ms after a request its domain is allowed again.
Cool(d) ==
  /\ d \in hot
  /\ hot' = hot \ {d}
  /\ UNCHANGED <<queue, seen, holder, todo, room, seeded, work, saving, finished, restarts>>

Domains(urls) == {Domain[u] : u \in urls}

\* Mutant: the limiter hears of the requests only after the batch is taken.
MayRequestTogether(urls) == Domains(urls) \cap hot = {}

\* can_request and record_request, one after the other for each entry of a batch.
MayRequest(urls) ==
  /\ Domains(urls) \cap hot = {}
  /\ Cardinality(Domains(urls)) = Cardinality(urls)

\* Mutant: the entries of hot domains are not pushed back.
LeavesHotOut(urls, dropped) ==
  [u \in Urls |-> IF u \in urls THEN queue[u] - 1
                  ELSE IF u \in dropped \/ Domain[u] \in hot THEN 0 ELSE queue[u]]

Leaves(urls, dropped) ==
  [u \in Urls |-> IF u \in urls THEN queue[u] - 1
                  ELSE IF u \in dropped THEN 0 ELSE queue[u]]

\* Up to concurrency calls of dequeue with the mutex held and one now_ms: each
\* takes an entry whose domain is allowed, which makes the domain hot.  Entries of
\* hot domains are pushed back; entries without a host are popped for good, all
\* of them if the heap is searched to its end.
Dequeue(urls, dropped) ==
  LET queued == {u \in Urls : queue[u] > 0} IN
  /\ holder = "none"
  /\ batch = {}
  /\ urls \subseteq queued \ Hostless /\ MayRequest(urls)
  /\ Cardinality(urls) <= concurrency
  /\ dropped \subseteq queued \cap Hostless
  /\ Cardinality(urls) < concurrency =>
       /\ Domains(queued \ Hostless) \subseteq hot \cup Domains(urls)
       /\ dropped = queued \cap Hostless
  /\ batch' = urls /\ fetching' = urls
  /\ queue' = Leaves(urls, dropped)
  /\ hot' = hot \cup Domains(urls)
  /\ finished' = finished \cup dropped
  /\ UNCHANGED <<seen, holder, todo, room, seeded, concurrency, pages, saving,
                 restarts>>

\* The request fails and the entry is given up, without another attempt.
CrawlFails(u) ==
  /\ u \in fetching
  /\ fetching' = fetching \ {u}
  /\ finished' = finished \cup {u}
  /\ UNCHANGED <<shared, concurrency, batch, pages, saving, restarts>>

\* The page is indexed, or not worth it; its links wait for the end of the batch.
CrawlEnds(u) ==
  /\ u \in fetching
  /\ fetching' = fetching \ {u}
  /\ pages' = pages \cup {u}
  /\ finished' = finished \cup {u}
  /\ UNCHANGED <<shared, concurrency, batch, saving, restarts>>

\* All crawls have returned: the links are enqueued unless the queue is at 80 %.
EndBatch ==
  /\ batch # {} /\ fetching = {}
  /\ \E order \in Injection(1..Cardinality(pages), pages) :
       TakeMutex("worker", IF Length < (QueueMax * 4) \div 5
                           THEN [i \in DOMAIN order |-> Links[order[i]]] ELSE <<>>)
  /\ pages' = {}
  /\ UNCHANGED <<queue, seen, hot, seeded, concurrency, batch, fetching, saving,
                 finished, restarts>>

\* Mutant: the subtraction saturates at zero only.
TuneUnclamped ==
  /\ holder = "worker" /\ todo = <<>>
  /\ holder' = "none"
  /\ batch' = {}
  /\ \/ UNCHANGED concurrency
     \/ /\ Cardinality(batch) * 5 >= concurrency * 4
        /\ \/ /\ concurrency > MinConcurrency
              /\ concurrency' = IF concurrency > 2 THEN concurrency - 2 ELSE 0
           \/ /\ concurrency < MaxConcurrency
              /\ concurrency' = IF concurrency + 2 < MaxConcurrency
                                THEN concurrency + 2 ELSE MaxConcurrency
  /\ UNCHANGED <<queue, seen, hot, todo, room, seeded, fetching, pages, saving,
                 finished, restarts>>

\* The latency of the batch moves the concurrency by 2, within its bounds, if the
\* batch was filled to 80 %.
Tune ==
  /\ holder = "worker" /\ todo = <<>>
  /\ holder' = "none"
  /\ batch' = {}
  /\ \/ UNCHANGED concurrency
     \/ /\ Cardinality(batch) * 5 >= concurrency * 4
        /\ \/ /\ concurrency > MinConcurrency
              /\ concurrency' = IF concurrency > MinConcurrency + 2
                                THEN concurrency - 2 ELSE MinConcurrency
           \/ /\ concurrency < MaxConcurrency
              /\ concurrency' = IF concurrency + 2 < MaxConcurrency
                                THEN concurrency + 2 ELSE MaxConcurrency
  /\ UNCHANGED <<queue, seen, hot, todo, room, seeded, fetching, pages, saving,
                 finished, restarts>>

-------------------------------------------------------------------------------
(* The snapshot saver, every 20 s, and the loss of the process.            *)

\* The clone is taken with the mutex held, everything else without it.
TakeSnapshot ==
  /\ saver = "idle"
  /\ holder = "none"
  /\ saves < MaxSaves
  /\ saves' = saves + 1
  /\ saver' = "saving"
  /\ snap' = [queue |-> queue, seen |-> seen]
  /\ UNCHANGED <<shared, work, saved, finished, restarts>>

\* The save takes effect as a whole or not at all, as SnapshotFile shows.
SaveEnds(succeeds) ==
  /\ saver = "saving"
  /\ saver' = "idle"
  /\ saved' = IF succeeds THEN snap ELSE saved
  /\ snap' = Empty
  /\ UNCHANGED <<shared, work, saves, finished, restarts>>

\* The process is killed and started again; only the last save survives it.  The
\* seen set is rebuilt as SeenSetMachine shows.
Restart ==
  /\ restarts < MaxRestarts
  /\ restarts' = restarts + 1
  /\ queue' = saved.queue /\ seen' = saved.seen
  /\ hot' = {}
  /\ holder' = "none" /\ todo' = <<>> /\ room' = LinksPerPage
  /\ seeded' = FALSE
  /\ concurrency' = StartConcurrency
  /\ batch' = {} /\ fetching' = {} /\ pages' = {}
  /\ saver' = "idle" /\ snap' = Empty
  /\ UNCHANGED <<saved, saves, finished>>

-------------------------------------------------------------------------------
Enqueuing ==
  \/ \E urls \in Payloads : Submit(urls)
  \/ Seed
  \/ \E stale \in SUBSET finished : Refresh(stale)
  \/ EnqueueNext
  \/ ReleaseMutex

Worker ==
  \/ \E urls, dropped \in SUBSET Urls : Dequeue(urls, dropped)
  \/ \E u \in Urls : CrawlFails(u) \/ CrawlEnds(u)
  \/ EndBatch
  \/ Tune

Saving ==
  \/ TakeSnapshot
  \/ \E succeeds \in BOOLEAN : SaveEnds(succeeds)

Next ==
  \/ Enqueuing
  \/ Worker
  \/ Saving
  \/ \E d \in Domains(Urls) : Cool(d)
  \/ Restart

Spec == Init /\ [][Next]_vars

-------------------------------------------------------------------------------
(* Properties.                                                             *)

TypeOK ==
  /\ queue \in [Urls -> Nat] /\ seen \in SeenSets
  /\ holder \in {"none", "handler", "seeder", "refresh", "worker"}
  /\ todo \in Seq(Seq(Urls)) /\ room \in 0..LinksPerPage
  /\ concurrency \in MinConcurrency..MaxConcurrency
  /\ Cardinality(batch) <= concurrency
  /\ fetching \cup pages \subseteq batch
  /\ saver \in {"idle", "saving"} /\ {snap, saved} \subseteq Snapshots

\* As long as the URLs fit into the seen set, so that none is forgotten, no URL is
\* queued twice, nor queued while a crawl of it runs, whichever of the four tasks
\* enqueues it and whatever snapshot a restart came back with.
NoDuplicateWork ==
  IsFiniteSet(Urls) /\ Cardinality(Urls) <= 2 * Half =>
    \A u \in Urls : queue[u] + (IF u \in fetching THEN 1 ELSE 0) <= 1

\* Pages of one domain are never fetched at the same time, although the whole
\* batch is taken with a single reading of the clock.
Polite == \A u, v \in fetching : Domain[u] = Domain[v] => u = v

\* The queue never exceeds its bound, with restarts that refill it.
QueueBounded == Length <= QueueMax

\* A URL that was seen is queued, or being crawled, or its crawl has ended: none
\* is remembered as seen and otherwise forgotten.
Accounted == \A u \in Members(seen) : queue[u] > 0 \/ u \in fetching \cup finished

\* This holds until the process is killed: entries passed over for the sake of a
\* hot domain, refused links and failing crawls lose nothing.
AccountedWhileUp == restarts = 0 => Accounted

\* The comment in main: with a snapshot, a restart resumes in-flight crawling.
RestartResumes == Accounted
===============================================================================
