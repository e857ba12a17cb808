---------------------------- MODULE SearchRequest ----------------------------
(***************************************************************************)
(* The life of a GET /search request in the gateway (handle_search):       *)
(* validation, the response cache, the search semaphore, the table of      *)
(* in-flight queries that lets duplicates subscribe to a leader, the       *)
(* fan-out and the blocking merge, the notification of the subscribers,    *)
(* and the TimeoutLayer that may drop the handler at any of its awaits.    *)
(*                                                                         *)
(* Data: a response body is only its outcome and the request that          *)
(* produced it; the cache is lossy here (Forget stands for TTL expiry and  *)
(* for the evictions module SearchCache details).                          *)
(***************************************************************************)
EXTENDS Naturals, FiniteSets

CONSTANTS
  Requests,   \* calls of GET /search
  Keys,       \* cache keys: lower-cased query and pagination
  Malformed,  \* the keys whose query the validation answers with a 400
  Permits,    \* slots of search_semaphore (8 in the code)
  NoBody      \* absence of a body

ASSUME RequestsAssumption == IsFiniteSet(Requests)
ASSUME PermitsAssumption == Permits \in Nat \ {0}
ASSUME MalformedAssumption == Malformed \subseteq Keys

VARIABLES
  key,        \* the cache_key of each request
  pc,         \* where its handler stands
  cache,      \* AppState.cache: fresh body per key
  permits,    \* free slots of search_semaphore
  inFlight,   \* keys present in AppState.in_flight
  senders,    \* per key, the subscribers whose oneshot sender it holds
  rx,         \* per request, the state of its oneshot receiver
  body,       \* the response body its handler received or built
  guard,      \* requests that own a live DedupGuard
  blocking,   \* requests whose spawn_blocking merge runs
  reply       \* what the client received

vars == <<key, pc, cache, permits, inFlight, senders, rx, body, guard, blocking, reply>>

-------------------------------------------------------------------------------
Outcomes == {"results", "empty", "failed"}
Errors   == {"rejected", "busy", "timeout", "ranking_failed"}
Body     == [kind : Outcomes, by : Requests]
Reply    == [kind : Outcomes \cup Errors, by : Requests]

ASSUME NoBodyAssumption == NoBody \notin Reply

Working  == {"fetch", "merge", "post", "notify"}
Holding  == {"dedup", "wait"} \cup Working
PCs      == {"idle", "acquire", "done"} \cup Holding

\* No channel, an empty one, one that holds a body, one whose sender is gone.
Channel == {"none", "open", "sent", "dropped"}

Init ==
  /\ key \in [Requests -> Keys]
  /\ pc = [r \in Requests |-> "idle"]
  /\ cache = [k \in Keys |-> NoBody]
  /\ permits = Permits
  /\ inFlight = {}
  /\ senders = [k \in Keys |-> {}]
  /\ rx = [r \in Requests |-> "none"]
  /\ body = [r \in Requests |-> NoBody]
  /\ guard = {}
  /\ blocking = {}
  /\ reply = [r \in Requests |-> NoBody]

-------------------------------------------------------------------------------

\* The handler returns (or is dropped) with reply b: the permit goes back.
Return(r, b) ==
  /\ pc' = [pc EXCEPT ![r] = "done"]
  /\ reply' = [reply EXCEPT ![r] = b]
  /\ permits' = IF pc[r] \in Holding THEN permits + 1 ELSE permits

Error(r, e) == [kind |-> e, by |-> r]

\* Mutant: the senders are leaked, neither used nor dropped.
WakeNobody(r, k, m, b) ==
  /\ rx' = [rx EXCEPT ![r] = "none"]
  /\ body' = [body EXCEPT ![r] = NoBody]

\* r's handler ends, its locals go, and every sender stored under k is used to
\* send b (m = "sent") or is dropped (m = "dropped").  A sender whose request no
\* longer waits is without effect.
Wake(r, k, m, b) ==
  LET told == {s \in senders[k] \ {r} : pc[s] = "wait"} IN
  /\ rx' = [s \in Requests |->
              IF s = r THEN "none" ELSE IF s \in told THEN m ELSE rx[s]]
  /\ body' = [s \in Requests |->
                IF s = r THEN NoBody ELSE IF s \in told THEN b ELSE body[s]]

RemoveEntry(k) ==
  /\ inFlight' = inFlight \ {k}
  /\ senders' = [senders EXCEPT ![k] = {}]

\* Mutant: the guard wakes the subscribers and leaves the entry.
DropGuardKeepsEntry(r) ==
  IF r \in guard
  THEN /\ Wake(r, key[r], "dropped", NoBody)
       /\ guard' = guard \ {r}
       /\ UNCHANGED <<inFlight, senders>>
  ELSE /\ rx' = [rx EXCEPT ![r] = "none"]
       /\ body' = [body EXCEPT ![r] = NoBody]
       /\ UNCHANGED <<inFlight, senders, guard>>

\* DedupGuard::drop of a handler that did not complete: the entry under its key
\* is removed, whoever inserted it, and the senders in it are dropped.
DropGuard(r) ==
  IF r \in guard
  THEN /\ RemoveEntry(key[r])
       /\ Wake(r, key[r], "dropped", NoBody)
       /\ guard' = guard \ {r}
  ELSE /\ rx' = [rx EXCEPT ![r] = "none"]
       /\ body' = [body EXCEPT ![r] = NoBody]
       /\ UNCHANGED <<inFlight, senders, guard>>

-------------------------------------------------------------------------------
(* Steps of one handler.                                                   *)

Reject(r) ==
  /\ pc[r] = "idle"
  /\ key[r] \in Malformed
  /\ Return(r, Error(r, "rejected"))
  /\ UNCHANGED <<key, cache, inFlight, senders, rx, body, guard, blocking>>

CacheHit(r) ==
  /\ pc[r] = "idle"
  /\ key[r] \notin Malformed
  /\ cache[key[r]] # NoBody
  /\ Return(r, cache[key[r]])
  /\ UNCHANGED <<key, cache, inFlight, senders, rx, body, guard, blocking>>

CacheMiss(r) ==
  /\ pc[r] = "idle"
  /\ key[r] \notin Malformed
  /\ cache[key[r]] = NoBody
  /\ pc' = [pc EXCEPT ![r] = "acquire"]
  /\ UNCHANGED <<key, cache, permits, inFlight, senders, rx, body, guard, blocking, reply>>

Acquire(r) ==
  /\ pc[r] = "acquire"
  /\ permits > 0
  /\ permits' = permits - 1
  /\ pc' = [pc EXCEPT ![r] = "dedup"]
  /\ UNCHANGED <<key, cache, inFlight, senders, rx, body, guard, blocking, reply>>

\* The 20 s bound on the wait for a slot.
Busy(r) ==
  /\ pc[r] = "acquire"
  /\ permits = 0
  /\ Return(r, Error(r, "busy"))
  /\ UNCHANGED <<key, cache, inFlight, senders, rx, body, guard, blocking>>

Subscribe(r) ==
  /\ pc[r] = "dedup"
  /\ key[r] \in inFlight
  /\ senders' = [senders EXCEPT ![key[r]] = @ \cup {r}]
  /\ rx' = [rx EXCEPT ![r] = "open"]
  /\ pc' = [pc EXCEPT ![r] = "wait"]
  /\ UNCHANGED <<key, cache, permits, inFlight, body, guard, blocking, reply>>

Lead(r) ==
  /\ pc[r] = "dedup"
  /\ key[r] \notin inFlight
  /\ inFlight' = inFlight \cup {key[r]}
  /\ senders' = [senders EXCEPT ![key[r]] = {}]
  /\ guard' = guard \cup {r}
  /\ pc' = [pc EXCEPT ![r] = "fetch"]
  /\ UNCHANGED <<key, cache, permits, rx, body, blocking, reply>>

\* The leader's body is good: the subscriber answers with it.
TakeShared(r) ==
  /\ pc[r] = "wait"
  /\ rx[r] = "sent"
  /\ body[r].kind # "failed"
  /\ Return(r, body[r])
  /\ rx' = [rx EXCEPT ![r] = "none"]
  /\ body' = [body EXCEPT ![r] = NoBody]
  /\ UNCHANGED <<key, cache, inFlight, senders, guard, blocking>>

\* The leader failed, or its sender was dropped: the subscriber runs the query
\* itself, without an entry of its own and without a guard.
FallThrough(r) ==
  /\ pc[r] = "wait"
  /\ \/ rx[r] = "dropped"
     \/ rx[r] = "sent" /\ body[r].kind = "failed"
  /\ rx' = [rx EXCEPT ![r] = "none"]
  /\ body' = [body EXCEPT ![r] = NoBody]
  /\ pc' = [pc EXCEPT ![r] = "fetch"]
  /\ UNCHANGED <<key, cache, permits, inFlight, senders, guard, blocking, reply>>

\* Fan-out and constraints are done: the merge goes to the blocking pool.
StartMerge(r) ==
  /\ pc[r] = "fetch"
  /\ pc' = [pc EXCEPT ![r] = "merge"]
  /\ blocking' = blocking \cup {r}
  /\ UNCHANGED <<key, cache, permits, inFlight, senders, rx, body, guard, reply>>

\* The blocking task ends; its handler goes on unless it was dropped meanwhile.
MergeEnds(r) ==
  /\ r \in blocking
  /\ blocking' = blocking \ {r}
  /\ pc' = [pc EXCEPT ![r] = IF @ = "merge" THEN "post" ELSE @]
  /\ UNCHANGED <<key, cache, permits, inFlight, senders, rx, body, guard, reply>>

\* The blocking task panics: 500 ranking_failed, the guard is dropped.
RankingFailed(r) ==
  /\ pc[r] = "merge"
  /\ r \in blocking
  /\ blocking' = blocking \ {r}
  /\ DropGuard(r)
  /\ Return(r, Error(r, "ranking_failed"))
  /\ UNCHANGED <<key, cache>>

\* Mutant: responses without results are cached as well.
BuildResponseCachesAll(r, kind) ==
  /\ pc[r] = "post"
  /\ cache' = [cache EXCEPT ![key[r]] = [kind |-> kind, by |-> r]]
  /\ body' = [body EXCEPT ![r] = [kind |-> kind, by |-> r]]
  /\ pc' = [pc EXCEPT ![r] = "notify"]
  /\ UNCHANGED <<key, permits, inFlight, senders, rx, guard, blocking, reply>>

\* The response is built.  One with results is put in the cache (unless it is
\* larger than an entry may be); every one goes on to the notification.
BuildResponse(r, kind) ==
  /\ pc[r] = "post"
  /\ \/ /\ kind = "results"
        /\ cache' = [cache EXCEPT ![key[r]] = [kind |-> kind, by |-> r]]
     \/ UNCHANGED cache
  /\ body' = [body EXCEPT ![r] = [kind |-> kind, by |-> r]]
  /\ pc' = [pc EXCEPT ![r] = "notify"]
  /\ UNCHANGED <<key, permits, inFlight, senders, rx, guard, blocking, reply>>

\* Remove whatever entry is under the key, send to the subscribers in it,
\* complete the guard, return.
Notify(r) ==
  /\ pc[r] = "notify"
  /\ RemoveEntry(key[r])
  /\ Wake(r, key[r], "sent", body[r])
  /\ guard' = guard \ {r}
  /\ Return(r, body[r])
  /\ UNCHANGED <<key, cache, blocking>>

-------------------------------------------------------------------------------
(* The environment.                                                        *)

\* Mutant: a dropped handler forgets its permit.
CancelKeepsPermit(r) ==
  /\ pc[r] \in {"acquire", "wait", "fetch", "merge", "post"}
  /\ DropGuard(r)
  /\ pc' = [pc EXCEPT ![r] = "done"]
  /\ reply' = [reply EXCEPT ![r] = Error(r, "timeout")]
  /\ UNCHANGED <<key, cache, permits, blocking>>

\* TimeoutLayer (30 s) or a client that goes away: the handler's future is
\* dropped at one of its awaits; a merge in the blocking pool keeps running.
Cancel(r) ==
  /\ pc[r] \in {"acquire", "wait", "fetch", "merge", "post"}
  /\ DropGuard(r)
  /\ Return(r, Error(r, "timeout"))
  /\ UNCHANGED <<key, cache, blocking>>

\* TTL expiry, or eviction by a put under another key.
Forget(k) ==
  /\ cache[k] # NoBody
  /\ cache' = [cache EXCEPT ![k] = NoBody]
  /\ UNCHANGED <<key, pc, permits, inFlight, senders, rx, body, guard, blocking, reply>>

\* A client sends its request and the handler runs to its first await.
Arrive(r) == Reject(r) \/ CacheHit(r) \/ CacheMiss(r)

Handler(r) ==
  \/ Acquire(r)
  \/ Subscribe(r) \/ Lead(r) \/ TakeShared(r) \/ FallThrough(r)
  \/ StartMerge(r) \/ MergeEnds(r)
  \/ \E kind \in Outcomes : BuildResponse(r, kind)
  \/ Notify(r)

Next ==
  \/ \E r \in Requests : Arrive(r) \/ Handler(r) \/ Busy(r) \/ RankingFailed(r) \/ Cancel(r)
  \/ \E k \in Keys : Forget(k)

Spec == Init /\ [][Next]_vars

\* The runtime keeps polling a handler that is ready, and the semaphore hands a
\* free slot to a waiter.  Nothing is assumed of the clients, nor of Busy, of
\* RankingFailed or of Cancel: no request needs a timeout to be answered.
FairSpec == Spec /\ \A r \in Requests : WF_vars(Handler(r))

-------------------------------------------------------------------------------
(* Properties.                                                             *)

TypeOK ==
  /\ key \in [Requests -> Keys]
  /\ pc \in [Requests -> PCs]
  /\ cache \in [Keys -> Body \cup {NoBody}]
  /\ permits \in 0..Permits
  /\ inFlight \subseteq Keys
  /\ senders \in [Keys -> SUBSET Requests]
  /\ rx \in [Requests -> Channel]
  /\ body \in [Requests -> Body \cup {NoBody}]
  /\ guard \subseteq Requests
  /\ blocking \subseteq Requests
  /\ reply \in [Requests -> Reply \cup {NoBody}]

Holders == {r \in Requests : pc[r] \in Holding}

\* Every slot of the semaphore is free or held by exactly one handler, whatever
\* way handlers end (return, busy, panic, cancellation): no slot leaks, and no
\* more than Permits handlers are past the semaphore.
PermitsAccounted == permits + Cardinality(Holders) = Permits

\* An entry of in_flight never outlives the requests that would remove it: some
\* handler that still runs owns a guard for its key.  This is what DedupGuard
\* exists for (a leaked key would make every later identical query wait).
EntryHasOwner ==
  \A k \in inFlight : \E g \in guard : key[g] = k /\ pc[g] \in Working

\* A subscriber that has received nothing still has its sender in an entry that
\* a running handler is bound to remove: no wake-up is lost, although any
\* handler of the key may remove any other's entry.
WaiterHasWaker ==
  \A r \in Requests :
    pc[r] = "wait" /\ rx[r] = "open" =>
      /\ key[r] \in inFlight
      /\ r \in senders[key[r]]

\* A client only ever receives a failed body that its own handler produced:
\* a leader's failure is not handed to the requests that waited for it.
NoInheritedFailure ==
  \A r \in Requests :
    reply[r] # NoBody /\ reply[r].kind = "failed" => reply[r].by = r

\* A request is answered at most once and a reply never changes.
ReplyIsFinal ==
  [][\A r \in Requests : reply[r] # NoBody => reply'[r] = reply[r]]_vars

\* Every request that arrives is answered, without any help from a timeout: the
\* subscribers that hold slots while they wait never starve the leader.
EveryRequestAnswered ==
  \A r \in Requests : pc[r] = "acquire" ~> pc[r] = "done"

\* AppState.in_flight: concurrent duplicate requests share one fetch, so two
\* leaders of one key are never at work together.
DuplicatesShareFetch ==
  \A r, s \in guard : key[r] = key[s] => r = s

\* What the service sees of a handler, and the answer a subscriber has ready.
Status == [r \in Requests |->
             IF pc[r] = "idle" THEN "idle" ELSE IF pc[r] = "done" THEN "answered" ELSE "asked"]
Box == [r \in Requests |-> IF pc[r] = "wait" /\ rx[r] = "sent" THEN body[r] ELSE NoBody]

Abstract == INSTANCE SearchService WITH status <- Status, box <- Box

\* The handler implements the service: callers get bodies of the same key only,
\* fetched by themselves, while they waited, or still cached at arrival.
ImplementsService == Abstract!Spec
===============================================================================
