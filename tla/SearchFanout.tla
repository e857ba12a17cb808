----------------------------- MODULE SearchFanout -----------------------------
(***************************************************************************)
(* The SearXNG fan-out of handle_search and the circuit breaker it shares  *)
(* with every other request: the breaker is read once, an attempt spawns   *)
(* one detached task per open position, a second attempt ignores the       *)
(* breaker, a join deadline falls back to the partial collector, the       *)
(* collected responses are credited to the breaker, a retry with other     *)
(* words may follow (on the VPN instance, for a query with exclusions on   *)
(* every one), and the answer says whether upstream was up.                *)
(*                                                                         *)
(* Time is abstract: a budget, a deadline or a breaker window may end at   *)
(* any moment.  Module CircuitBreaker has the lengths of the windows.      *)
(***************************************************************************)
EXTENDS Naturals, Sequences, FiniteSets

CONSTANTS
  Requests,
  Canonical,   \* the SearXNG instances in canonical order, the VPN one first
  Lists        \* the fan-out lists of instances a request can build

ASSUME CanonicalAssumption == Canonical \in Seq(STRING) /\ Canonical # <<>>
ASSUME ListsAssumption ==
  /\ IsFiniteSet(Lists)
  /\ \A l \in Lists : /\ l \in Seq(STRING) /\ l # <<>>
                     /\ \A p \in DOMAIN l : \E i \in DOMAIN Canonical : Canonical[i] = l[p]

Positions == UNION {DOMAIN l : l \in Lists}
Keys == DOMAIN Canonical     \* breaker keys: searxng0 is key 1, searxng1 key 2
VpnKey == 1

VARIABLES
  open,      \* the keys whose circuit is open
  pc,        \* per request
  list,      \* its fan-out list (warmth order, variants included)
  site,      \* its query has a site: operator
  neg,       \* its query has exclusions
  skip,      \* the positions whose circuit was open when it read the breaker
  attempt,   \* 0 before the first attempt
  got,       \* what the current attempt collected at each position
  tasks,     \* detached fetches still running: <<request, position, attempt>>
  merged,    \* positions whose hits reached the merge
  tally,     \* searx_instances_total and searx_instances_ok
  verdict,   \* what the client is told
  heard,     \* history: positions whose hits the request received in time
  asked,     \* the positions its retry was fired on
  cut        \* history: the join deadline ended the fan-out

query == <<list, site, neg>>

vars == <<open, pc, query, skip, attempt, got, tasks, merged, tally, verdict,
          heard, asked, cut>>

Hits == {"few", "many"}                   \* fewer than 15 results, or at least 15
Answers == Hits \cup {"nohits"}
\* "failed" is reported to the breaker (timeout, refused connection, all engines
\* timed out); "garbled" (unreadable body) is not.
Outcomes == Answers \cup {"failed", "garbled"}

\* What a position can hold: all but hits are the same empty response.
Collected == {"none", "skipped", "empty"} \cup Hits

\* Mutant: the breaker key follows the position in the fan-out list.
KeyAtPosition(l, p) == ((p - 1) % Len(Canonical)) + 1

\* searx_instance_keys_for: the key of a position is the canonical index of the
\* instance it points at.
KeyAt(l, p) == CHOOSE i \in DOMAIN Canonical : Canonical[i] = l[p]

NothingYet == [p \in Positions |-> "none"]

\* The breaker is in whatever state earlier requests left it.
Init ==
  /\ open \in SUBSET Keys
  /\ pc = [r \in Requests |-> "idle"]
  /\ list \in [Requests -> Lists]
  /\ site \in [Requests -> BOOLEAN]
  /\ neg \in [Requests -> BOOLEAN]
  /\ skip = [r \in Requests |-> {}]
  /\ attempt = [r \in Requests |-> 0]
  /\ got = [r \in Requests |-> NothingYet]
  /\ tasks = {}
  /\ merged = [r \in Requests |-> {}]
  /\ tally = [r \in Requests |-> [total |-> 0, ok |-> 0]]
  /\ verdict = [r \in Requests |-> "none"]
  /\ heard = [r \in Requests |-> {}]
  /\ asked = [r \in Requests |-> {}]
  /\ cut = [r \in Requests |-> FALSE]

-------------------------------------------------------------------------------
(* The breaker: record_failure and record_connection_failure open it,      *)
(* record_success closes it.                                               *)

RecordOutcome(k, o) == open' = IF o = "failed" THEN open \cup {k} ELSE open

RecordSuccesses(ks) == open' = open \ ks

WindowEnds(k) ==
  /\ k \in open
  /\ open' = open \ {k}
  /\ UNCHANGED <<pc, query, skip, attempt, got, tasks, merged, tally,
                 verdict, heard, asked, cut>>

-------------------------------------------------------------------------------
(* The fan-out of one request.                                             *)

\* searx_instance_open is computed once, before the wait for a cold tor2.
ReadBreaker(r) ==
  /\ pc[r] = "idle"
  /\ skip' = [skip EXCEPT ![r] =
                {p \in DOMAIN list[r] : KeyAt(list[r], p) \in open}]
  /\ pc' = [pc EXCEPT ![r] = "ready"]
  /\ UNCHANGED <<open, query, attempt, got, tasks, merged, tally, verdict,
                 heard, asked, cut>>

\* Mutant: only site: queries ignore the breaker.
ForcedSiteOnly(r) == site[r]

\* The breaker is ignored by site: queries and by the second attempt.
Forced(r) == site[r] \/ attempt[r] = 1

Launch(r) ==
  LET skipped == IF Forced(r) THEN {} ELSE skip[r] IN
  /\ pc[r] = "ready"
  /\ attempt' = [attempt EXCEPT ![r] = @ + 1]
  /\ got' = [got EXCEPT ![r] = [p \in Positions |->
                                  IF p \in skipped THEN "skipped" ELSE "none"]]
  /\ tasks' = tasks \cup {<<r, p, attempt'[r]>> : p \in DOMAIN list[r] \ skipped}
  /\ pc' = [pc EXCEPT ![r] = "attempt"]
  /\ UNCHANGED <<open, query, skip, merged, tally, verdict, heard, asked,
                 cut>>

EarlyReturn(r) == \E p \in Positions : got[r][p] = "many"

\* The collection loop of attempt n still waits for position p.
Listens(r, p, n) ==
  /\ pc[r] = "attempt"
  /\ attempt[r] = n
  /\ got[r][p] = "none"
  /\ ~EarlyReturn(r)

\* A detached fetch ends: it reports failures to the breaker by itself, whether
\* or not anyone waits for it.
TaskEnds(r, p, n, o) ==
  /\ <<r, p, n>> \in tasks
  /\ tasks' = tasks \ {<<r, p, n>>}
  /\ RecordOutcome(KeyAt(list[r], p), o)
  /\ IF Listens(r, p, n)
     THEN /\ got' = [got EXCEPT ![r][p] = IF o \in Hits THEN o ELSE "empty"]
          /\ heard' = IF o \in Hits THEN [heard EXCEPT ![r] = @ \cup {p}] ELSE heard
     ELSE UNCHANGED <<got, heard>>
  /\ UNCHANGED <<pc, query, skip, attempt, merged, tally, verdict, asked,
                 cut>>

\* The branch budget ends before the task: an empty response is collected.
BranchTimeout(r, p) ==
  /\ Listens(r, p, attempt[r])
  /\ <<r, p, attempt[r]>> \in tasks
  /\ got' = [got EXCEPT ![r][p] = "empty"]
  /\ UNCHANGED <<open, pc, query, skip, attempt, tasks, merged, tally,
                 verdict, heard, asked, cut>>

HasUsable(r) == \E p \in Positions : got[r][p] \in Hits

\* Mutant: an attempt has no budget of its own.
AttemptEndsWhenAll(r) ==
  /\ pc[r] = "attempt"
  /\ EarlyReturn(r) \/ \A p \in DOMAIN list[r] : got[r][p] # "none"
  /\ pc' = [pc EXCEPT ![r] =
              IF HasUsable(r) \/ attempt[r] = 2 THEN "joined" ELSE "ready"]
  /\ UNCHANGED <<open, query, skip, attempt, got, tasks, merged, tally,
                 verdict, heard, asked, cut>>

\* Everything is collected, or the early return applies, or the budget of the
\* attempt ends.  One more attempt follows if nothing usable came.
AttemptEnds(r) ==
  /\ pc[r] = "attempt"
  /\ pc' = [pc EXCEPT ![r] =
              IF HasUsable(r) \/ attempt[r] = 2 THEN "joined" ELSE "ready"]
  /\ UNCHANGED <<open, query, skip, attempt, got, tasks, merged, tally,
                 verdict, heard, asked, cut>>

\* Mutant: the deadline discards what the faster instances returned.
JoinDeadlineEmpty(r) ==
  /\ pc[r] = "attempt"
  /\ attempt[r] = 2
  /\ got' = [got EXCEPT ![r] = NothingYet]
  /\ cut' = [cut EXCEPT ![r] = TRUE]
  /\ pc' = [pc EXCEPT ![r] = "joined"]
  /\ UNCHANGED <<open, query, skip, attempt, tasks, merged, tally, verdict,
                 heard, asked>>

\* The join deadline drops the fan-out: what counts is the partial collector,
\* which holds the non-empty responses only.  With tor2 it is 15 s, after at most
\* 6 s of waiting for the circuit, 6 s of attempt and 150 ms of backoff; without,
\* 5 s, and the VPN branch ends in 4.7 s: it can only cut the second attempt.
JoinDeadline(r) ==
  /\ pc[r] = "attempt"
  /\ attempt[r] = 2
  /\ got' = [got EXCEPT ![r] = [p \in Positions |->
                                  IF @[p] \in Hits THEN @[p] ELSE "none"]]
  /\ cut' = [cut EXCEPT ![r] = TRUE]
  /\ pc' = [pc EXCEPT ![r] = "joined"]
  /\ UNCHANGED <<open, query, skip, attempt, tasks, merged, tally, verdict,
                 heard, asked>>

Resolved(r) == {p \in Positions : got[r][p] # "none"}

\* Aggregation: every collected response, an empty one too, is a success of its
\* key; the hits are merged.  The shopping results, fetched from the VPN
\* instance unless every circuit was open, are counted as a response of position 1.
Aggregate(r, shopping) ==
  LET hits == {p \in Positions : got[r][p] \in Hits}
      extra == IF shopping THEN 1 ELSE 0
  IN
  /\ pc[r] = "joined"
  /\ shopping => skip[r] # DOMAIN list[r]
  /\ RecordSuccesses({KeyAt(list[r], p) : p \in Resolved(r) \cup (IF shopping THEN {1} ELSE {})})
  /\ merged' = [merged EXCEPT ![r] = hits]
  /\ tally' = [tally EXCEPT ![r] = [total |-> Cardinality(Resolved(r)) + extra,
                                    ok |-> Cardinality(hits) + extra]]
  /\ pc' = [pc EXCEPT ![r] = "aggregated"]
  /\ got' = [got EXCEPT ![r] = NothingYet]
  /\ skip' = [skip EXCEPT ![r] = {}]
  /\ UNCHANGED <<query, attempt, tasks, verdict, heard, asked, cut>>

\* The parallel retry with expanded queries: on the VPN instance alone, or on every
\* instance for a query with exclusions, where the circuit is closed.
Retry(r) ==
  LET fired == {p \in DOMAIN list[r] : LET k == KeyAt(list[r], p) IN
                  (neg[r] \/ k = VpnKey) /\ k \notin open}
  IN
  /\ pc[r] = "aggregated"
  /\ fired # {}
  /\ asked' = [asked EXCEPT ![r] = fired]
  /\ pc' = [pc EXCEPT ![r] = "retrying"]
  /\ UNCHANGED <<open, query, skip, attempt, got, tasks, merged, tally, verdict,
                 heard, cut>>

\* Each retry reports under the key of its own instance, the last report of a key
\* counts: good ended with results, bad with an error.  The others came back empty
\* or were not collected within the budget, which the breaker is not told.
RetryEnds(r, good, bad) ==
  LET keys(S) == {KeyAt(list[r], p) : p \in S} IN
  /\ pc[r] = "retrying"
  /\ good \subseteq asked[r] /\ bad \subseteq asked[r]
  /\ keys(good) \cap keys(bad) = {}
  /\ open' = (open \ keys(good)) \cup keys(bad)
  /\ asked' = [asked EXCEPT ![r] = {}]
  /\ pc' = [pc EXCEPT ![r] = "retried"]
  /\ UNCHANGED <<query, skip, attempt, got, tasks, merged, tally, verdict,
                 heard, cut>>

\* The response: empty says whether filters and the other sources left nothing.
Respond(r, empty) ==
  /\ pc[r] \in {"aggregated", "retried"}
  /\ verdict' = [verdict EXCEPT ![r] =
       CASE ~empty -> "results"
         [] empty /\ tally[r].total > 0 /\ tally[r].ok = 0 -> "unavailable"
         [] OTHER -> "empty"]
  /\ pc' = [pc EXCEPT ![r] = "done"]
  /\ tally' = [tally EXCEPT ![r] = [total |-> 0, ok |-> 0]]
  /\ attempt' = [attempt EXCEPT ![r] = 0]
  /\ merged' = [merged EXCEPT ![r] = {}]
  /\ heard' = [heard EXCEPT ![r] = {}]
  /\ UNCHANGED <<open, query, skip, got, tasks, asked, cut>>

-------------------------------------------------------------------------------
Fanout(r) ==
  \/ ReadBreaker(r)
  \/ Launch(r)
  \/ AttemptEnds(r)
  \/ \E shopping \in BOOLEAN : Aggregate(r, shopping)
  \/ Retry(r)
  \/ \E good, bad \in SUBSET asked[r] : RetryEnds(r, good, bad)
  \/ \E empty \in BOOLEAN : Respond(r, empty)

Next ==
  \/ \E r \in Requests :
       \/ Fanout(r)
       \/ \E p \in Positions : BranchTimeout(r, p)
       \/ JoinDeadline(r)
  \/ \E t \in tasks, o \in Outcomes : TaskEnds(t[1], t[2], t[3], o)
  \/ \E k \in Keys : WindowEnds(k)

Spec == Init /\ [][Next]_vars
FairSpec == Spec /\ \A r \in Requests : WF_vars(Fanout(r))

-------------------------------------------------------------------------------
TypeOK ==
  /\ open \subseteq Keys
  /\ pc \in [Requests -> {"idle", "ready", "attempt", "joined", "aggregated",
                          "retrying", "retried", "done"}]
  /\ list \in [Requests -> Lists]
  /\ site \in [Requests -> BOOLEAN]
  /\ neg \in [Requests -> BOOLEAN]
  /\ skip \in [Requests -> SUBSET Positions]
  /\ attempt \in [Requests -> 0..2]
  /\ got \in [Requests -> [Positions -> Collected]]
  /\ tasks \subseteq Requests \X Positions \X (1..2)
  /\ merged \in [Requests -> SUBSET Positions]
  /\ tally \in [Requests -> [total : 0..(Cardinality(Positions) + 1),
                             ok : 0..(Cardinality(Positions) + 1)]]
  /\ verdict \in [Requests -> {"none", "results", "empty", "unavailable"}]
  /\ heard \in [Requests -> SUBSET Positions]
  /\ asked \in [Requests -> SUBSET Positions]
  /\ cut \in [Requests -> BOOLEAN]

\* Hits that reached the request before the deadline are merged, whatever ended
\* the fan-out: a slow instance never costs the results of a fast one.
HitsNeverLost ==
  \A r \in Requests : pc[r] = "aggregated" => heard[r] \subseteq merged[r]

\* A request that finds nothing, and was not cut by the join deadline, has tried
\* every position of its list: an open circuit alone never empties an answer.
NothingOnlyAfterAllProbed ==
  \A r \in Requests :
    pc[r] = "joined" /\ ~cut[r] /\ heard[r] = {} =>
      \A p \in DOMAIN list[r] : got[r][p] # "skipped"

\* A circuit opens only because the instance it stands for failed a fetch or a retry
\* of its own, wherever it is in a request's list: health is keyed by backend, never
\* by position.  The retry of a query without exclusions can cost the VPN one only.
FailureHitsOwnKey ==
  [][\A k \in Keys :
       k \in open' \ open =>
         \/ \E t \in tasks \ tasks' : list[t[1]][t[2]] = Canonical[k]
         \/ \E r \in Requests : /\ pc[r] = "retrying" /\ pc'[r] = "retried"
                                /\ \E p \in asked[r] : list[r][p] = Canonical[k]
                                /\ neg[r] \/ k = VpnKey]_vars

\* Every request that starts its fan-out gets an answer.
EveryFanoutEnds == \A r \in Requests : pc[r] = "ready" ~> pc[r] = "done"

===============================================================================
