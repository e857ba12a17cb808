-------------------------- MODULE SearchFanoutProofs ---------------------------
(***************************************************************************)
(* Proofs about the fan-out, for any requests, instances and lists, and    *)
(* about the circuit breaker it shares with every other request, for any   *)
(* keys, windows and order of reports.                                     *)
(***************************************************************************)
EXTENDS SearchFanout, CircuitBreaker, FiniteSetTheorems, TLAPS

-------------------------------------------------------------------------------
(* Positions and keys.                                                     *)

\* There are finitely many positions, so a tally of them has a bound.
LEMMA PositionsFinite ==
  /\ IsFiniteSet(Positions) /\ Cardinality(Positions) \in Nat
  /\ \A l \in Lists : DOMAIN l \subseteq Positions
  /\ \A S \in SUBSET Positions : Cardinality(S) \in 0..Cardinality(Positions)
<1> DEFINE Domains == {DOMAIN l : l \in Lists}
<1>1. IsFiniteSet(Domains)
  <2>1. [l \in Lists |-> DOMAIN l] \in Surjection(Lists, Domains)
    BY DEF Surjection
  <2> QED
    BY <2>1, FS_Surjection, ListsAssumption
<1>2. \A D \in Domains : IsFiniteSet(D)
  <2> SUFFICES ASSUME NEW l \in Lists
               PROVE  IsFiniteSet(DOMAIN l)
    OBVIOUS
  <2>1. l \in Seq(STRING)
    BY ListsAssumption
  <2>2. DOMAIN l = 1..Len(l) /\ Len(l) \in Nat
    BY <2>1
  <2> QED
    BY <2>2, FS_Interval
<1>3. IsFiniteSet(Positions) /\ \A l \in Lists : DOMAIN l \subseteq Positions
  BY <1>1, <1>2, FS_UNION DEF Positions
<1>4. Cardinality(Positions) \in Nat
  BY <1>3, FS_CardinalityType
<1>5. ASSUME NEW S \in SUBSET Positions
      PROVE  Cardinality(S) \in 0..Cardinality(Positions)
  <2>1. IsFiniteSet(S) /\ Cardinality(S) <= Cardinality(Positions)
    BY <1>3, FS_Subset
  <2> QED
    BY <2>1, <1>4, FS_CardinalityType
<1> QED
  BY <1>3, <1>4, <1>5

\* The key of a position is that of the instance at it.
LEMMA KeyOfInstance ==
  ASSUME NEW l \in Lists, NEW p \in DOMAIN l
  PROVE  KeyAt(l, p) \in Keys /\ Canonical[KeyAt(l, p)] = l[p]
BY ListsAssumption DEF KeyAt, Keys

-------------------------------------------------------------------------------
(* The inductive invariant of the fan-out.                                 *)

\* A task, and a retry, fetches a position of its request's list, the retry of a
\* query without exclusions that of the VPN instance.
TasksOfLists ==
  /\ \A t \in tasks : t[2] \in DOMAIN list[t[1]]
  /\ \A r \in Requests : \A p \in asked[r] :
       p \in DOMAIN list[r] /\ (neg[r] \/ KeyAt(list[r], p) = VpnKey)

\* The first attempt is over when a second one is due, and the second one has
\* skipped nothing.
Attempts ==
  \A r \in Requests :
    /\ pc[r] = "idle" => attempt[r] = 0
    /\ pc[r] = "ready" => attempt[r] \in {0, 1}
    /\ pc[r] \in {"attempt", "joined"} => attempt[r] \in {1, 2}
    /\ pc[r] \in {"attempt", "joined"} /\ attempt[r] = 2 =>
         \A p \in Positions : got[r][p] # "skipped"

\* What has been heard is in the collector, and one without hits was not joined
\* after the first attempt.
Collecting ==
  \A r \in Requests :
    /\ pc[r] \in {"idle", "ready"} => heard[r] = {}
    /\ pc[r] \in {"attempt", "joined"} => heard[r] = {p \in Positions : got[r][p] \in Hits}
    /\ pc[r] = "joined" => heard[r] # {} \/ attempt[r] = 2

FInv == TypeOK /\ TasksOfLists /\ Attempts /\ Collecting /\ HitsNeverLost

LEMMA InitFInv == Init => FInv
<1> SUFFICES ASSUME Init
             PROVE  FInv
  OBVIOUS
<1>1. TypeOK
  <2>1. NothingYet \in [Positions -> Collected]
    BY DEF NothingYet, Collected
  <2> QED
    BY <2>1, PositionsFinite DEF Init, TypeOK
<1>2. TasksOfLists /\ Attempts /\ Collecting /\ HitsNeverLost
  BY DEF Init, TasksOfLists, Attempts, Collecting, HitsNeverLost
<1> QED
  BY <1>1, <1>2 DEF FInv

\* Every step keeps the invariant.
LEMMA StepFInv == FInv /\ [Next]_vars => FInv'
<1> SUFFICES ASSUME FInv, [Next]_vars
             PROVE  FInv'
  OBVIOUS
<1> USE DEF query
<1>0. TypeOK /\ TasksOfLists /\ Attempts /\ Collecting /\ HitsNeverLost
  BY DEF FInv
<1>1. ASSUME NEW r \in Requests, ReadBreaker(r)
      PROVE  FInv'
  <2>1. DOMAIN list[r] \subseteq Positions
    BY <1>0, PositionsFinite DEF TypeOK
  <2>2. TypeOK'
    BY <1>0, <1>1, <2>1 DEF ReadBreaker, TypeOK
  <2>3. /\ UNCHANGED <<query, attempt, got, tasks, merged, heard, asked>>
        /\ \A x \in Requests : pc'[x] = IF x = r THEN "ready" ELSE pc[x]
        /\ pc[r] = "idle"
    BY <1>0, <1>1 DEF ReadBreaker, TypeOK
  <2>4. TasksOfLists' /\ Attempts' /\ Collecting' /\ HitsNeverLost'
    BY <1>0, <2>3 DEF TasksOfLists, Attempts, Collecting, HitsNeverLost
  <2> QED
    BY <2>2, <2>4 DEF FInv
<1>2. ASSUME NEW r \in Requests, Launch(r)
      PROVE  FInv'
  <2> DEFINE skipped == IF Forced(r) THEN {} ELSE skip[r]
             fresh == [p \in Positions |-> IF p \in skipped THEN "skipped" ELSE "none"]
  <2>1. /\ pc[r] = "ready" /\ UNCHANGED <<open, query, skip, merged, tally, verdict, heard, asked, cut>>
        /\ tasks' = tasks \cup {<<r, p, attempt'[r]>> : p \in DOMAIN list[r] \ skipped}
        /\ \A x \in Requests : /\ pc'[x] = IF x = r THEN "attempt" ELSE pc[x]
                               /\ attempt'[x] = IF x = r THEN attempt[r] + 1 ELSE attempt[x]
                               /\ got'[x] = IF x = r THEN fresh ELSE got[x]
    <3>1. /\ pc[r] = "ready" /\ UNCHANGED <<open, query, skip, merged, tally, verdict, heard, asked, cut>>
          /\ tasks' = tasks \cup {<<r, p, attempt'[r]>> : p \in DOMAIN list[r] \ skipped}
          /\ pc' = [pc EXCEPT ![r] = "attempt"] /\ attempt' = [attempt EXCEPT ![r] = @ + 1]
          /\ got' = [got EXCEPT ![r] = fresh]
      BY <1>2 DEF Launch
    <3> HIDE DEF skipped, fresh
    <3> QED
      BY <1>0, <3>1 DEF TypeOK
  <2>2. attempt[r] \in {0, 1} /\ heard[r] = {} /\ (attempt[r] = 1 => skipped = {})
    BY <1>0, <2>1 DEF Attempts, Collecting, Forced
  <2>3. /\ fresh \in [Positions -> Collected]
        /\ \A p \in Positions : fresh[p] \notin Hits /\ (skipped = {} => fresh[p] # "skipped")
    BY DEF Collected, Hits
  <2> HIDE DEF skipped, fresh
  <2>4. TypeOK'
    <3>1. pc' \in [Requests -> {"idle", "ready", "attempt", "joined", "aggregated",
                                "retrying", "retried", "done"}]
      BY <1>0, <1>2 DEF Launch, TypeOK
    <3>2. attempt' \in [Requests -> 0..2]
      BY <1>0, <1>2, <2>2 DEF Launch, TypeOK
    <3>3. got' \in [Requests -> [Positions -> Collected]]
      BY <1>0, <1>2, <2>3 DEF Launch, TypeOK, fresh, skipped
    <3>4. tasks' \subseteq Requests \X Positions \X (1..2)
      <4>1. attempt'[r] \in 1..2 /\ DOMAIN list[r] \subseteq Positions
        BY <1>0, <2>1, <2>2, PositionsFinite DEF TypeOK
      <4> QED
        BY <1>0, <2>1, <4>1 DEF TypeOK
    <3> QED
      BY <1>0, <2>1, <3>1, <3>2, <3>3, <3>4 DEF TypeOK
  <2>5. TasksOfLists'
    BY <1>0, <2>1 DEF TasksOfLists
  <2>6. Attempts'
    <3>1. attempt'[r] \in {1, 2} /\ (attempt'[r] = 2 => skipped = {})
      BY <2>1, <2>2
    <3>2. attempt'[r] = 2 => \A p \in Positions : got'[r][p] # "skipped"
      BY <2>1, <2>3, <3>1
    <3> QED
      BY <1>0, <2>1, <3>1, <3>2 DEF Attempts
  <2>7. Collecting'
    <3>1. {p \in Positions : got'[r][p] \in Hits} = {}
      BY <2>1, <2>3
    <3> QED
      BY <1>0, <2>1, <2>2, <3>1 DEF Collecting
  <2>8. HitsNeverLost'
    BY <1>0, <2>1 DEF HitsNeverLost
  <2> QED
    BY <2>4, <2>5, <2>6, <2>7, <2>8 DEF FInv
<1>3. ASSUME NEW r \in Requests, AttemptEnds(r)
      PROVE  FInv'
  <2>1. /\ UNCHANGED <<open, query, skip, attempt, got, tasks, merged, tally, verdict, heard, asked, cut>>
        /\ pc[r] = "attempt"
        /\ \A x \in Requests : x # r => pc'[x] = pc[x]
        /\ pc'[r] = IF HasUsable(r) \/ attempt[r] = 2 THEN "joined" ELSE "ready"
    BY <1>0, <1>3 DEF AttemptEnds, TypeOK
  <2>2. TypeOK'
    BY <1>0, <1>3 DEF AttemptEnds, TypeOK
  <2>3. HasUsable(r) <=> heard[r] # {}
    BY <1>0, <2>1 DEF HasUsable, Collecting
  <2>4. Attempts' /\ Collecting'
    BY <1>0, <2>1, <2>3 DEF Attempts, Collecting
  <2> QED
    BY <1>0, <2>1, <2>2, <2>4 DEF FInv, TasksOfLists, HitsNeverLost
<1>4. ASSUME NEW r \in Requests, NEW shopping \in BOOLEAN, Aggregate(r, shopping)
      PROVE  FInv'
  <2> DEFINE hits == {p \in Positions : got[r][p] \in Hits}
             extra == IF shopping THEN 1 ELSE 0
  <2>1. /\ pc[r] = "joined" /\ UNCHANGED <<query, attempt, tasks, verdict, heard, asked, cut>>
        /\ open' \subseteq open
        /\ merged' = [merged EXCEPT ![r] = hits]
        /\ tally' = [tally EXCEPT ![r] = [total |-> Cardinality(Resolved(r)) + extra,
                                          ok |-> Cardinality(hits) + extra]]
        /\ pc' = [pc EXCEPT ![r] = "aggregated"]
        /\ got' = [got EXCEPT ![r] = NothingYet]
        /\ skip' = [skip EXCEPT ![r] = {}]
    BY <1>4 DEF Aggregate, RecordSuccesses
  <2>2. /\ Cardinality(Resolved(r)) \in 0..Cardinality(Positions)
        /\ Cardinality(hits) \in 0..Cardinality(Positions)
        /\ Cardinality(Positions) \in Nat /\ extra \in {0, 1}
    <3>1. Resolved(r) \in SUBSET Positions /\ hits \in SUBSET Positions
      BY DEF Resolved
    <3> QED
      BY <3>1, PositionsFinite
  <2>3. NothingYet \in [Positions -> Collected] /\ \A p \in Positions : NothingYet[p] \notin Hits
    BY DEF NothingYet, Collected, Hits
  <2>4. hits \in SUBSET Positions /\ hits = heard[r]
    BY <1>0, <2>1 DEF Collecting
  <2> HIDE DEF hits, extra
  <2>5. tally' \in [Requests -> [total : 0..(Cardinality(Positions) + 1),
                                 ok : 0..(Cardinality(Positions) + 1)]]
    <3>1. /\ Cardinality(Resolved(r)) + extra \in 0..(Cardinality(Positions) + 1)
          /\ Cardinality(hits) + extra \in 0..(Cardinality(Positions) + 1)
      BY <2>2
    <3> QED
      BY <1>0, <2>1, <3>1 DEF TypeOK
  <2>6. TypeOK'
    BY <1>0, <2>1, <2>3, <2>4, <2>5 DEF TypeOK
  <2>7. \A x \in Requests : /\ pc'[x] = IF x = r THEN "aggregated" ELSE pc[x]
                            /\ x # r => got'[x] = got[x] /\ merged'[x] = merged[x]
                            /\ merged'[r] = heard[r]
    BY <1>0, <2>1, <2>4 DEF TypeOK
  <2>8. UNCHANGED <<query, attempt, tasks, heard, asked>>
    BY <2>1
  <2>9. TasksOfLists' /\ Attempts' /\ HitsNeverLost'
    BY <1>0, <2>7, <2>8 DEF TasksOfLists, Attempts, HitsNeverLost
  <2>10. Collecting'
    BY <1>0, <2>7, <2>8 DEF Collecting
  <2> QED
    BY <2>6, <2>9, <2>10 DEF FInv
<1>5. ASSUME NEW r \in Requests,
             \/ Retry(r)
             \/ \E good, bad \in SUBSET asked[r] : RetryEnds(r, good, bad)
             \/ \E empty \in BOOLEAN : Respond(r, empty)
      PROVE  FInv'
  <2>1. CASE Retry(r)
    <3>1. PICK fired \in SUBSET DOMAIN list[r] :
            /\ asked' = [asked EXCEPT ![r] = fired]
            /\ \A p \in fired : neg[r] \/ KeyAt(list[r], p) = VpnKey
      BY <2>1 DEF Retry
    <3>2. /\ pc[r] = "aggregated" /\ pc' = [pc EXCEPT ![r] = "retrying"]
          /\ UNCHANGED <<open, query, skip, attempt, got, tasks, merged, tally, verdict, heard, cut>>
      BY <2>1 DEF Retry
    <3>3. DOMAIN list[r] \subseteq Positions
      BY <1>0, PositionsFinite DEF TypeOK
    <3> QED
      BY <1>0, <3>1, <3>2, <3>3 DEF FInv, TypeOK, TasksOfLists, Attempts, Collecting, HitsNeverLost
  <2>2. CASE \E good, bad \in SUBSET asked[r] : RetryEnds(r, good, bad)
    <3>1. PICK good \in SUBSET asked[r], bad \in SUBSET asked[r] : RetryEnds(r, good, bad)
      BY <2>2
    <3>2. /\ pc[r] = "retrying" /\ pc' = [pc EXCEPT ![r] = "retried"]
          /\ asked' = [asked EXCEPT ![r] = {}]
          /\ UNCHANGED <<query, skip, attempt, got, tasks, merged, tally, verdict, heard, cut>>
      BY <3>1 DEF RetryEnds
    <3>3. open' \subseteq open \cup {KeyAt(list[r], p) : p \in bad}
      BY <3>1 DEF RetryEnds
    <3>4. \A p \in bad : KeyAt(list[r], p) \in Keys
      BY <1>0, KeyOfInstance DEF TypeOK, TasksOfLists
    <3>5. open' \subseteq Keys
      BY <1>0, <3>3, <3>4 DEF TypeOK
    <3> QED
      BY <1>0, <3>2, <3>5 DEF FInv, TypeOK, TasksOfLists, Attempts, Collecting, HitsNeverLost
  <2>3. CASE \E empty \in BOOLEAN : Respond(r, empty)
    <3>1. PICK empty \in BOOLEAN : Respond(r, empty)
      BY <2>3
    <3>2. /\ UNCHANGED <<open, query, skip, got, tasks, asked, cut>>
          /\ pc' = [pc EXCEPT ![r] = "done"]
          /\ tally' = [tally EXCEPT ![r] = [total |-> 0, ok |-> 0]]
          /\ attempt' = [attempt EXCEPT ![r] = 0]
          /\ merged' = [merged EXCEPT ![r] = {}]
          /\ heard' = [heard EXCEPT ![r] = {}]
          /\ \E v \in {"results", "unavailable", "empty"} : verdict' = [verdict EXCEPT ![r] = v]
      BY <3>1 DEF Respond
    <3>3. 0 \in 0..(Cardinality(Positions) + 1)
      BY PositionsFinite
    <3>4. tally' \in [Requests -> [total : 0..(Cardinality(Positions) + 1),
                                   ok : 0..(Cardinality(Positions) + 1)]]
      BY <1>0, <3>2, <3>3 DEF TypeOK
    <3>5. verdict' \in [Requests -> {"none", "results", "empty", "unavailable"}]
      BY <1>0, <3>2 DEF TypeOK
    <3>6. TypeOK'
      BY <1>0, <3>2, <3>4, <3>5 DEF TypeOK
    <3>7. TasksOfLists' /\ Attempts' /\ Collecting' /\ HitsNeverLost'
      BY <1>0, <3>2 DEF TypeOK, TasksOfLists, Attempts, Collecting, HitsNeverLost
    <3> QED
      BY <3>6, <3>7 DEF FInv
  <2> QED
    BY <1>5, <2>1, <2>2, <2>3
<1>6. ASSUME NEW r \in Requests, NEW p \in Positions, BranchTimeout(r, p)
      PROVE  FInv'
  <2>1. /\ got' = [got EXCEPT ![r][p] = "empty"] /\ pc[r] = "attempt" /\ got[r][p] = "none"
        /\ UNCHANGED <<open, pc, query, skip, attempt, tasks, merged, tally, verdict, heard, asked, cut>>
    BY <1>6 DEF BranchTimeout, Listens
  <2>2. TypeOK'
    BY <1>0, <2>1 DEF TypeOK, Collected
  <2>3. \A x \in Requests, q \in Positions :
          got'[x][q] = IF x = r /\ q = p THEN "empty" ELSE got[x][q]
    BY <1>0, <2>1 DEF TypeOK
  <2>4. Attempts' /\ Collecting'
    BY <1>0, <2>1, <2>3 DEF Attempts, Collecting, Hits
  <2> QED
    BY <1>0, <2>1, <2>2, <2>4 DEF FInv, TasksOfLists, HitsNeverLost
<1>7. ASSUME NEW r \in Requests, JoinDeadline(r)
      PROVE  FInv'
  <2>1. /\ pc[r] = "attempt" /\ attempt[r] = 2
        /\ got' = [got EXCEPT ![r] = [p \in Positions |-> IF @[p] \in Hits THEN @[p] ELSE "none"]]
        /\ cut' = [cut EXCEPT ![r] = TRUE] /\ pc' = [pc EXCEPT ![r] = "joined"]
        /\ UNCHANGED <<open, query, skip, attempt, tasks, merged, tally, verdict, heard, asked>>
    BY <1>7 DEF JoinDeadline
  <2>2. [p \in Positions |-> IF got[r][p] \in Hits THEN got[r][p] ELSE "none"] \in [Positions -> Collected]
    BY DEF Collected
  <2>3. TypeOK'
    BY <1>0, <2>1, <2>2 DEF TypeOK
  <2>4. \A x \in Requests, q \in Positions :
          got'[x][q] = IF x = r THEN IF got[r][q] \in Hits THEN got[r][q] ELSE "none" ELSE got[x][q]
    BY <1>0, <2>1 DEF TypeOK
  <2>5. \A x \in Requests : pc'[x] = IF x = r THEN "joined" ELSE pc[x]
    BY <1>0, <2>1 DEF TypeOK
  <2>6. Attempts' /\ Collecting' /\ HitsNeverLost'
    BY <1>0, <2>1, <2>4, <2>5 DEF Attempts, Collecting, HitsNeverLost, Hits
  <2> QED
    BY <1>0, <2>1, <2>3, <2>6 DEF FInv, TasksOfLists
<1>8. ASSUME NEW t \in tasks, NEW o \in Outcomes, TaskEnds(t[1], t[2], t[3], o)
      PROVE  FInv'
  <2> DEFINE r == t[1]
             p == t[2]
  <2>1. r \in Requests /\ p \in Positions /\ p \in DOMAIN list[r] /\ list[r] \in Lists
    BY <1>0 DEF TypeOK, TasksOfLists
  <2>2. KeyAt(list[r], p) \in Keys
    BY <2>1, KeyOfInstance
  <2>3. /\ tasks' \subseteq tasks /\ open' \subseteq open \cup {KeyAt(list[r], p)}
        /\ UNCHANGED <<pc, query, skip, attempt, merged, tally, verdict, asked, cut>>
    BY <1>8 DEF TaskEnds, RecordOutcome
  <2>4. CASE UNCHANGED <<got, heard>>
    BY <1>0, <2>2, <2>3, <2>4 DEF FInv, TypeOK, TasksOfLists, Attempts, Collecting, HitsNeverLost
  <2>5. CASE /\ Listens(r, p, t[3])
             /\ got' = [got EXCEPT ![r][p] = IF o \in Hits THEN o ELSE "empty"]
             /\ heard' = IF o \in Hits THEN [heard EXCEPT ![r] = @ \cup {p}] ELSE heard
    <3>1. pc[r] = "attempt" /\ got[r][p] = "none"
      BY <2>5 DEF Listens
    <3>2. TypeOK'
      BY <1>0, <2>1, <2>2, <2>3, <2>5 DEF TypeOK, Collected
    <3>3. \A x \in Requests, q \in Positions :
            got'[x][q] = IF x = r /\ q = p THEN IF o \in Hits THEN o ELSE "empty" ELSE got[x][q]
      BY <1>0, <2>1, <2>5 DEF TypeOK
    <3>4. \A x \in Requests :
            heard'[x] = IF x = r /\ o \in Hits THEN heard[x] \cup {p} ELSE heard[x]
      BY <1>0, <2>1, <2>5 DEF TypeOK
    <3>5. Attempts'
      BY <1>0, <2>3, <3>1, <3>3 DEF Attempts, Hits
    <3>6. Collecting'
      <4>1. \A x \in Requests \ {r} : heard'[x] = heard[x] /\ \A q \in Positions : got'[x][q] = got[x][q]
        BY <3>3, <3>4
      <4>2. heard[r] = {q \in Positions : got[r][q] \in Hits}
        BY <1>0, <2>1, <3>1 DEF Collecting
      <4>3. heard'[r] = {q \in Positions : got'[r][q] \in Hits}
        <5>1. \A q \in Positions : q # p => got'[r][q] = got[r][q]
          BY <2>1, <3>3
        <5>2. got'[r][p] \in Hits <=> o \in Hits
          BY <2>1, <3>3 DEF Hits
        <5>3. heard'[r] = IF o \in Hits THEN heard[r] \cup {p} ELSE heard[r]
          BY <2>1, <3>4
        <5>4. got[r][p] \notin Hits
          BY <3>1 DEF Hits
        <5> HIDE DEF r, p
        <5> QED
          BY <2>1, <4>2, <5>1, <5>2, <5>3, <5>4
      <4>4. UNCHANGED <<pc, attempt>>
        BY <2>3
      <4> HIDE DEF r, p
      <4> QED
        BY <1>0, <2>1, <3>1, <4>1, <4>3, <4>4 DEF Collecting
    <3>7. HitsNeverLost'
      BY <1>0, <2>3, <3>1, <3>4 DEF HitsNeverLost
    <3> QED
      BY <1>0, <2>3, <3>2, <3>5, <3>6, <3>7 DEF FInv, TasksOfLists
  <2> QED
    BY <1>8, <2>4, <2>5 DEF TaskEnds
<1>9. ASSUME NEW k \in Keys, WindowEnds(k)
      PROVE  FInv'
  BY <1>0, <1>9 DEF WindowEnds, FInv, TypeOK, TasksOfLists, Attempts, Collecting, HitsNeverLost
<1>10. CASE UNCHANGED vars
  BY <1>0, <1>10 DEF vars, FInv, TypeOK, TasksOfLists, Attempts, Collecting, HitsNeverLost
<1> QED
  BY <1>1, <1>2, <1>3, <1>4, <1>5, <1>6, <1>7, <1>8, <1>9, <1>10 DEF Next, Fanout

LEMMA FanoutInductive == Spec => []FInv
BY InitFInv, StepFInv, PTL DEF Spec

-------------------------------------------------------------------------------
(* The theorems about the fan-out.                                         *)

\* Types; the tally counts no position twice.
THEOREM FanoutTypeCorrect == Spec => []TypeOK
BY FanoutInductive, PTL DEF FInv

\* Hits that reach a request in time are merged, however the fan-out ends: by
\* itself, by the early return, by the attempt's budget or by the join deadline
\* (the partial collector of handle_search).
THEOREM FastAnswersKept == Spec => []HitsNeverLost
BY FanoutInductive, PTL DEF FInv

\* However the breaker stands, a request that was not cut finds nothing only after
\* it has asked every instance of its list (the forced second attempt).
THEOREM NothingOnlyAfterAll == Spec => []NothingOnlyAfterAllProbed
<1>1. ASSUME FInv
      PROVE  NothingOnlyAfterAllProbed
  <2> SUFFICES ASSUME NEW r \in Requests, pc[r] = "joined", heard[r] = {}, NEW p \in DOMAIN list[r]
               PROVE  got[r][p] # "skipped"
    BY DEF NothingOnlyAfterAllProbed
  <2>1. attempt[r] = 2
    BY <1>1 DEF FInv, Collecting
  <2>2. p \in Positions
    BY <1>1, PositionsFinite DEF FInv, TypeOK
  <2> QED
    BY <1>1, <2>1, <2>2 DEF FInv, Attempts
<1> QED
  BY <1>1, FanoutInductive, PTL

\* A circuit opens only by a failed fetch, or retry, of the instance it stands for,
\* wherever that instance is in a request's list (searx_instance_keys_for); the retry
\* of a query without exclusions reports on the VPN instance only.
THEOREM FailuresHitTheirKey == Spec => FailureHitsOwnKey
<1> DEFINE Own == \A k \in Keys :
                    k \in open' \ open =>
                      \/ \E t \in tasks \ tasks' : list[t[1]][t[2]] = Canonical[k]
                      \/ \E r \in Requests : /\ pc[r] = "retrying" /\ pc'[r] = "retried"
                                             /\ \E p \in asked[r] : list[r][p] = Canonical[k]
                                             /\ neg[r] \/ k = VpnKey
<1> USE DEF query
<1>1. ASSUME FInv, [Next]_vars
      PROVE  Own
  <2>1. CASE \E t \in tasks, o \in Outcomes : TaskEnds(t[1], t[2], t[3], o)
    <3>1. PICK t \in tasks, o \in Outcomes : TaskEnds(t[1], t[2], t[3], o)
      BY <2>1
    <3>2. t = <<t[1], t[2], t[3]>> /\ t[2] \in DOMAIN list[t[1]] /\ list[t[1]] \in Lists
      BY <1>1 DEF FInv, TypeOK, TasksOfLists
    <3>3. t \in tasks \ tasks'
      BY <3>1, <3>2 DEF TaskEnds
    <3>4. open' \subseteq open \cup {KeyAt(list[t[1]], t[2])}
      BY <3>1 DEF TaskEnds, RecordOutcome
    <3>5. Canonical[KeyAt(list[t[1]], t[2])] = list[t[1]][t[2]]
      BY <3>2, KeyOfInstance
    <3> QED
      BY <3>3, <3>4, <3>5
  <2>2. CASE \E r \in Requests : \E good, bad \in SUBSET asked[r] : RetryEnds(r, good, bad)
    <3>1. PICK r \in Requests : \E good, bad \in SUBSET asked[r] : RetryEnds(r, good, bad)
      BY <2>2
    <3>2. PICK good \in SUBSET asked[r], bad \in SUBSET asked[r] : RetryEnds(r, good, bad)
      BY <3>1
    <3>3. open' \subseteq open \cup {KeyAt(list[r], p) : p \in bad}
      BY <3>2 DEF RetryEnds
    <3>4. pc[r] = "retrying" /\ pc'[r] = "retried"
      BY <1>1, <3>2 DEF RetryEnds, FInv, TypeOK
    <3>5. \A p \in bad : /\ p \in asked[r] /\ Canonical[KeyAt(list[r], p)] = list[r][p]
                         /\ neg[r] \/ KeyAt(list[r], p) = VpnKey
      BY <1>1, <3>4, KeyOfInstance DEF FInv, TypeOK, TasksOfLists
    <3> QED
      BY <3>3, <3>4, <3>5
  <2>3. CASE open' \subseteq open
    BY <2>3
  <2> QED
    BY <1>1, <2>1, <2>2, <2>3
       DEF Next, Fanout, ReadBreaker, Launch, AttemptEnds, Aggregate, RecordSuccesses, Retry, Respond,
           BranchTimeout, JoinDeadline, WindowEnds, vars
<1> QED
  BY <1>1, FanoutInductive, PTL DEF Spec, FailureHitsOwnKey

-------------------------------------------------------------------------------
(* The circuit breaker on its own: its windows and streaks.                *)

\* A backoff never exceeds the cap, wrapped or not.
LEMMA BackoffBounded ==
  ASSUME NEW n \in Nat \ {0}
  PROVE  Backoff(n) \in 0..Cap
  <1>1. CASE n > Width
    BY <1>1, WindowsAssumption DEF Backoff
  <1>2. CASE n <= Width /\ n \in 1..5
    BY <1>2, WindowsAssumption DEF Backoff, Doubling
  <1>3. CASE n <= Width /\ n > 5
    BY <1>3, WindowsAssumption DEF Backoff, Doubling
  <1> QED BY <1>1, <1>2, <1>3, WindowsAssumption

LEMMA FirstBackoff == Backoff(1) = 1
  BY WindowsAssumption DEF Backoff, Doubling

-------------------------------------------------------------------------------
BInv == BreakerTypeOK /\ SelfHeals /\ TimeoutsBackOffBriefly

LEMMA InitBInv == BreakerInit => BInv
  BY WindowsAssumption DEF BreakerInit, BInv, BreakerTypeOK, SelfHeals, TimeoutsBackOffBriefly, IsOpen

LEMMA StepBInv == BInv /\ [BreakerNext]_breakerVars => BInv'
  <1> SUFFICES ASSUME BInv, [BreakerNext]_breakerVars PROVE BInv'
    OBVIOUS
  <1> USE WindowsAssumption DEF BInv, BreakerTypeOK, SelfHeals, TimeoutsBackOffBriefly, IsOpen
  <1>1. ASSUME NEW e \in Engines, RecordSuccess(e) PROVE BInv'
    BY <1>1 DEF RecordSuccess
  <1>2. ASSUME NEW e \in Engines, RecordFailure(e) PROVE BInv'
    <2>1. Backoff(streak[e] + 1) \in 0..Cap
      BY BackoffBounded
    <2> QED BY <1>2, <2>1 DEF RecordFailure
  <1>3. ASSUME NEW e \in Engines, RecordConnectionFailure(e) PROVE BInv'
    BY <1>3 DEF RecordConnectionFailure
  <1>4. CASE Tick
    BY <1>4 DEF Tick
  <1>5. CASE UNCHANGED breakerVars
    BY <1>5 DEF breakerVars
  <1> QED BY <1>1, <1>2, <1>3, <1>4, <1>5 DEF BreakerNext

THEOREM BreakerInvariant == BreakerSpec => []BInv
  BY InitBInv, StepBInv, PTL DEF BreakerSpec

\* Whatever was reported, a circuit is closed once the connection window has
\* passed since the last failure.
THEOREM EnginesRecover == BreakerSpec => []SelfHeals
  BY BreakerInvariant, PTL DEF BInv

\* After a timeout no key is skipped for longer than the cap.
THEOREM TimeoutsAreBrief == BreakerSpec => []TimeoutsBackOffBriefly
  BY BreakerInvariant, PTL DEF BInv

-------------------------------------------------------------------------------
FreshStreak == \A e \in Engines : last[e] = "success" => streak[e] = 0

\* A success ends the history of failures.
THEOREM SuccessEndsStreak == BreakerSpec => SuccessForgets
  <1>1. BreakerInit => FreshStreak
    BY DEF BreakerInit, FreshStreak
  <1>2. BreakerTypeOK /\ FreshStreak /\ [BreakerNext]_breakerVars => FreshStreak'
    BY DEF BreakerTypeOK, FreshStreak, BreakerNext, breakerVars, RecordSuccess, RecordFailure,
           RecordConnectionFailure, Tick
  <1>3. BreakerTypeOK /\ FreshStreak /\ [BreakerNext]_breakerVars =>
          [\A e \in Engines :
             last[e] = "success" /\ last'[e] = "timeout" => left'[e] = 1]_breakerVars
    BY FirstBackoff
       DEF BreakerTypeOK, FreshStreak, BreakerNext, breakerVars, RecordSuccess, RecordFailure,
           RecordConnectionFailure, Tick
  <1>4. BreakerSpec => []BreakerTypeOK
    BY BreakerInvariant, PTL DEF BInv
  <1> QED BY <1>1, <1>2, <1>3, <1>4, PTL DEF BreakerSpec, SuccessForgets

-------------------------------------------------------------------------------
\* The fan-out sees of the breaker the set of open keys.
OpenKeys == {e \in Engines : IsOpen(e)}

\* The fan-out's view of the breaker is sound: at most one key is added at a time,
\* by a failure reported for it, and all else that happens to the set is that windows
\* end, as WindowEnds has it.
THEOREM SetViewSound ==
  BreakerSpec => [][OpenKeys' \subseteq OpenKeys
                    \/ \E e \in Engines : /\ OpenKeys' = OpenKeys \cup {e}
                                          /\ streak'[e] = streak[e] + 1
                                          /\ last'[e] \in {"timeout", "connect"}]_breakerVars
<1>1. ASSUME BreakerTypeOK, [BreakerNext]_breakerVars
      PROVE  OpenKeys' \subseteq OpenKeys
             \/ \E e \in Engines : /\ OpenKeys' = OpenKeys \cup {e}
                                   /\ streak'[e] = streak[e] + 1
                                   /\ last'[e] \in {"timeout", "connect"}
  <2> USE <1>1, WindowsAssumption DEF BreakerTypeOK, OpenKeys, IsOpen
  <2>1. ASSUME NEW e \in Engines, RecordSuccess(e)
        PROVE  OpenKeys' \subseteq OpenKeys
    BY <2>1 DEF RecordSuccess
  <2>2. ASSUME NEW e \in Engines, RecordFailure(e) \/ RecordConnectionFailure(e), left'[e] > 0
        PROVE  /\ OpenKeys' = OpenKeys \cup {e} /\ streak'[e] = streak[e] + 1
               /\ last'[e] \in {"timeout", "connect"}
    BY <2>2 DEF RecordFailure, RecordConnectionFailure
  <2>3. ASSUME NEW e \in Engines, RecordFailure(e) \/ RecordConnectionFailure(e), ~(left'[e] > 0)
        PROVE  OpenKeys' \subseteq OpenKeys
    BY <2>3 DEF RecordFailure, RecordConnectionFailure
  <2>4. CASE Tick
    BY <2>4 DEF Tick
  <2>5. CASE UNCHANGED breakerVars
    BY <2>5 DEF breakerVars
  <2> QED
    BY <2>1, <2>2, <2>3, <2>4, <2>5 DEF BreakerNext
<1>2. BreakerSpec => []BreakerTypeOK
  BY BreakerInvariant, PTL DEF BInv
<1> QED
  BY <1>1, <1>2, PTL DEF BreakerSpec
===============================================================================
