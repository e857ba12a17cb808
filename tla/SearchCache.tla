----------------------------- MODULE SearchCache -----------------------------
(***************************************************************************)
(* The response cache of the gateway (SearchCache): entries with a size, a *)
(* birth time and a time to live, bounded in bytes and in number.  One     *)
(* mutex serialises get and put; the eviction loop of put is spelled out,  *)
(* one entry per step, with the mutex held.                                *)
(***************************************************************************)
EXTENDS Naturals, FiniteSets

CONSTANTS
  Keys,           \* cache keys
  Sizes,          \* sizes of response bodies
  MaxBytes,       \* SEARCH_CACHE_MAX_BYTES
  MaxEntries,     \* SEARCH_CACHE_MAX_ENTRIES
  MaxEntryBytes,  \* SEARCH_CACHE_MAX_ENTRY_BYTES
  Ttls,           \* the ttls the handlers pass (300 s; 600 s for goals)
  MaxPuts,        \* bound: number of puts
  MaxTime,        \* bound: clock
  None            \* no body, no put yet

ASSUME SizesAssumption == Sizes \subseteq Nat \ {0}
ASSUME LimitsAssumption ==
  /\ MaxBytes \in Nat /\ MaxEntries \in Nat \ {0}
  /\ MaxEntryBytes \in 1..MaxBytes
  /\ Ttls \subseteq Nat \ {0}
ASSUME BoundsAssumption == MaxPuts \in Nat /\ MaxTime \in Nat

VARIABLES
  entries,   \* key -> entry, over the keys present
  pending,   \* by_age while the loop runs: the keys it has not removed yet
  used,      \* the loop's running total of bytes
  count,     \* the loop's running number of entries
  lock,      \* "free", or "evicting": a put holds the mutex
  newest,    \* when the last accepted put took place
  puts,      \* number of puts, which also names the bodies
  now,       \* clock
  out        \* result of the last get

vars == <<entries, pending, used, count, lock, newest, puts, now, out>>

Entry == [bytes : Sizes, at : 0..MaxTime, ttl : Ttls, body : 1..MaxPuts]

Fresh(e) == now - e.at < e.ttl
Present == DOMAIN entries
Without(S) == [k \in Present \ S |-> entries[k]]

\* The bytes of all bodies, each named by its key and its place.
BytesOf(es) == UNION {{k} \X (1..es[k].bytes) : k \in DOMAIN es}
TotalBytes(es) == Cardinality(BytesOf(es))
OverBudget(bytes, n) == bytes > MaxBytes \/ n > MaxEntries

Init ==
  /\ entries = [k \in {} |-> 0]
  /\ pending = {} /\ used = 0 /\ count = 0
  /\ lock = "free"
  /\ newest = None
  /\ puts = 0 /\ now = 0
  /\ out = None

-------------------------------------------------------------------------------

\* Mutant: the age of the entry is not looked at.
GetExpired(k) ==
  /\ lock = "free"
  /\ out' = IF k \in Present THEN entries[k].body ELSE None
  /\ UNCHANGED <<entries, pending, used, count, lock, newest, puts, now>>

Get(k) ==
  /\ lock = "free"
  /\ out' = IF k \in Present /\ Fresh(entries[k]) THEN entries[k].body ELSE None
  /\ UNCHANGED <<entries, pending, used, count, lock, newest, puts, now>>

\* A body larger than an entry may be leaves the cache as it is.
PutSkipped(k, n) ==
  /\ lock = "free"
  /\ puts < MaxPuts
  /\ n > MaxEntryBytes
  /\ puts' = puts + 1
  /\ UNCHANGED <<entries, pending, used, count, lock, newest, now, out>>

\* Insert, drop what has expired, and see whether the loop is needed.
Put(k, n, ttl) ==
  LET e == [bytes |-> n, at |-> now, ttl |-> ttl, body |-> puts + 1]
      inserted == [x \in Present \cup {k} |-> IF x = k THEN e ELSE entries[x]]
      kept == {x \in DOMAIN inserted : Fresh(inserted[x])}
      es == [x \in kept |-> inserted[x]]
  IN
  /\ lock = "free"
  /\ puts < MaxPuts
  /\ n <= MaxEntryBytes
  /\ puts' = puts + 1
  /\ newest' = now
  /\ entries' = es
  /\ IF OverBudget(TotalBytes(es), Cardinality(kept))
     THEN /\ lock' = "evicting"
          /\ pending' = kept
          /\ used' = TotalBytes(es)
          /\ count' = Cardinality(kept)
     ELSE UNCHANGED <<lock, pending, used, count>>
  /\ UNCHANGED <<now, out>>

\* Mutant: by_age sorted the other way.
EvictNewest(k) ==
  /\ lock = "evicting"
  /\ k \in pending
  /\ \A o \in pending : entries[k].at >= entries[o].at
  /\ OverBudget(used, count)
  /\ entries' = Without({k})
  /\ pending' = pending \ {k}
  /\ used' = IF used >= entries[k].bytes THEN used - entries[k].bytes ELSE 0
  /\ count' = count - 1
  /\ UNCHANGED <<lock, newest, puts, now, out>>

\* One turn of the loop: the oldest entry goes (any of them on a tie: by_age is
\* sorted by birth only, from a map without order).
EvictOldest(k) ==
  /\ lock = "evicting"
  /\ k \in pending
  /\ \A o \in pending : entries[k].at <= entries[o].at
  /\ OverBudget(used, count)
  /\ entries' = Without({k})
  /\ pending' = pending \ {k}
  /\ used' = IF used >= entries[k].bytes THEN used - entries[k].bytes ELSE 0
  /\ count' = count - 1
  /\ UNCHANGED <<lock, newest, puts, now, out>>

\* Mutant: one victim per put, no loop.
PutReturnsAfterOne ==
  /\ lock = "evicting"
  /\ lock' = "free"
  /\ pending' = {} /\ used' = 0 /\ count' = 0
  /\ UNCHANGED <<entries, newest, puts, now, out>>

\* The loop breaks within budget, or runs out of entries; the mutex is released.
PutReturns ==
  /\ lock = "evicting"
  /\ ~OverBudget(used, count) \/ pending = {}
  /\ lock' = "free"
  /\ pending' = {} /\ used' = 0 /\ count' = 0
  /\ UNCHANGED <<entries, newest, puts, now, out>>

Tick ==
  /\ now < MaxTime
  /\ now' = now + 1
  /\ UNCHANGED <<entries, pending, used, count, lock, newest, puts, out>>

Next ==
  \/ \E k \in Keys :
       \/ Get(k)
       \/ \E n \in Sizes : PutSkipped(k, n) \/ \E ttl \in Ttls : Put(k, n, ttl)
       \/ EvictOldest(k)
  \/ PutReturns
  \/ Tick

Spec == Init /\ [][Next]_vars

-------------------------------------------------------------------------------
TypeOK ==
  /\ Present \subseteq Keys
  /\ \A k \in Present : entries[k] \in Entry
  /\ pending \subseteq Keys
  /\ used \in Nat /\ count \in Nat
  /\ lock \in {"free", "evicting"}
  /\ newest \in (0..MaxTime) \cup {None}
  /\ puts \in 0..MaxPuts /\ now \in 0..MaxTime
  /\ out \in (1..MaxPuts) \cup {None}

\* Whenever the mutex is free the cache is within its byte budget and its entry
\* cap: the loop never stops early on totals that have drifted from the map.
WithinBudget ==
  lock = "free" => ~OverBudget(TotalBytes(entries), Cardinality(Present))

\* A response that was just cached is there when put returns, whatever had to be
\* evicted for it: only an entry born in the same instant can take its place.
NewestKept ==
  lock = "free" /\ newest # None => \E k \in Present : entries[k].at = newest

Contract == INSTANCE LossyCache WITH
  Bodies <- 1..MaxPuts,
  NoBody <- None,
  store <- [k \in Keys |-> IF k \in Present /\ Fresh(entries[k])
                           THEN entries[k].body ELSE None]

\* A hit is the body of the last accepted put under the key, younger than its
\* ttl; the cache never answers with anything else.
ImplementsContract == Contract!Spec
===============================================================================
