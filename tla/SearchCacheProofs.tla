-------------------------- MODULE SearchCacheProofs --------------------------
(***************************************************************************)
(* Proofs about the response cache, for any keys, sizes, lifetimes and     *)
(* limits: the eviction loop ends within both limits and never takes the   *)
(* entry it was started for, and the cache is a store that may forget but  *)
(* never answers with anything else than the last body put under a key.    *)
(***************************************************************************)
EXTENDS SearchCache, FiniteSetTheorems, TLAPS

-------------------------------------------------------------------------------
(* The bytes of a map.                                                     *)

\* The bytes of one body.
LEMMA BodyBytes ==
  ASSUME NEW k, NEW n \in Nat
  PROVE  IsFiniteSet({k} \X (1..n)) /\ Cardinality({k} \X (1..n)) = n
<1>1. IsFiniteSet({k}) /\ Cardinality({k}) = 1
  BY FS_Singleton
<1>2. IsFiniteSet(1..n) /\ Cardinality(1..n) = n
  BY FS_Interval
<1>3. /\ IsFiniteSet({k} \X (1..n))
      /\ Cardinality({k} \X (1..n)) = Cardinality({k}) * Cardinality(1..n)
  BY <1>1, <1>2, FS_Product
<1> QED
  BY <1>1, <1>2, <1>3

\* Removing a key takes away the bytes of its body, no more and no less.
LEMMA RemoveBytes ==
  ASSUME NEW es, NEW k \in DOMAIN es, es[k].bytes \in Nat, IsFiniteSet(BytesOf(es))
  PROVE  LET rest == [x \in DOMAIN es \ {k} |-> es[x]]
         IN  /\ IsFiniteSet(BytesOf(rest))
             /\ TotalBytes(es) \in Nat /\ TotalBytes(rest) \in Nat
             /\ TotalBytes(rest) = TotalBytes(es) - es[k].bytes
<1> DEFINE rest == [x \in DOMAIN es \ {k} |-> es[x]]
           gone == {k} \X (1..es[k].bytes)
<1>1. BytesOf(rest) = BytesOf(es) \ gone
  BY DEF BytesOf
<1>2. BytesOf(es) \cap gone = gone
  BY DEF BytesOf
<1>3. Cardinality(gone) = es[k].bytes
  BY BodyBytes
<1> HIDE DEF gone
<1>4. /\ IsFiniteSet(BytesOf(es) \ gone)
      /\ Cardinality(BytesOf(es) \ gone) = Cardinality(BytesOf(es)) - Cardinality(BytesOf(es) \cap gone)
  BY FS_Difference
<1>5. Cardinality(BytesOf(es)) \in Nat /\ Cardinality(BytesOf(rest)) \in Nat
  BY <1>1, <1>4, FS_CardinalityType
<1> QED
  BY <1>1, <1>2, <1>3, <1>4, <1>5 DEF TotalBytes

-------------------------------------------------------------------------------
(* The inductive invariant.                                                *)

Finite == IsFiniteSet(Present) /\ IsFiniteSet(BytesOf(entries))

\* The loop's totals are those of the map, and what is left of by_age is the map.
Tracked ==
  lock = "evicting" =>
    pending = Present /\ used = TotalBytes(entries) /\ count = Cardinality(Present)

\* What put accepted: each body fits alone, and none is from the future.
Accepted == \A k \in Present : entries[k].bytes <= MaxEntryBytes /\ entries[k].at <= now

\* The youngest entry is as old as the last accepted put, at any moment of the loop.
Youngest ==
  /\ newest # None => \E k \in Present : entries[k].at = newest
  /\ \A k \in Present : newest \in Nat /\ entries[k].at <= newest

IInv == TypeOK /\ Finite /\ Tracked /\ Accepted /\ Youngest /\ WithinBudget

USE SizesAssumption, LimitsAssumption, BoundsAssumption DEF Present

LEMMA EntryTypes ==
  ASSUME NEW e \in Entry
  PROVE  e.bytes \in Nat /\ e.at \in Nat /\ e.ttl \in Nat /\ e.body \in 1..MaxPuts
<1>1. e.bytes \in Sizes /\ e.at \in 0..MaxTime /\ e.ttl \in Ttls /\ e.body \in 1..MaxPuts
  BY DEF Entry
<1>2. Sizes \subseteq Nat /\ Ttls \subseteq Nat /\ 0..MaxTime \subseteq Nat
  OBVIOUS
<1> QED
  BY ONLY <1>1, <1>2

LEMMA InitIInv == Init => IInv
<1> SUFFICES ASSUME Init PROVE IInv
  OBVIOUS
<1>1. Present = {} /\ BytesOf(entries) = {}
  BY DEF Init, BytesOf
<1>2. TypeOK /\ Tracked /\ Accepted /\ Youngest
  BY <1>1 DEF Init, TypeOK, Tracked, Accepted, Youngest
<1>3. Finite /\ TotalBytes(entries) = 0 /\ Cardinality(Present) = 0
  BY <1>1, FS_EmptySet DEF Finite, TotalBytes
<1> QED
  BY <1>2, <1>3 DEF IInv, WithinBudget, OverBudget

LEMMA PutIInv ==
  ASSUME IInv, NEW k \in Keys, NEW n \in Sizes, NEW ttl \in Ttls, Put(k, n, ttl)
  PROVE  IInv'
<1> DEFINE e == [bytes |-> n, at |-> now, ttl |-> ttl, body |-> puts + 1]
           inserted == [x \in Present \cup {k} |-> IF x = k THEN e ELSE entries[x]]
           kept == {x \in DOMAIN inserted : Fresh(inserted[x])}
           es == [x \in kept |-> inserted[x]]
<1>1. /\ entries' = es /\ Present' = kept
      /\ puts' = puts + 1 /\ newest' = now /\ UNCHANGED <<now, out>>
      /\ puts < MaxPuts /\ n <= MaxEntryBytes /\ lock = "free"
  BY DEF Put
<1>2. TypeOK /\ now \in Nat /\ puts \in Nat
  BY DEF IInv, TypeOK
<1>3. e \in Entry
  BY <1>1, <1>2 DEF Entry, TypeOK
<1>4. kept \subseteq Present \cup {k} /\ k \in kept /\ inserted[k] = e
  <2>1. inserted[k] = e /\ DOMAIN inserted = Present \cup {k}
    OBVIOUS
  <2>2. e.at = now /\ e.ttl = ttl /\ ttl \in Nat \ {0}
    OBVIOUS
  <2>3. Fresh(e)
    BY <1>2, <2>2 DEF Fresh
  <2> QED
    BY <2>1, <2>3
<1>5. \A x \in kept : es[x] \in Entry /\ es[x].bytes <= MaxEntryBytes /\ es[x].at <= now
  BY <1>1, <1>2, <1>3, <1>4 DEF IInv, TypeOK, Accepted
<1>6. IsFiniteSet(kept)
  <2>1. IsFiniteSet(Present \cup {k})
    BY FS_AddElement DEF IInv, Finite
  <2> QED
    BY <1>4, <2>1, FS_Subset
<1>7. IsFiniteSet(BytesOf(es))
  <2>1. BytesOf(es) \subseteq BytesOf(entries) \cup ({k} \X (1..n))
    BY <1>4 DEF BytesOf
  <2>2. IsFiniteSet(BytesOf(entries) \cup ({k} \X (1..n)))
    BY BodyBytes, FS_Union DEF IInv, Finite
  <2> QED
    BY <2>1, <2>2, FS_Subset
<1>8. TotalBytes(es) \in Nat /\ Cardinality(kept) \in Nat
  BY <1>6, <1>7, FS_CardinalityType DEF TotalBytes
<1>9. Accepted' /\ Youngest' /\ Finite'
  BY <1>1, <1>2, <1>4, <1>5, <1>6, <1>7 DEF Accepted, Youngest, Finite
<1>10. kept \subseteq Keys
  BY <1>2, <1>4 DEF TypeOK
<1> HIDE DEF kept, es, inserted, e
<1>11. CASE OverBudget(TotalBytes(es), Cardinality(kept))
  <2>1. /\ lock' = "evicting" /\ pending' = kept
        /\ used' = TotalBytes(es) /\ count' = Cardinality(kept)
    BY <1>11 DEF Put, kept, es, inserted, e
  <2>2. TypeOK'
    BY <1>1, <1>2, <1>5, <1>8, <1>10, <2>1 DEF TypeOK, Entry
  <2> QED
    BY <1>1, <1>9, <2>1, <2>2 DEF IInv, Tracked, WithinBudget
<1>12. CASE ~OverBudget(TotalBytes(es), Cardinality(kept))
  <2>1. UNCHANGED <<lock, pending, used, count>>
    BY <1>12 DEF Put, kept, es, inserted, e
  <2>2. TypeOK'
    BY <1>1, <1>2, <1>5, <1>10, <2>1 DEF TypeOK, Entry
  <2> QED
    BY <1>1, <1>9, <1>12, <2>1, <2>2 DEF IInv, Tracked, WithinBudget, OverBudget
<1> QED
  BY <1>11, <1>12

\* A single body is never over budget: the loop ends before it takes the last one.
LEMMA OneBodyFits ==
  ASSUME IInv, lock = "evicting", NEW k \in Present, Present = {k}
  PROVE  ~OverBudget(used, count)
<1>1. entries[k].bytes \in Nat /\ entries[k].bytes <= MaxEntryBytes
  BY DEF IInv, TypeOK, Accepted, Entry
<1>2. BytesOf(entries) = {k} \X (1..entries[k].bytes)
  BY DEF BytesOf
<1>3. TotalBytes(entries) = entries[k].bytes
  BY <1>1, <1>2, BodyBytes DEF TotalBytes
<1>4. Cardinality(Present) = 1
  BY FS_Singleton
<1> QED
  BY <1>1, <1>3, <1>4 DEF IInv, Tracked, OverBudget

LEMMA EvictIInv ==
  ASSUME IInv, NEW k \in Keys, EvictOldest(k)
  PROVE  IInv'
<1>1. /\ lock = "evicting" /\ k \in pending /\ \A o \in pending : entries[k].at <= entries[o].at
      /\ entries' = Without({k}) /\ pending' = pending \ {k}
      /\ used' = IF used >= entries[k].bytes THEN used - entries[k].bytes ELSE 0
      /\ count' = count - 1
      /\ UNCHANGED <<lock, newest, puts, now, out>>
      /\ OverBudget(used, count)
  BY DEF EvictOldest
<1>2. pending = Present /\ used = TotalBytes(entries) /\ count = Cardinality(Present)
  BY <1>1 DEF IInv, Tracked
<1>3. /\ Present' = Present \ {k}
      /\ entries' = [x \in Present \ {k} |-> entries[x]]
      /\ \A x \in Present \ {k} : entries'[x] = entries[x]
  BY <1>1 DEF Without
<1>4. entries[k].bytes \in Nat /\ \A x \in Present : entries[x].at \in Nat
  <2>1. \A x \in Present : entries[x] \in Entry
    BY DEF IInv, TypeOK
  <2>2. k \in Present
    BY <1>1, <1>2
  <2> QED
    BY ONLY <2>1, <2>2, EntryTypes
<1>5. /\ IsFiniteSet(BytesOf(entries')) /\ TotalBytes(entries) \in Nat
      /\ TotalBytes(entries') \in Nat
      /\ TotalBytes(entries') = TotalBytes(entries) - entries[k].bytes
  BY <1>1, <1>2, <1>3, <1>4, RemoveBytes DEF IInv, Finite
<1>6. /\ IsFiniteSet(Present')
      /\ Cardinality(Present') = Cardinality(Present) - 1 /\ Cardinality(Present') \in Nat
  BY <1>1, <1>2, <1>3, FS_RemoveElement, FS_CardinalityType DEF IInv, Finite
<1>7. Tracked' /\ Finite' /\ used' \in Nat /\ count' \in Nat
  <2>1. used >= entries[k].bytes /\ used' = TotalBytes(entries')
    BY <1>1, <1>2, <1>4, <1>5
  <2>2. count' = Cardinality(Present') /\ pending' = Present'
    BY <1>1, <1>2, <1>3, <1>6
  <2> QED
    BY <1>5, <1>6, <2>1, <2>2 DEF Tracked, Finite, TotalBytes
<1>8. TypeOK'
  BY <1>1, <1>3, <1>7 DEF IInv, TypeOK, Entry
<1>9. Accepted'
  BY <1>1, <1>3 DEF IInv, Accepted
<1>10. Youngest'
  <2>1. PICK o \in Present : o # k
    BY <1>1, <1>2, OneBodyFits
  <2>2. ASSUME newest # None, entries[k].at = newest PROVE entries[o].at = newest
    BY <1>1, <1>2, <1>4, <2>1, <2>2 DEF IInv, Youngest
  <2> QED
    BY <1>1, <1>3, <2>1, <2>2 DEF IInv, Youngest
<1> QED
  BY <1>1, <1>7, <1>8, <1>9, <1>10 DEF IInv, WithinBudget

LEMMA ReturnIInv ==
  ASSUME IInv, PutReturns
  PROVE  IInv'
<1>1. /\ lock = "evicting" /\ lock' = "free" /\ pending' = {} /\ used' = 0 /\ count' = 0
      /\ UNCHANGED <<entries, newest, puts, now, out>>
  BY DEF PutReturns
<1>2. ~OverBudget(TotalBytes(entries), Cardinality(Present))
  <2>1. CASE pending = {}
    <3>1. Present = {} /\ BytesOf(entries) = {}
      BY <1>1, <2>1 DEF IInv, Tracked, BytesOf
    <3> QED
      BY <3>1, FS_EmptySet DEF OverBudget, TotalBytes
  <2> QED
    BY <1>1, <2>1 DEF IInv, Tracked, PutReturns
<1> QED
  BY <1>1, <1>2 DEF IInv, TypeOK, Finite, Tracked, Accepted, Youngest, WithinBudget

LEMMA StepIInv == IInv /\ [Next]_vars => IInv'
<1> SUFFICES ASSUME IInv, [Next]_vars PROVE IInv'
  OBVIOUS
<1>1. ASSUME NEW k \in Keys, Get(k) PROVE IInv'
  <2>1. out' \in (1..MaxPuts) \cup {None}
    BY <1>1 DEF Get, IInv, TypeOK, Entry
  <2> QED
    BY <1>1, <2>1 DEF Get, IInv, TypeOK, Finite, Tracked, Accepted, Youngest, WithinBudget
<1>2. ASSUME NEW k \in Keys, NEW n \in Sizes, PutSkipped(k, n) PROVE IInv'
  BY <1>2 DEF PutSkipped, IInv, TypeOK, Finite, Tracked, Accepted, Youngest, WithinBudget
<1>3. ASSUME NEW k \in Keys, NEW n \in Sizes, NEW ttl \in Ttls, Put(k, n, ttl) PROVE IInv'
  BY <1>3, PutIInv
<1>4. ASSUME NEW k \in Keys, EvictOldest(k) PROVE IInv'
  BY <1>4, EvictIInv
<1>5. CASE PutReturns
  BY <1>5, ReturnIInv
<1>6. CASE Tick
  <2>1. now' = now + 1 /\ now \in Nat /\ now' \in 0..MaxTime
    BY <1>6 DEF Tick, IInv, TypeOK
  <2>2. \A k \in Present : entries[k].at \in Nat
    BY DEF IInv, TypeOK, Entry
  <2> QED
    BY <1>6, <2>1, <2>2 DEF Tick, IInv, TypeOK, Finite, Tracked, Accepted, Youngest, WithinBudget
<1>7. CASE UNCHANGED vars
  BY <1>7 DEF vars, IInv, TypeOK, Finite, Tracked, Accepted, Youngest, WithinBudget
<1> QED
  BY <1>1, <1>2, <1>3, <1>4, <1>5, <1>6, <1>7 DEF Next

LEMMA Inductive == Spec => []IInv
BY InitIInv, StepIInv, PTL DEF Spec

\* Every variable keeps its type.
THEOREM TypeCorrect == Spec => []TypeOK
<1>1. IInv => TypeOK
  BY DEF IInv
<1> QED
  BY <1>1, Inductive, PTL

\* Whenever the mutex is free, the map is within its bytes and its entries.
THEOREM BudgetKept == Spec => []WithinBudget
<1>1. IInv => WithinBudget
  BY DEF IInv
<1> QED
  BY <1>1, Inductive, PTL

\* When put returns, an entry born at that moment is in the map.
THEOREM NewestSurvives == Spec => []NewestKept
<1>1. IInv => NewestKept
  BY DEF IInv, Youngest, NewestKept
<1> QED
  BY <1>1, Inductive, PTL

-------------------------------------------------------------------------------
(* The cache implements LossyCache.                                        *)

Held == [k \in Keys |-> IF k \in Present /\ Fresh(entries[k]) THEN entries[k].body ELSE None]

\* Steps that leave what a get would find.
LEMMA Unseen ==
  ASSUME UNCHANGED <<entries, now, out>>
  PROVE  UNCHANGED Contract!vars
BY DEF Contract!vars, Fresh

\* A put is a put: what it drops had expired, and no get would have found it.
LEMMA PutMaps ==
  ASSUME TypeOK, NEW k \in Keys, NEW n \in Sizes, NEW ttl \in Ttls, Put(k, n, ttl)
  PROVE  Contract!Next
<1> DEFINE e == [bytes |-> n, at |-> now, ttl |-> ttl, body |-> puts + 1]
           inserted == [x \in Present \cup {k} |-> IF x = k THEN e ELSE entries[x]]
           kept == {x \in DOMAIN inserted : Fresh(inserted[x])}
<1>1. /\ entries' = [x \in kept |-> inserted[x]] /\ Present' = kept
      /\ UNCHANGED <<now, out>> /\ puts < MaxPuts
  BY DEF Put
<1>2. puts + 1 \in 1..MaxPuts
  BY <1>1 DEF TypeOK
<1>3. Fresh(e)
  <2>1. e.at = now /\ e.ttl = ttl /\ ttl \in Nat \ {0} /\ now \in Nat
    BY DEF TypeOK
  <2> QED
    BY <2>1 DEF Fresh
<1>4. k \in kept /\ inserted[k].body = puts + 1
  BY <1>3
<1>5. \A x \in Keys \ {k} : x \in kept <=> x \in Present /\ Fresh(entries[x])
  OBVIOUS
<1>6. \A x \in kept \ {k} : inserted[x] = entries[x]
  OBVIOUS
<1>7. \A x \in kept : Fresh(inserted[x])
  OBVIOUS
<1> HIDE DEF kept, inserted, e
<1>8. Held' = [Held EXCEPT ![k] = puts + 1]
  BY <1>1, <1>4, <1>5, <1>6, <1>7 DEF Held, Fresh
<1>9. PICK b \in 1..MaxPuts : b = puts + 1
  BY <1>2
<1>10. Contract!Put(k, b)
  BY <1>1, <1>8, <1>9 DEF Contract!Put, Held
<1> QED
  BY <1>10 DEF Contract!Next

LEMMA EvictMaps ==
  ASSUME NEW k \in Keys, EvictOldest(k)
  PROVE  Contract!Next
<1>1. entries' = [x \in Present \ {k} |-> entries[x]] /\ UNCHANGED <<now, out>>
  BY DEF EvictOldest, Without
<1>2. Contract!Forget({k})
  BY <1>1 DEF Contract!Forget, Fresh
<1> QED
  BY <1>2 DEF Contract!Next

\* Time makes a get find less, never anything else.
LEMMA TickMaps ==
  ASSUME TypeOK, Tick
  PROVE  Contract!Next
<1> DEFINE expired == {k \in Keys : ~(k \in Present /\ now' - entries[k].at < entries[k].ttl)}
<1>1. now' = now + 1 /\ now \in Nat /\ UNCHANGED <<entries, out>>
  BY DEF Tick, TypeOK
<1>2. \A k \in Present : entries[k].at \in Int /\ entries[k].ttl \in Int
  <2>1. \A k \in Present : entries[k] \in Entry
    BY DEF TypeOK
  <2> QED
    BY ONLY <2>1, EntryTypes
<1>3. \A k \in Present : now' - entries[k].at < entries[k].ttl => Fresh(entries[k])
  BY <1>1, <1>2 DEF Fresh
<1>4. PICK ks \in SUBSET Keys : ks = expired
  OBVIOUS
<1>5. Contract!Forget(ks)
  BY <1>1, <1>3, <1>4 DEF Contract!Forget, Fresh
<1> QED
  BY <1>5 DEF Contract!Next

LEMMA StepMaps == TypeOK /\ [Next]_vars => [Contract!Next]_(Contract!vars)
<1> SUFFICES ASSUME TypeOK, [Next]_vars PROVE [Contract!Next]_(Contract!vars)
  OBVIOUS
<1>1. ASSUME NEW k \in Keys, Get(k) PROVE Contract!Next
  <2>1. out' = Held[k] /\ UNCHANGED <<entries, now>>
    BY <1>1 DEF Get, Held
  <2>2. Contract!Get(k)
    BY <2>1 DEF Contract!Get, Held, Fresh
  <2> QED
    BY <2>2 DEF Contract!Next
<1>2. ASSUME NEW k \in Keys, NEW n \in Sizes, PutSkipped(k, n) PROVE UNCHANGED Contract!vars
  BY <1>2, Unseen DEF PutSkipped
<1>3. ASSUME NEW k \in Keys, NEW n \in Sizes, NEW ttl \in Ttls, Put(k, n, ttl)
      PROVE  Contract!Next
  BY <1>3, PutMaps
<1>4. ASSUME NEW k \in Keys, EvictOldest(k) PROVE Contract!Next
  BY <1>4, EvictMaps
<1>5. CASE PutReturns
  BY <1>5, Unseen DEF PutReturns
<1>6. CASE Tick
  BY <1>6, TickMaps
<1>7. CASE UNCHANGED vars
  BY <1>7, Unseen DEF vars
<1> QED
  BY <1>1, <1>2, <1>3, <1>4, <1>5, <1>6, <1>7 DEF Next

\* The cache answers with the body of the last accepted put under the key, while
\* it is younger than its time to live, or with nothing.
THEOREM Implementation == Spec => ImplementsContract
<1>1. Init => Contract!Init
  BY DEF Init, Contract!Init
<1> QED
  BY <1>1, StepMaps, TypeCorrect, PTL DEF Spec, ImplementsContract, Contract!Spec
===============================================================================
