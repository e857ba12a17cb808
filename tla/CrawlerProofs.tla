---------------------------- MODULE CrawlerProofs ----------------------------
(***************************************************************************)
(* Proofs about the crawler, for every set of URLs, links, payloads,       *)
(* bounds and number of restarts.  The seen set: its size stays within its *)
(* capacity and its generations stay disjoint, reloads included.  The      *)
(* snapshot file: it is complete at all times and the last save survives.  *)
(* The queue and its worker: the queue keeps its bound, no URL is worked   *)
(* on twice while the seen set has room for all of them, a batch never has *)
(* two pages of a domain, no URL is lost while the process lives.          *)
(***************************************************************************)
EXTENDS Crawler, SeenSetMachine, SnapshotFile, FiniteSetTheorems, FunctionTheorems, SequenceTheorems, TLAPS

-------------------------------------------------------------------------------
(* The bounded set of seen URLs.                                           *)

LEMMA HalfFits == Half \in Nat \ {0} /\ Cap \in Nat /\ Half + Half <= Cap
  <1>1. Cap \in Nat /\ Cap >= 2
    BY CapacityAssumption DEF Cap
  <1>2. \A c \in Nat : c >= 2 => c \div 2 \in Nat \ {0} /\ (c \div 2) + (c \div 2) <= c
    OBVIOUS
  <1> QED BY <1>1, <1>2 DEF Half

\* The older generation is empty or exactly one half, a full younger one, and
\* the URL that made it old is in the younger one.
WellFormed(s) ==
  /\ s \in SeenSets
  /\ IsFiniteSet(s.old) /\ IsFiniteSet(s.cur)
  /\ s.old \cap s.cur = {}
  /\ Cardinality(s.old) \in {0, Half}
  /\ Cardinality(s.cur) <= Half
  /\ s.old # {} => s.cur # {}

LEMMA EmptyWellFormed == WellFormed(EmptySeen)
  BY HalfFits, FS_EmptySet DEF WellFormed, EmptySeen, SeenSets

LEMMA InsertWellFormed ==
  ASSUME NEW s, WellFormed(s), NEW u \in Urls
  PROVE  WellFormed(Insert(s, u))
  <1>1. CASE Contains(s, u)
    BY <1>1 DEF Insert
  <1>2. CASE ~Contains(s, u) /\ Cardinality(s.cur) >= Half
    <2> DEFINE t == [old |-> s.cur, cur |-> {u}]
    <2>1. Insert(s, u) = t
      BY <1>2 DEF Insert
    <2>2. Cardinality(s.cur) = Half
      BY <1>2, HalfFits, FS_CardinalityType DEF WellFormed
    <2>3. IsFiniteSet({u}) /\ Cardinality({u}) = 1
      BY FS_Singleton
    <2>4. t.old = s.cur /\ t.cur = {u} /\ t \in SeenSets
      BY DEF WellFormed, SeenSets
    <2>5. t.old \cap t.cur = {}
      BY <1>2, <2>4 DEF Contains
    <2>6. Cardinality(t.old) \in {0, Half} /\ Cardinality(t.cur) <= Half
      BY <2>2, <2>3, <2>4, HalfFits
    <2> HIDE DEF t
    <2> QED BY <2>1, <2>3, <2>4, <2>5, <2>6 DEF WellFormed
  <1>3. CASE ~Contains(s, u) /\ ~(Cardinality(s.cur) >= Half)
    <2> DEFINE t == [s EXCEPT !.cur = @ \cup {u}]
    <2>1. Insert(s, u) = t
      BY <1>3 DEF Insert
    <2>2. t.old = s.old /\ t.cur = s.cur \cup {u} /\ t \in SeenSets
      BY DEF WellFormed, SeenSets
    <2>3. IsFiniteSet(t.cur) /\ Cardinality(t.cur) = Cardinality(s.cur) + 1
      BY <1>3, <2>2, FS_AddElement DEF WellFormed, Contains
    <2>4. Cardinality(t.cur) <= Half
      BY <1>3, <2>3, HalfFits, FS_CardinalityType DEF WellFormed
    <2>5. t.old \cap t.cur = {}
      BY <1>3, <2>2 DEF WellFormed, Contains
    <2> HIDE DEF t
    <2> QED BY <2>1, <2>2, <2>3, <2>4, <2>5 DEF WellFormed
  <1> QED BY <1>1, <1>2, <1>3

\* An insert keeps what the younger generation holds: only the older one is
\* forgotten, and only by a rotation.
LEMMA InsertKeepsCur ==
  ASSUME NEW s, WellFormed(s), NEW u \in Urls, ~Contains(s, u)
  PROVE  LET t == Insert(s, u) IN
         \/ t.old = s.old /\ t.cur = s.cur \cup {u} /\ Cardinality(s.cur) < Half
         \/ t.old = s.cur /\ t.cur = {u} /\ Cardinality(s.cur) = Half
  <1>1. Cardinality(s.cur) \in Nat /\ Cardinality(s.cur) <= Half /\ Half \in Nat
    BY HalfFits, FS_CardinalityType DEF WellFormed
  <1>2. CASE Cardinality(s.cur) >= Half
    BY <1>1, <1>2 DEF Insert
  <1>3. CASE ~(Cardinality(s.cur) >= Half)
    BY <1>1, <1>3 DEF Insert, WellFormed, SeenSets
  <1> QED BY <1>2, <1>3

-------------------------------------------------------------------------------
(* The array of a snapshot: each generation in some order, none repeated.  *)

Elements(v, i, j) == {v[n] : n \in i..j}

NoRepeats(v) == \A i, j \in 1..Len(v) : v[i] = v[j] => i = j

LEMMA OrderOfSet ==
  ASSUME NEW S \in SUBSET Urls, IsFiniteSet(S), NEW v \in Orders(S)
  PROVE  /\ v \in Seq(Urls)
         /\ Len(v) = Cardinality(S)
         /\ NoRepeats(v)
         /\ Elements(v, 1, Len(v)) = S
  <1> DEFINE D == 1..Cardinality(S)
  <1>1. Cardinality(S) \in Nat
    BY FS_CardinalityType
  <1>2. v \in [D -> S] /\ (\A i, j \in D : v[i] = v[j] => i = j)
    BY Fun_InjectionProperties DEF Orders
  <1>3. v \in Injection(D, S)
    BY DEF Orders
  <1>4. Cardinality(D) = Cardinality(S)
    BY <1>1, FS_Interval
  <1>5. v \in Surjection(D, S)
    BY <1>3, <1>4, FS_Injection
  <1>6. \A u \in S : \E i \in D : v[i] = u
    BY <1>5 DEF Surjection
  <1>7. v \in Seq(Urls) /\ Len(v) = Cardinality(S)
    BY <1>1, <1>2
  <1> QED BY <1>2, <1>6, <1>7 DEF NoRepeats, Elements

LEMMA VectorOfSet ==
  ASSUME NEW s, WellFormed(s), NEW v \in Vectors(s)
  PROVE  /\ v \in Seq(Urls)
         /\ NoRepeats(v)
         /\ \E n \in 0..Len(v) : /\ Elements(v, 1, n) = s.old
                                 /\ Elements(v, n + 1, Len(v)) = s.cur
  <1>1. PICK o \in Orders(s.old), c \in Orders(s.cur) : v = o \o c
    BY DEF Vectors
  <1>2. s.old \in SUBSET Urls /\ s.cur \in SUBSET Urls
    BY DEF WellFormed, SeenSets
  <1>3. /\ o \in Seq(Urls) /\ NoRepeats(o) /\ Elements(o, 1, Len(o)) = s.old
        /\ c \in Seq(Urls) /\ NoRepeats(c) /\ Elements(c, 1, Len(c)) = s.cur
    BY <1>2, OrderOfSet DEF WellFormed
  <1>4. /\ v \in Seq(Urls) /\ Len(v) = Len(o) + Len(c)
        /\ \A i \in 1..Len(v) : v[i] = IF i <= Len(o) THEN o[i] ELSE c[i - Len(o)]
    BY <1>1, <1>3
  <1>5. \A i \in 1..Len(o) : o[i] \in s.old
    BY <1>3 DEF Elements
  <1>6. \A i \in 1..Len(c) : c[i] \in s.cur
    BY <1>3 DEF Elements
  <1>7. NoRepeats(v)
    <2>1. Len(o) \in Nat /\ Len(c) \in Nat
      BY <1>3
    <2>2. ASSUME NEW i \in 1..Len(v), NEW j \in 1..Len(v), v[i] = v[j]
          PROVE  i = j
      <3>1. CASE i <= Len(o) /\ j <= Len(o)
        <4>1. i \in 1..Len(o) /\ j \in 1..Len(o) /\ o[i] = o[j]
          BY <1>4, <2>1, <2>2, <3>1
        <4> QED BY <1>3, <4>1 DEF NoRepeats
      <3>2. CASE i > Len(o) /\ j > Len(o)
        <4>1. i - Len(o) \in 1..Len(c) /\ j - Len(o) \in 1..Len(c)
          BY <1>4, <2>1, <3>2
        <4>2. c[i - Len(o)] = c[j - Len(o)]
          BY <1>4, <2>1, <2>2, <3>2
        <4>3. i - Len(o) = j - Len(o)
          BY <1>3, <4>1, <4>2 DEF NoRepeats
        <4> QED BY <2>1, <4>3
      <3>3. CASE i <= Len(o) /\ j > Len(o)
        <4>1. v[i] \in s.old /\ v[j] \in s.cur
          BY <1>4, <1>5, <1>6, <2>1, <3>3
        <4> QED BY <2>2, <4>1 DEF WellFormed
      <3>4. CASE i > Len(o) /\ j <= Len(o)
        <4>1. v[j] \in s.old
          BY <1>4, <1>5, <2>1, <3>4
        <4>2. v[i] \in s.cur
          BY <1>4, <1>6, <2>1, <3>4
        <4> QED BY <2>2, <4>1, <4>2 DEF WellFormed
      <3> QED BY <1>4, <2>1, <3>1, <3>2, <3>3, <3>4
    <2> QED BY <2>2 DEF NoRepeats
  <1>8. Elements(v, 1, Len(o)) = s.old
    BY <1>3, <1>4 DEF Elements
  <1>9. Elements(v, Len(o) + 1, Len(v)) = s.cur
    <2>1. ASSUME NEW i \in (Len(o) + 1)..Len(v) PROVE v[i] \in s.cur
      BY <1>3, <1>4, <1>6
    <2>2. ASSUME NEW u \in s.cur PROVE \E i \in (Len(o) + 1)..Len(v) : v[i] = u
      <3>1. PICK m \in 1..Len(c) : c[m] = u
        BY <1>3, <2>2 DEF Elements
      <3>2. Len(o) \in Nat /\ Len(c) \in Nat /\ Len(v) = Len(o) + Len(c)
        BY <1>3, <1>4
      <3>3. m + Len(o) \in (Len(o) + 1)..Len(v) /\ m + Len(o) \in 1..Len(v)
        BY <3>2
      <3>4. ~(m + Len(o) <= Len(o)) /\ (m + Len(o)) - Len(o) = m
        BY <3>2
      <3>5. v[m + Len(o)] = c[m]
        BY <1>4, <3>3, <3>4
      <3> QED BY <3>1, <3>3, <3>5
    <2> QED BY <2>1, <2>2 DEF Elements
  <1> QED BY <1>3, <1>4, <1>7, <1>8, <1>9

LEMMA ElementsOfTail ==
  ASSUME NEW v \in Seq(Urls), v # <<>>, NoRepeats(v)
  PROVE  /\ Head(v) = v[1] /\ v[1] \in Urls /\ Tail(v) \in Seq(Urls)
         /\ NoRepeats(Tail(v))
         /\ \A i \in 1..Len(Tail(v)) : Tail(v)[i] = v[i + 1] /\ Tail(v)[i] # v[1]
         /\ \A n \in 1..Len(v) :
              /\ Elements(v, 1, n) = {v[1]} \cup Elements(Tail(v), 1, n - 1)
              /\ Elements(v, n + 1, Len(v)) = Elements(Tail(v), n, Len(Tail(v)))
  <1>1. /\ Head(v) = v[1] /\ v[1] \in Urls /\ Tail(v) \in Seq(Urls)
        /\ Len(v) \in Nat \ {0} /\ Len(Tail(v)) = Len(v) - 1
        /\ \A i \in 1..Len(Tail(v)) : Tail(v)[i] = v[i + 1]
    OBVIOUS
  <1>2. \A i \in 1..Len(Tail(v)) : i + 1 \in 1..Len(v) /\ i + 1 # 1 /\ 1 \in 1..Len(v)
    BY <1>1
  <1>3. \A i \in 1..Len(Tail(v)) : Tail(v)[i] # v[1]
    BY <1>1, <1>2 DEF NoRepeats
  <1>4. NoRepeats(Tail(v))
    <2>1. ASSUME NEW i \in 1..Len(Tail(v)), NEW j \in 1..Len(Tail(v)), Tail(v)[i] = Tail(v)[j]
          PROVE  i = j
      <3>1. i + 1 = j + 1
        BY <1>1, <1>2, <2>1 DEF NoRepeats
      <3> QED BY <3>1
    <2> QED BY <2>1 DEF NoRepeats
  <1>5. ASSUME NEW n \in 1..Len(v)
        PROVE  Elements(v, 1, n) = {v[1]} \cup Elements(Tail(v), 1, n - 1)
    <2>1. ASSUME NEW i \in 1..n PROVE v[i] = v[1] \/ \E j \in 1..(n - 1) : Tail(v)[j] = v[i]
      <3>1. CASE i # 1
        <4>1. i - 1 \in 1..(n - 1) /\ Tail(v)[i - 1] = v[i]
          BY <1>1, <3>1
        <4> QED BY <4>1
      <3> QED BY <3>1
    <2>2. ASSUME NEW j \in 1..(n - 1) PROVE \E i \in 1..n : v[i] = Tail(v)[j]
      <3>1. j + 1 \in 1..n /\ Tail(v)[j] = v[j + 1]
        BY <1>1
      <3> QED BY <3>1
    <2>3. 1 \in 1..n
      OBVIOUS
    <2>4. ASSUME NEW x \in Elements(v, 1, n) PROVE x \in {v[1]} \cup Elements(Tail(v), 1, n - 1)
      <3>1. PICK i \in 1..n : v[i] = x
        BY DEF Elements
      <3>2. CASE v[i] = v[1]
        BY <3>1, <3>2
      <3>3. CASE \E j \in 1..(n - 1) : Tail(v)[j] = v[i]
        BY <3>1, <3>3 DEF Elements
      <3> QED BY <2>1, <3>2, <3>3
    <2>5. ASSUME NEW x \in Elements(Tail(v), 1, n - 1) PROVE x \in Elements(v, 1, n)
      <3>1. PICK j \in 1..(n - 1) : Tail(v)[j] = x
        BY DEF Elements
      <3>2. PICK i \in 1..n : v[i] = Tail(v)[j]
        BY <2>2
      <3> QED BY <3>1, <3>2 DEF Elements
    <2>6. v[1] \in Elements(v, 1, n)
      BY <2>3 DEF Elements
    <2> QED BY <2>4, <2>5, <2>6
  <1>6. ASSUME NEW n \in 1..Len(v)
        PROVE  Elements(v, n + 1, Len(v)) = Elements(Tail(v), n, Len(Tail(v)))
    <2>1. ASSUME NEW i \in (n + 1)..Len(v) PROVE \E j \in n..Len(Tail(v)) : Tail(v)[j] = v[i]
      <3>1. i - 1 \in n..Len(Tail(v)) /\ Tail(v)[i - 1] = v[i]
        BY <1>1
      <3> QED BY <3>1
    <2>2. ASSUME NEW j \in n..Len(Tail(v)) PROVE \E i \in (n + 1)..Len(v) : v[i] = Tail(v)[j]
      <3>1. j + 1 \in (n + 1)..Len(v) /\ Tail(v)[j] = v[j + 1]
        BY <1>1
      <3> QED BY <3>1
    <2>3. ASSUME NEW x \in Elements(v, n + 1, Len(v)) PROVE x \in Elements(Tail(v), n, Len(Tail(v)))
      <3>1. PICK i \in (n + 1)..Len(v) : v[i] = x
        BY DEF Elements
      <3>2. PICK j \in n..Len(Tail(v)) : Tail(v)[j] = v[i]
        BY <2>1
      <3> QED BY <3>1, <3>2 DEF Elements
    <2>4. ASSUME NEW x \in Elements(Tail(v), n, Len(Tail(v))) PROVE x \in Elements(v, n + 1, Len(v))
      <3>1. PICK j \in n..Len(Tail(v)) : Tail(v)[j] = x
        BY DEF Elements
      <3>2. PICK i \in (n + 1)..Len(v) : v[i] = Tail(v)[j]
        BY <2>2
      <3> QED BY <3>1, <3>2 DEF Elements
    <2> QED BY <2>3, <2>4
  <1> QED BY <1>1, <1>3, <1>4, <1>5, <1>6

-------------------------------------------------------------------------------
(* Where a reload stands.                                                  *)

\* The older generation is being rebuilt, in the younger one's place.
OldPhase ==
  /\ set.old = {}
  /\ \E n \in 0..Len(vec) : /\ set.cur \cup Elements(vec, 1, n) = origin.old
                            /\ Elements(vec, n + 1, Len(vec)) = origin.cur

\* The older generation is back; the younger one is being rebuilt.
CurPhase ==
  /\ set.old = origin.old
  /\ set.cur \cup Elements(vec, 1, Len(vec)) = origin.cur

Reload ==
  mode = "loading" =>
    /\ WellFormed(origin)
    /\ NoRepeats(vec)
    /\ \A i \in 1..Len(vec) : vec[i] \notin set.cur
    /\ OldPhase \/ CurPhase

SInv == WellFormed(set) /\ vec \in Seq(Urls) /\ Reload

\* A generation that lacks one URL of a well-formed one has room for it.
LEMMA Room ==
  ASSUME NEW S, NEW T, IsFiniteSet(T), Cardinality(T) <= Half,
         S \subseteq T, NEW u \in T, u \notin S
  PROVE  Cardinality(S) < Half
  <1>1. /\ IsFiniteSet(S) /\ Cardinality(S) <= Cardinality(T)
        /\ Cardinality(S) # Cardinality(T)
    BY FS_Subset
  <1>2. Cardinality(S) \in Nat /\ Cardinality(T) \in Nat
    BY <1>1, FS_CardinalityType
  <1> QED BY <1>1, <1>2, HalfFits

LEMMA ReloadStep ==
  ASSUME SInv, LoadOne
  PROVE  Reload'
  <1> DEFINE u == vec[1]
  <1>1. /\ vec \in Seq(Urls) /\ vec # <<>> /\ NoRepeats(vec) /\ Len(vec) \in Nat
        /\ WellFormed(set) /\ WellFormed(origin)
        /\ 1 \in 1..Len(vec) /\ u \notin set.cur
        /\ OldPhase \/ CurPhase
    BY DEF SInv, Reload, LoadOne
  <1>2. /\ Head(vec) = u /\ u \in Urls /\ vec' = Tail(vec)
        /\ set' = Insert(set, u) /\ origin' = origin
    BY <1>1, ElementsOfTail DEF LoadOne
  <1>3. /\ NoRepeats(vec') /\ Len(vec') = Len(vec) - 1
        /\ \A i \in 1..Len(vec') : vec'[i] = vec[i + 1] /\ vec'[i] # u
        /\ \A n \in 1..Len(vec) :
              /\ Elements(vec, 1, n) = {u} \cup Elements(vec', 1, n - 1)
              /\ Elements(vec, n + 1, Len(vec)) = Elements(vec', n, Len(vec'))
    BY <1>1, <1>2, ElementsOfTail
  <1>4. \A i \in 1..Len(vec') : vec'[i] \notin set.cur
    <2>1. \A i \in 1..Len(vec') : i + 1 \in 1..Len(vec)
      BY <1>1, <1>3
    <2> QED BY <1>1, <1>3, <2>1 DEF SInv, Reload, LoadOne
  <1> HIDE DEF u
  <1>5. CASE CurPhase
    <2>1. set.cur \subseteq origin.cur /\ u \in origin.cur
      BY <1>1, <1>3, <1>5 DEF CurPhase
    <2>2. ~Contains(set, u)
      BY <1>1, <1>5, <2>1 DEF CurPhase, Contains, WellFormed
    <2>3. Cardinality(set.cur) < Half
      BY <1>1, <2>1, Room DEF WellFormed
    <2>4. set'.old = set.old /\ set'.cur = set.cur \cup {u}
      BY <1>1, <1>2, <2>2, <2>3, InsertKeepsCur, HalfFits, FS_CardinalityType DEF WellFormed
    <2>5. CurPhase'
      BY <1>1, <1>2, <1>3, <1>5, <2>4 DEF CurPhase
    <2> QED BY <1>1, <1>2, <1>3, <1>4, <2>4, <2>5 DEF Reload, LoadOne
  <1>6. CASE OldPhase /\ ~CurPhase
    <2>1. PICK n \in 0..Len(vec) : /\ set.cur \cup Elements(vec, 1, n) = origin.old
                                   /\ Elements(vec, n + 1, Len(vec)) = origin.cur
      BY <1>6 DEF OldPhase
    <2>2. set.old = {} /\ ~Contains(set, u)
      BY <1>1, <1>6 DEF OldPhase, Contains
    <2>3. CASE n = 0
      <3>1. set.cur = origin.old /\ Elements(vec, 1, Len(vec)) = origin.cur
        <4>1. Elements(vec, 1, 0) = {}
          BY DEF Elements
        <4>2. Elements(vec, n + 1, Len(vec)) = Elements(vec, 1, Len(vec))
          BY <2>3
        <4> QED BY <2>1, <2>3, <4>1, <4>2
      <3>2. origin.old # {}
        BY <1>6, <2>2, <3>1 DEF CurPhase
      <3>3. Cardinality(set.cur) = Half
        BY <1>1, <3>1, <3>2, FS_EmptySet DEF WellFormed
      <3>4. set'.old = set.cur /\ set'.cur = {u}
        BY <1>1, <1>2, <2>2, <3>3, InsertKeepsCur, HalfFits
      <3>5. CurPhase'
        BY <1>1, <1>2, <1>3, <3>1, <3>4 DEF CurPhase
      <3> QED BY <1>1, <1>2, <1>3, <3>4, <3>5 DEF Reload, LoadOne
    <2>4. CASE n \in 1..Len(vec)
      <3>1. set.cur \subseteq origin.old /\ u \in origin.old
        BY <1>3, <2>1, <2>4
      <3>2. Cardinality(origin.old) <= Half
        BY <1>1, HalfFits DEF WellFormed
      <3>3. Cardinality(set.cur) < Half
        BY <1>1, <3>1, <3>2, Room DEF WellFormed
      <3>4. set'.old = set.old /\ set'.cur = set.cur \cup {u}
        <4>1. Cardinality(set.cur) # Half
          BY <1>1, <3>3, HalfFits, FS_CardinalityType DEF WellFormed
        <4> QED BY <1>1, <1>2, <2>2, <4>1, InsertKeepsCur
      <3>5. /\ n - 1 \in 0..Len(vec')
            /\ set'.cur \cup Elements(vec', 1, n - 1) = origin.old
            /\ Elements(vec', (n - 1) + 1, Len(vec')) = origin.cur
        BY <1>1, <1>3, <2>1, <2>4, <3>4
      <3>6. OldPhase'
        BY <1>2, <2>2, <3>4, <3>5 DEF OldPhase
      <3> QED BY <1>1, <1>2, <1>3, <1>4, <3>4, <3>6 DEF Reload, LoadOne
    <2> QED BY <1>1, <2>1, <2>3, <2>4
  <1> QED BY <1>1, <1>5, <1>6

LEMMA InitSInv == MachineInit => SInv
  BY EmptyWellFormed DEF MachineInit, SInv, Reload

LEMMA StepSInv == SInv /\ [MachineNext]_machineVars => SInv'
  <1> SUFFICES ASSUME SInv, [MachineNext]_machineVars PROVE SInv'
    OBVIOUS
  <1>1. ASSUME NEW u \in Urls, Add(u) PROVE SInv'
    BY <1>1, InsertWellFormed DEF Add, SInv, Reload
  <1>2. CASE Rebuild
    <2>1. /\ vec' \in Seq(Urls) /\ NoRepeats(vec')
          /\ \E n \in 0..Len(vec') : /\ Elements(vec', 1, n) = set.old
                                     /\ Elements(vec', n + 1, Len(vec')) = set.cur
      BY <1>2, VectorOfSet DEF Rebuild, SInv
    <2>2. WellFormed(set') /\ set'.old = {} /\ set'.cur = {} /\ origin' = set
      BY <1>2, EmptyWellFormed DEF Rebuild, EmptySeen
    <2>3. OldPhase'
      BY <2>1, <2>2 DEF OldPhase
    <2> QED BY <1>2, <2>1, <2>2, <2>3 DEF SInv, Reload
  <1>3. CASE LoadOne
    <2>1. Head(vec) \in Urls /\ Tail(vec) \in Seq(Urls)
      BY <1>3 DEF LoadOne, SInv
    <2>2. WellFormed(set') /\ vec' \in Seq(Urls)
      BY <1>3, <2>1, InsertWellFormed DEF LoadOne, SInv
    <2> QED BY <1>3, <2>2, ReloadStep DEF SInv
  <1>4. CASE LoadDone
    BY <1>4 DEF LoadDone, SInv, Reload
  <1>5. CASE UNCHANGED machineVars
    BY <1>5 DEF machineVars, SInv, Reload, OldPhase, CurPhase
  <1> QED BY <1>1, <1>2, <1>3, <1>4, <1>5 DEF MachineNext

THEOREM SeenInvariant == MachineSpec => []SInv
  BY InitSInv, StepSInv, PTL DEF MachineSpec

\* The set stays within its capacity, at every moment of a reload too.
THEOREM StaysBounded == MachineSpec => []Bounded
  <1>1. SInv => Bounded
    <2> SUFFICES ASSUME WellFormed(set) PROVE Size(set) <= Cap
      BY DEF SInv, Bounded
    <2>1. Cardinality(set.cur) \in Nat /\ Cardinality(set.old) \in {0, Half}
      BY FS_CardinalityType DEF WellFormed
    <2> QED BY <2>1, HalfFits DEF WellFormed, Size
  <1> QED BY <1>1, SeenInvariant, PTL

\* No URL is in both generations, so that len() counts each once.
THEOREM StaysDisjoint == MachineSpec => []Disjoint
  <1>1. SInv => Disjoint
    BY DEF SInv, WellFormed, Disjoint
  <1> QED BY <1>1, SeenInvariant, PTL

\* A reload that has ended without rebuilding the younger generation had an empty
\* set to rebuild.
LEMMA ReloadEnds == SInv => ReloadFaithful
  <1> SUFFICES ASSUME SInv, mode = "loading", vec = <<>> PROVE set = origin
    BY DEF ReloadFaithful
  <1>1. WellFormed(origin) /\ WellFormed(set) /\ (OldPhase \/ CurPhase) /\ Len(vec) = 0
    BY DEF SInv, Reload
  <1>2. Elements(vec, 1, Len(vec)) = {}
    BY <1>1 DEF Elements
  <1>3. set.old = origin.old /\ set.cur = origin.cur
    <2>1. CASE OldPhase
      <3>1. PICK n \in 0..Len(vec) : /\ set.cur \cup Elements(vec, 1, n) = origin.old
                                     /\ Elements(vec, n + 1, Len(vec)) = origin.cur
        BY <2>1 DEF OldPhase
      <3>2. n = Len(vec) /\ (n + 1)..Len(vec) = {}
        BY <1>1
      <3>3. origin.cur = {} /\ origin.old = set.cur
        BY <1>2, <3>1, <3>2 DEF Elements
      <3> QED BY <1>1, <2>1, <3>3 DEF OldPhase, WellFormed
    <2>2. CASE CurPhase
      BY <1>2, <2>2 DEF CurPhase
    <2> QED BY <1>1, <2>1, <2>2
  <1> QED BY <1>1, <1>3 DEF WellFormed, SeenSets

\* A restart rebuilds the generations as they were, in whatever order the hash
\* sets were written to the snapshot.
THEOREM ReloadsFaithfully == MachineSpec => []ReloadFaithful
  BY ReloadEnds, SeenInvariant, PTL

-------------------------------------------------------------------------------
(* What the set remembers of the URLs accepted so far.                     *)

\* The younger generation is the end of the log, the older one what precedes it;
\* without an older one nothing was ever forgotten.
Recalls(s, l) ==
  /\ \A i \in 1..Len(l) : i > Len(l) - Cardinality(s.cur) => l[i] \in s.cur
  /\ \A i \in 1..Len(l) :
       i > Len(l) - Cardinality(s.cur) - Half => l[i] \in s.cur \cup s.old
  /\ s.old = {} => Len(l) <= Cardinality(s.cur)

HInv ==
  /\ mode \in {"running", "loading"}
  /\ log \in Seq(Urls)
  /\ mode = "running" => Recalls(set, log)
  /\ mode = "loading" => Recalls(origin, log)

LEMMA InsertRecalls ==
  ASSUME NEW s, WellFormed(s), NEW l \in Seq(Urls), Recalls(s, l),
         NEW u \in Urls, ~Contains(s, u)
  PROVE  Recalls(Insert(s, u), Append(l, u))
  <1> DEFINE t == Insert(s, u)
  <1> DEFINE m == Append(l, u)
  <1>1. /\ Len(m) = Len(l) + 1 /\ Len(l) \in Nat
        /\ \A i \in 1..Len(m) : m[i] = IF i = Len(l) + 1 THEN u ELSE l[i]
    OBVIOUS
  <1>2. Cardinality(s.cur) \in Nat /\ Half \in Nat
    BY HalfFits, FS_CardinalityType DEF WellFormed
  <1>3. CASE t.old = s.old /\ t.cur = s.cur \cup {u}
    <2>1. Cardinality(t.cur) = Cardinality(s.cur) + 1
      BY <1>3, FS_AddElement DEF WellFormed, Contains
    <2> HIDE DEF t, m
    <2>2. ASSUME NEW i \in 1..Len(m), i > Len(m) - Cardinality(t.cur)
          PROVE  m[i] \in t.cur
      <3>1. CASE i = Len(l) + 1
        <4>1. m[i] = u
          BY <1>1, <3>1
        <4> QED BY <1>3, <4>1
      <3>2. CASE i # Len(l) + 1
        <4>1. i \in 1..Len(l) /\ i > Len(l) - Cardinality(s.cur)
          BY <1>1, <1>2, <2>1, <2>2, <3>2
        <4>2. m[i] = l[i]
          BY <1>1, <3>2
        <4> QED BY <1>3, <4>1, <4>2 DEF Recalls
      <3> QED BY <3>1, <3>2
    <2>3. ASSUME NEW i \in 1..Len(m), i > Len(m) - Cardinality(t.cur) - Half
          PROVE  m[i] \in t.cur \cup t.old
      <3>1. CASE i = Len(l) + 1
        <4>1. m[i] = u
          BY <1>1, <3>1
        <4> QED BY <1>3, <4>1
      <3>2. CASE i # Len(l) + 1
        <4>1. i \in 1..Len(l) /\ i > Len(l) - Cardinality(s.cur) - Half
          BY <1>1, <1>2, <2>1, <2>3, <3>2
        <4>2. m[i] = l[i]
          BY <1>1, <3>2
        <4> QED BY <1>3, <4>1, <4>2 DEF Recalls
      <3> QED BY <3>1, <3>2
    <2>4. t.old = {} => Len(m) <= Cardinality(t.cur)
      BY <1>1, <1>2, <1>3, <2>1 DEF Recalls
    <2> QED BY <2>2, <2>3, <2>4 DEF Recalls, t, m
  <1>4. CASE t.old = s.cur /\ t.cur = {u} /\ Cardinality(s.cur) = Half
    <2>1. Cardinality(t.cur) = 1
      BY <1>4, FS_Singleton
    <2>2. s.cur # {}
      BY <1>4, HalfFits, FS_EmptySet
    <2> HIDE DEF t, m
    <2>3. ASSUME NEW i \in 1..Len(m), i > Len(m) - Cardinality(t.cur)
          PROVE  m[i] \in t.cur
      <3>1. i = Len(l) + 1
        BY <1>1, <2>1, <2>3
      <3>2. m[i] = u
        BY <1>1, <3>1
      <3> QED BY <1>4, <3>2
    <2>4. ASSUME NEW i \in 1..Len(m), i > Len(m) - Cardinality(t.cur) - Half
          PROVE  m[i] \in t.cur \cup t.old
      <3>1. CASE i = Len(l) + 1
        <4>1. m[i] = u
          BY <1>1, <3>1
        <4> QED BY <1>4, <4>1
      <3>2. CASE i # Len(l) + 1
        <4>1. i \in 1..Len(l) /\ i > Len(l) - Cardinality(s.cur)
          BY <1>1, <1>2, <1>4, <2>1, <2>4, <3>2
        <4>2. m[i] = l[i]
          BY <1>1, <3>2
        <4> QED BY <1>4, <4>1, <4>2 DEF Recalls
      <3> QED BY <3>1, <3>2
    <2> QED BY <1>4, <2>2, <2>3, <2>4 DEF Recalls, t, m
  <1> QED BY <1>3, <1>4, InsertKeepsCur

LEMMA StepHInv == SInv /\ HInv /\ [MachineNext]_machineVars => HInv'
  <1> SUFFICES ASSUME SInv, HInv, [MachineNext]_machineVars PROVE HInv'
    OBVIOUS
  <1>1. ASSUME NEW u \in Urls, Add(u) PROVE HInv'
    <2>1. CASE Contains(set, u)
      BY <1>1, <2>1 DEF Add, HInv, Insert
    <2>2. CASE ~Contains(set, u)
      BY <1>1, <2>2, InsertRecalls DEF Add, HInv, SInv
    <2> QED BY <2>1, <2>2
  <1>2. CASE Rebuild
    BY <1>2 DEF Rebuild, HInv
  <1>3. CASE LoadOne
    BY <1>3 DEF LoadOne, HInv
  <1>4. CASE LoadDone
    <2>1. set = origin
      BY <1>4, ReloadEnds DEF LoadDone, ReloadFaithful
    <2> QED BY <1>4, <2>1 DEF LoadDone, HInv
  <1>5. CASE UNCHANGED machineVars
    BY <1>5 DEF machineVars, HInv
  <1> QED BY <1>1, <1>2, <1>3, <1>4, <1>5 DEF MachineNext

\* However long the crawl and however often it restarts, the last Half URLs that
\* were accepted are known: none of them is crawled again.
THEOREM RecentAreRemembered == MachineSpec => []RemembersRecent
  <1>1. MachineInit => HInv
    BY FS_EmptySet DEF MachineInit, HInv, Recalls, EmptySeen
  <1>2. SInv /\ HInv => RemembersRecent
    <2> SUFFICES ASSUME SInv, HInv, mode = "running",
                        NEW i \in DOMAIN log, i > Len(log) - Half
                 PROVE  Contains(set, log[i])
      BY DEF RemembersRecent
    <2>1. Cardinality(set.cur) \in Nat /\ Half \in Nat
      BY HalfFits, FS_CardinalityType DEF SInv, WellFormed
    <2>2. i \in 1..Len(log) /\ Len(log) \in Nat
      BY DEF HInv
    <2> QED BY <2>1, <2>2 DEF HInv, Recalls, Contains
  <1> QED BY <1>1, <1>2, StepHInv, SeenInvariant, PTL DEF MachineSpec

-------------------------------------------------------------------------------
(* The snapshot file.                                                      *)

\* What is written is known from the phase on, the target is complete and synced,
\* and its contents only grow: durable, visible, taken.
Written ==
  /\ phase \in {"sync", "rename"} => tmp = taken
  /\ phase = "rename" => "tmp" \notin unsynced
Ordered ==
  /\ main # Torn /\ stable # Torn
  /\ "main" \notin unsynced
  /\ stable <= main /\ main <= taken
\* Without a loss of power the target is the last save, and there is no backup
\* of a target that never existed.
Recent ==
  ~powerLost => /\ main = confirmed
                /\ main = Absent => bak = Absent

FilesInv == FilesTyped /\ Written /\ Ordered /\ Recent

\* The invariant holds in the initial state.
LEMMA InitFilesInv == FileInit => FilesInv
<1> SUFFICES ASSUME FileInit PROVE FilesInv
  OBVIOUS
<1> USE MaxSnapshotsAssumption DEF FileInit, Absent, Torn
<1>1. FilesTyped
  <2>1. powerLost \in BOOLEAN
    BY Zenon
  <2>2. phase \in Phases
    BY DEF Phases
  <2> QED
    BY <2>1, <2>2 DEF FilesTyped, Contents
<1>2. Written /\ Ordered /\ Recent
  BY DEF Written, Ordered, Recent
<1> QED
  BY <1>1, <1>2 DEF FilesInv

\* Each step keeps it; a loss of power may bring the target back to the durable
\* content, which is complete.
LEMMA StepFilesInv == FilesInv /\ [FileNext]_fileVars => FilesInv'
<1> SUFFICES ASSUME FilesInv, [FileNext]_fileVars PROVE FilesInv'
  OBVIOUS
<1> USE MaxSnapshotsAssumption
    DEF FilesInv, FilesTyped, Written, Ordered, Recent, Phases, Contents, Absent, Torn, files
<1>1. CASE Take
  BY <1>1 DEF Take
<1>2. CASE CopyBegins
  BY <1>2 DEF CopyBegins
<1>3. CASE CopyEnds
  BY <1>3 DEF CopyEnds
<1>4. CASE WriteBegins
  BY <1>4 DEF WriteBegins
<1>5. CASE WriteEnds
  BY <1>5 DEF WriteEnds
<1>6. CASE SyncData
  BY <1>6 DEF SyncData
<1>7. CASE Rename
  BY <1>7 DEF Rename
<1>8. CASE SaveFails
  BY <1>8 DEF SaveFails
<1>9. CASE Settle
  BY <1>9 DEF Settle
<1>10. CASE Kill
  BY <1>10 DEF Kill
<1>11. CASE PowerLoss
  <2>1. PICK lost \in SUBSET unsynced :
          /\ main' \in IF "main" \in lost THEN {Torn} ELSE {main, stable}
          /\ bak' = IF "bak" \in lost THEN Torn ELSE bak
          /\ tmp' = IF "tmp" \in lost THEN Torn ELSE tmp
    BY <1>11 DEF PowerLoss
  <2>2. main' \in {main, stable}
    BY <2>1
  <2>3. {main', bak', tmp', stable'} \subseteq Contents
    BY <1>11, <2>1, <2>2 DEF PowerLoss
  <2> QED
    BY <1>11, <2>2, <2>3 DEF PowerLoss
<1>12. CASE UNCHANGED fileVars
  BY <1>12 DEF fileVars
<1> QED
  BY <1>1, <1>2, <1>3, <1>4, <1>5, <1>6, <1>7, <1>8, <1>9, <1>10, <1>11, <1>12 DEF FileNext

LEMMA FilesInvHolds == FileSpec => []FilesInv
BY InitFilesInv, StepFilesInv, PTL DEF FileSpec

\* Every variable keeps its type, and backups are made of existing files only.
THEOREM FilesTypeCorrect == FileSpec => []FilesTyped
<1>1. FilesInv => FilesTyped
  BY DEF FilesInv
<1> QED
  BY <1>1, FilesInvHolds, PTL

\* The target of save_snapshot_atomic is complete at all times, whatever stops.
THEOREM NeverTorn == FileSpec => []PrimaryNeverTorn
<1>1. FilesInv => PrimaryNeverTorn
  BY DEF FilesInv, Ordered, PrimaryNeverTorn
<1> QED
  BY <1>1, FilesInvHolds, PTL

\* After any number of kills a start loads the last save that returned Ok.
THEOREM LatestSurvives == FileSpec => []LatestSurvivesKill
<1>1. FilesInv => LatestSurvivesKill
  BY DEF FilesInv, FilesTyped, Recent, LatestSurvivesKill, Loaded, Absent
<1> QED
  BY <1>1, FilesInvHolds, PTL

\* No step makes a start load less than what is on the disk for good.
THEOREM DurableStays == FileSpec => DurableSurvives
<1>1. FilesInv /\ [FileNext]_fileVars => main' >= stable
  <2> SUFFICES ASSUME FilesInv, [FileNext]_fileVars PROVE main' >= stable
    OBVIOUS
  <2> USE MaxSnapshotsAssumption DEF FilesInv, FilesTyped, Ordered, Written, Contents, Absent, Torn, files
  <2>1. CASE Rename
    BY <2>1 DEF Rename
  <2>2. CASE PowerLoss
    BY <2>2 DEF PowerLoss
  <2>3. CASE UNCHANGED main
    BY <2>3
  <2> QED
    BY <2>1, <2>2, <2>3 DEF FileNext, Take, CopyBegins, CopyEnds, WriteBegins, WriteEnds,
       SyncData, SaveFails, Settle, Kill, fileVars
<1>2. FilesInv /\ [FileNext]_fileVars => [Loaded' >= stable]_fileVars
  <2> SUFFICES ASSUME FilesInv, [FileNext]_fileVars PROVE Loaded' >= stable
    OBVIOUS
  <2>1. FilesInv'
    BY StepFilesInv
  <2> QED
    BY <1>1, <2>1, MaxSnapshotsAssumption DEF FilesInv, FilesTyped, Ordered, Loaded, Contents, Absent, Torn
<1> QED
  BY <1>2, FilesInvHolds, PTL DEF FileSpec, DurableSurvives

-------------------------------------------------------------------------------
(* The queue, the worker and the saver.                                    *)

\* What holds of a queue and its seen set, whether they are the crawler's or
\* those of a snapshot: that is why a restart cannot break it.
Fits == IsFiniteSet(Urls) /\ Cardinality(Urls) <= 2 * Half

Consistent(q, s) ==
  /\ q \in [Urls -> Nat]
  /\ WellFormed(s)
  /\ IsFiniteSet(Entries(q)) /\ Cardinality(Entries(q)) <= QueueMax
  /\ Fits => \A u \in Urls : q[u] <= 1 /\ (q[u] = 1 => Contains(s, u))

-------------------------------------------------------------------------------
(* The entries of a queue.                                                 *)

LEMMA EntriesAre ==
  ASSUME NEW q
  PROVE  /\ \A u \in Urls : \A i \in 1..q[u] : <<u, i>> \in Entries(q)
         /\ \A e \in Entries(q) : \E u \in Urls : \E i \in 1..q[u] : e = <<u, i>>
<1>1. ASSUME NEW u \in Urls, NEW i \in 1..q[u]
      PROVE  <<u, i>> \in Entries(q)
  <2>1. <<u, i>> \in {u} \X (1..q[u])
    OBVIOUS
  <2> QED
    BY <2>1 DEF Entries
<1>2. ASSUME NEW e \in Entries(q)
      PROVE  \E u \in Urls : \E i \in 1..q[u] : e = <<u, i>>
  <2>1. PICK u \in Urls : e \in {u} \X (1..q[u])
    BY DEF Entries
  <2>2. e = <<e[1], e[2]>> /\ e[1] = u /\ e[2] \in 1..q[u]
    BY <2>1
  <2> QED
    BY <2>2
<1> QED
  BY <1>1, <1>2

\* A pushed URL is one more entry.
LEMMA EntriesPushed ==
  ASSUME NEW q \in [Urls -> Nat], NEW u \in Urls, IsFiniteSet(Entries(q))
  PROVE  LET p == [q EXCEPT ![u] = @ + 1] IN
         /\ IsFiniteSet(Entries(p))
         /\ Cardinality(Entries(p)) <= Cardinality(Entries(q)) + 1
<1> DEFINE p == [q EXCEPT ![u] = @ + 1]
<1> DEFINE e == <<u, q[u] + 1>>
<1>1. \A v \in Urls : p[v] = IF v = u THEN q[u] + 1 ELSE q[v]
  OBVIOUS
<1> HIDE DEF p
<1>2. Entries(p) \subseteq Entries(q) \cup {e}
  <2>1. ASSUME NEW x \in Entries(p)
        PROVE  x \in Entries(q) \cup {e}
    <3>1. PICK v \in Urls : \E i \in 1..p[v] : x = <<v, i>>
      BY EntriesAre
    <3>2. PICK i \in 1..p[v] : x = <<v, i>>
      BY <3>1
    <3>3. q[u] \in Nat /\ q[v] \in Nat
      OBVIOUS
    <3>4. i \in 1..q[v] \/ (v = u /\ i = q[u] + 1)
      BY <1>1, <3>2, <3>3
    <3> QED
      BY <3>2, <3>4, EntriesAre
  <2> QED
    BY <2>1
<1>3. /\ IsFiniteSet(Entries(q) \cup {e})
      /\ Cardinality(Entries(q) \cup {e}) <= Cardinality(Entries(q)) + 1
  <2>1. Cardinality(Entries(q)) \in Nat
    BY FS_CardinalityType
  <2> HIDE DEF e
  <2>2. /\ IsFiniteSet(Entries(q) \cup {e})
        /\ Cardinality(Entries(q) \cup {e}) = IF e \in Entries(q) THEN Cardinality(Entries(q))
                                             ELSE Cardinality(Entries(q)) + 1
    BY FS_AddElement
  <2> QED
    BY <2>1, <2>2
<1>4. /\ IsFiniteSet(Entries(p))
      /\ Cardinality(Entries(p)) <= Cardinality(Entries(q) \cup {e})
  BY <1>2, <1>3, FS_Subset
<1> HIDE DEF e
<1>5. /\ Cardinality(Entries(p)) \in Nat /\ Cardinality(Entries(q)) \in Nat
      /\ Cardinality(Entries(q) \cup {e}) \in Nat
  BY <1>3, <1>4, FS_CardinalityType
<1> QED
  BY <1>3, <1>4, <1>5 DEF p

\* A queue with fewer of each URL has no more entries.
LEMMA EntriesTaken ==
  ASSUME NEW q \in [Urls -> Nat], NEW p \in [Urls -> Nat], IsFiniteSet(Entries(q)),
         \A u \in Urls : p[u] <= q[u]
  PROVE  /\ IsFiniteSet(Entries(p))
         /\ Cardinality(Entries(p)) <= Cardinality(Entries(q))
<1>1. ASSUME NEW x \in Entries(p)
      PROVE  x \in Entries(q)
  <2>1. PICK v \in Urls : \E i \in 1..p[v] : x = <<v, i>>
    BY EntriesAre
  <2>2. PICK i \in 1..p[v] : x = <<v, i>>
    BY <2>1
  <2>3. i \in 1..q[v]
    BY <2>2
  <2> QED
    BY <2>2, <2>3, EntriesAre
<1> QED
  BY <1>1, FS_Subset

\* The queued URLs are finitely many.
LEMMA QueuedFinite ==
  ASSUME NEW q \in [Urls -> Nat], IsFiniteSet(Entries(q))
  PROVE  IsFiniteSet({u \in Urls : q[u] > 0})
<1> DEFINE Q == {u \in Urls : q[u] > 0}
<1> DEFINE f == [u \in Q |-> <<u, 1>>]
<1>1. \A u \in Q : <<u, 1>> \in Entries(q)
  <2>1. \A u \in Q : 1 \in 1..q[u]
    OBVIOUS
  <2> QED
    BY <2>1, EntriesAre
<1>2. f \in [Q -> Entries(q)] /\ \A u, v \in Q : f[u] = f[v] => u = v
  BY <1>1
<1>3. f \in Injection(Q, Entries(q))
  <2> HIDE DEF f, Q
  <2> QED
    BY <1>2, Fun_IsInj
<1> QED
  BY <1>3, FS_Injection

-------------------------------------------------------------------------------
(* The seen set, as a set of URLs.                                         *)

\* An insert adds its URL and nothing else.
LEMMA InsertContains ==
  ASSUME NEW s, WellFormed(s), NEW u \in Urls, ~Contains(s, u)
  PROVE  /\ Contains(Insert(s, u), u)
         /\ Members(Insert(s, u)) \subseteq Members(s) \cup {u}
  BY InsertKeepsCur DEF Contains, Members

\* It forgets a generation only when the set is full, and then it has no room
\* for all URLs: a URL is missing from two full generations.
LEMMA InsertForgetsNothing ==
  ASSUME Fits, NEW s, WellFormed(s), NEW u \in Urls, ~Contains(s, u),
         NEW v \in Urls, Contains(s, v)
  PROVE  Contains(Insert(s, u), v)
<1>1. CASE s.old = {}
  BY <1>1, InsertKeepsCur DEF Contains
<1>2. CASE s.old # {} /\ Cardinality(s.cur) # Half
  BY <1>2, InsertKeepsCur DEF Contains
<1>3. CASE s.old # {} /\ Cardinality(s.cur) = Half
  <2>1. IsFiniteSet(s.old) /\ IsFiniteSet(s.cur) /\ s.old \cap s.cur = {}
    BY DEF WellFormed
  <2>2. Cardinality(s.old) = Half
    <3>1. Cardinality(s.old) # 0
      BY <1>3, <2>1, FS_EmptySet
    <3> QED
      BY <3>1 DEF WellFormed
  <2>3. /\ IsFiniteSet(s.old \cup s.cur)
        /\ Cardinality(s.old \cup s.cur) = Half + Half
    <3>1. Cardinality(s.old \cap s.cur) = 0
      BY <2>1, FS_EmptySet
    <3>2. /\ IsFiniteSet(s.old \cup s.cur)
          /\ Cardinality(s.old \cup s.cur)
               = Cardinality(s.old) + Cardinality(s.cur) - Cardinality(s.old \cap s.cur)
      BY <2>1, FS_Union
    <3> QED
      BY <1>3, <2>2, <3>1, <3>2, HalfFits
  <2>4. s.old \cup s.cur \subseteq Urls /\ u \notin s.old \cup s.cur
    BY DEF WellFormed, SeenSets, Contains
  <2>5. Cardinality(s.old \cup s.cur) <= Cardinality(Urls)
        /\ Cardinality(s.old \cup s.cur) # Cardinality(Urls)
    BY <2>4, FS_Subset DEF Fits
  <2>6. Cardinality(Urls) \in Nat
    BY FS_CardinalityType DEF Fits
  <2> QED
    BY <2>3, <2>5, <2>6, HalfFits DEF Fits
<1> QED
  BY <1>1, <1>2, <1>3

-------------------------------------------------------------------------------
(* The two ways a queue and its seen set change.                           *)

LEMMA EmptyConsistent == Consistent(Empty.queue, Empty.seen)
<1>1. Empty.queue = [u \in Urls |-> 0] /\ Empty.seen = EmptySeen
  BY DEF Empty
<1>2. Entries(Empty.queue) = {}
  <2>1. \A u \in Urls : 1..Empty.queue[u] = {}
    BY <1>1
  <2> QED
    BY <2>1, EntriesAre
<1> QED
  BY <1>1, <1>2, FS_EmptySet, EmptyWellFormed, LimitsAssumption DEF Consistent

LEMMA PushConsistent ==
  ASSUME NEW q, NEW s, Consistent(q, s), NEW u \in Urls, ~Contains(s, u),
         Cardinality(Entries(q)) < QueueMax
  PROVE  Consistent([q EXCEPT ![u] = @ + 1], Insert(s, u))
<1> DEFINE p == [q EXCEPT ![u] = @ + 1]
<1>1. /\ p \in [Urls -> Nat] /\ q \in [Urls -> Nat]
      /\ \A v \in Urls : p[v] = IF v = u THEN q[u] + 1 ELSE q[v]
  BY DEF Consistent
<1>2. /\ IsFiniteSet(Entries(p))
      /\ Cardinality(Entries(p)) <= Cardinality(Entries(q)) + 1
  BY <1>1, EntriesPushed DEF Consistent
<1> HIDE DEF p
<1>3. Cardinality(Entries(p)) <= QueueMax
  <2>1. Cardinality(Entries(p)) \in Nat /\ Cardinality(Entries(q)) \in Nat
    BY <1>2, FS_CardinalityType DEF Consistent
  <2> QED
    BY <1>2, <2>1, LimitsAssumption
<1>4. WellFormed(s) /\ WellFormed(Insert(s, u))
  BY InsertWellFormed DEF Consistent
<1>5. ASSUME Fits, NEW v \in Urls
      PROVE  p[v] <= 1 /\ (p[v] = 1 => Contains(Insert(s, u), v))
  <2>1. q[v] <= 1 /\ (q[v] = 1 => Contains(s, v)) /\ q[v] \in Nat
    BY <1>1, <1>5 DEF Consistent
  <2>2. CASE v = u
    BY <1>1, <1>4, <2>1, <2>2, InsertContains
  <2>3. CASE v # u
    BY <1>1, <1>4, <1>5, <2>1, <2>3, InsertForgetsNothing
  <2> QED
    BY <2>2, <2>3
<1> QED
  BY <1>1, <1>2, <1>3, <1>4, <1>5 DEF Consistent, p

LEMMA TakeConsistent ==
  ASSUME NEW q, NEW s, Consistent(q, s), NEW p \in [Urls -> Nat],
         \A u \in Urls : p[u] <= q[u]
  PROVE  Consistent(p, s)
<1>1. /\ q \in [Urls -> Nat] /\ IsFiniteSet(Entries(q))
      /\ IsFiniteSet(Entries(p)) /\ Cardinality(Entries(p)) <= Cardinality(Entries(q))
  BY EntriesTaken DEF Consistent
<1>2. Cardinality(Entries(p)) <= QueueMax
  <2>1. Cardinality(Entries(p)) \in Nat /\ Cardinality(Entries(q)) \in Nat
    BY <1>1, FS_CardinalityType
  <2> QED
    BY <1>1, <2>1, LimitsAssumption DEF Consistent
<1>3. ASSUME Fits, NEW u \in Urls
      PROVE  p[u] <= 1 /\ (p[u] = 1 => Contains(s, u))
  <2>1. q[u] <= 1 /\ (q[u] = 1 => Contains(s, u)) /\ q[u] \in Nat /\ p[u] \in Nat
    BY <1>1, <1>3 DEF Consistent
  <2> QED
    BY <2>1
<1> QED
  BY <1>1, <1>2, <1>3 DEF Consistent

-------------------------------------------------------------------------------
(* The inductive invariant.  Polite and AccountedWhileUp are inductive with *)
(* the rest; NoDuplicateWork and QueueBounded follow from it.              *)

\* The worker takes the mutex for the links of a batch when the batch is over.
Batches ==
  /\ batch \subseteq Urls /\ IsFiniteSet(batch)
  /\ finished \subseteq Urls /\ IsFiniteSet(finished)
  /\ holder = "worker" => fetching = {} /\ pages = {}
  /\ restarts \in Nat

Stores ==
  /\ Consistent(queue, seen)
  /\ Consistent(snap.queue, snap.seen)
  /\ Consistent(saved.queue, saved.seen)

\* A URL that is being crawled was taken out of the queue and is known as seen,
\* so that no task can queue it again.
InFlight == Fits => \A u \in fetching : queue[u] = 0 /\ Contains(seen, u)

CInv == TypeOK /\ Batches /\ Stores /\ InFlight /\ Polite /\ AccountedWhileUp

LEMMA InitCInv == Init => CInv
<1> SUFFICES ASSUME Init
             PROVE  CInv
  OBVIOUS
<1>1. Empty \in Snapshots /\ Empty.queue \in [Urls -> Nat] /\ Empty.seen = EmptySeen
      /\ EmptySeen \in SeenSets
  BY DEF Empty, Snapshots, EmptySeen, SeenSets
<1>2. TypeOK
  <2>1. Cardinality(batch) = 0 /\ <<>> \in Seq(Seq(Urls))
    BY FS_EmptySet DEF Init
  <2>2. concurrency \in MinConcurrency..MaxConcurrency /\ Cardinality(batch) <= concurrency
    BY <2>1, ConcurrencyAssumption DEF Init
  <2>3. room \in 0..LinksPerPage
    BY LimitsAssumption DEF Init
  <2> QED
    BY <1>1, <2>1, <2>2, <2>3 DEF Init, TypeOK
<1>3. Batches
  BY FS_EmptySet DEF Init, Batches
<1>4. Stores
  BY EmptyConsistent DEF Init, Stores
<1>5. InFlight /\ Polite /\ AccountedWhileUp
  BY <1>1 DEF Init, InFlight, Polite, AccountedWhileUp, Accounted, Members, EmptySeen
<1> QED
  BY <1>2, <1>3, <1>4, <1>5 DEF CInv

\* What most steps leave alone.
LEMMA Untouched ==
  ASSUME CInv, TypeOK', Batches',
         UNCHANGED <<queue, seen, snap, saved, fetching, finished, restarts>>
  PROVE  CInv'
  BY DEF CInv, Stores, InFlight, Polite, AccountedWhileUp, Accounted

\* An order of a finite set of URLs is a sequence of URLs.
LEMMA OrderIsList ==
  ASSUME NEW S \in SUBSET Urls, IsFiniteSet(S), NEW order \in Injection(1..Cardinality(S), S)
  PROVE  order \in Seq(Urls) /\ DOMAIN order = 1..Len(order)
  BY OrderOfSet DEF Orders

-------------------------------------------------------------------------------
(* The tasks that enqueue.                                                 *)

\* Taking the mutex with a list of lists of URLs.
LEMMA MutexTaken ==
  ASSUME CInv, NEW task \in {"handler", "seeder", "refresh", "worker"},
         NEW lists \in Seq(Seq(Urls)), TakeMutex(task, lists)
  PROVE  /\ holder' \in {"none", "handler", "seeder", "refresh", "worker"}
         /\ todo' \in Seq(Seq(Urls)) /\ room' \in 0..LinksPerPage
  BY LimitsAssumption DEF TakeMutex

\* A task other than the worker takes it: nothing else has changed.
LEMMA EnqueuerStarts ==
  ASSUME CInv, NEW task \in {"handler", "seeder", "refresh"},
         NEW lists \in Seq(Seq(Urls)), TakeMutex(task, lists),
         UNCHANGED <<queue, seen, work, saving, finished, restarts>>
  PROVE  CInv'
<1>1. /\ holder' \in {"none", "handler", "seeder", "refresh", "worker"}
      /\ todo' \in Seq(Seq(Urls)) /\ room' \in 0..LinksPerPage
  BY MutexTaken
<1>2. TypeOK' /\ Batches'
  BY <1>1 DEF CInv, TypeOK, Batches, TakeMutex, work, saving
<1> QED
  BY <1>2, Untouched DEF work, saving

LEMMA Prepended ==
  ASSUME NEW T, NEW a \in T, NEW l \in Seq(T)
  PROVE  <<a>> \o l \in Seq(T)
  OBVIOUS

LEMMA EnqueueStep ==
  ASSUME CInv, EnqueueNext
  PROVE  CInv'
<1>1. /\ TypeOK /\ Batches /\ Stores /\ InFlight /\ Polite /\ AccountedWhileUp
      /\ UNCHANGED <<hot, holder, seeded, work, saving, finished, restarts>>
  BY DEF CInv, EnqueueNext
<1>2. /\ todo \in Seq(Seq(Urls)) /\ todo # <<>> /\ Head(todo) \in Seq(Urls)
      /\ Tail(todo) \in Seq(Seq(Urls)) /\ room \in 0..LinksPerPage
  BY <1>1 DEF TypeOK, EnqueueNext
<1>3. CASE Head(todo) = <<>> \/ room = 0
  <2>1. todo' = Tail(todo) /\ room' = LinksPerPage /\ UNCHANGED <<queue, seen>>
    BY <1>3 DEF EnqueueNext
  <2>2. TypeOK' /\ Batches'
    BY <1>1, <1>2, <2>1, LimitsAssumption DEF TypeOK, Batches, work, saving
  <2> QED
    BY <1>1, <2>1, <2>2, Untouched DEF work, saving
<1>4. CASE ~(Head(todo) = <<>> \/ room = 0)
  <2> DEFINE u == Head(Head(todo))
  <2>1. u \in Urls /\ Tail(Head(todo)) \in Seq(Urls)
    BY <1>2, <1>4
  <2>2. todo' \in Seq(Seq(Urls))
    <3>1. todo' = <<Tail(Head(todo))>> \o Tail(todo)
      BY <1>4 DEF EnqueueNext
    <3> QED
      BY <1>2, <2>1, <3>1, Prepended
  <2>3. CASE ~Accepts(u)
    <3>1. UNCHANGED <<queue, seen, room>>
      BY <1>4, <2>3 DEF EnqueueNext
    <3>2. TypeOK' /\ Batches'
      BY <1>1, <2>2, <3>1 DEF TypeOK, Batches, work, saving
    <3> QED
      BY <1>1, <3>1, <3>2, Untouched DEF work, saving
  <2>4. CASE Accepts(u)
    <3>1. /\ queue' = [queue EXCEPT ![u] = @ + 1] /\ seen' = Insert(seen, u)
          /\ room' = IF holder = "worker" THEN room - 1 ELSE room
      BY <1>4, <2>4 DEF EnqueueNext
    <3>2. ~Contains(seen, u) /\ Cardinality(Entries(queue)) < QueueMax
          /\ WellFormed(seen)
      BY <1>1, <2>4 DEF Accepts, Length, Stores, Consistent
    <3> HIDE DEF u
    <3>3. Consistent(queue', seen')
      BY <1>1, <2>1, <3>1, <3>2, PushConsistent DEF Stores
    <3>4. room' \in 0..LinksPerPage
      BY <1>2, <1>4, <3>1, LimitsAssumption
    <3>5. TypeOK' /\ Batches'
      <4>1. queue' \in [Urls -> Nat] /\ seen' \in SeenSets
        BY <3>3 DEF Consistent, WellFormed
      <4> QED
        BY <1>1, <2>2, <3>4, <4>1 DEF TypeOK, Batches, work, saving
    <3>6. Stores'
      BY <1>1, <3>3 DEF Stores, saving
    <3>7. \A v \in Urls : queue'[v] = IF v = u THEN queue[u] + 1 ELSE queue[v]
      BY <1>1, <3>1 DEF TypeOK
    <3>8. InFlight'
      <4>1. ASSUME Fits, NEW v \in fetching
            PROVE  queue'[v] = 0 /\ Contains(seen', v)
        <5>1. v \in Urls /\ queue[v] = 0 /\ Contains(seen, v)
          BY <1>1, <4>1 DEF InFlight, TypeOK, Batches
        <5>2. v # u
          BY <3>2, <5>1
        <5> QED
          BY <2>1, <3>1, <3>2, <3>7, <4>1, <5>1, <5>2, InsertForgetsNothing
      <4> QED
        BY <1>1, <4>1 DEF InFlight, work
    <3>9. Polite'
      BY <1>1 DEF Polite, work
    <3>10. AccountedWhileUp'
      <4>1. ASSUME restarts = 0, NEW v \in Members(seen')
            PROVE  queue'[v] > 0 \/ v \in fetching \cup finished
        <5>1. v \in Members(seen) \cup {u}
          BY <2>1, <3>1, <3>2, <4>1, InsertContains
        <5>2. queue[u] \in Nat
          BY <1>1, <2>1 DEF TypeOK
        <5>3. CASE v = u
          BY <2>1, <3>7, <5>2, <5>3
        <5>4. CASE v # u
          <6>1. v \in Urls
            BY <1>1, <5>1, <5>4 DEF TypeOK, SeenSets, Members
          <6> QED
            BY <1>1, <3>7, <4>1, <5>1, <5>4, <6>1 DEF AccountedWhileUp, Accounted
        <5> QED
          BY <5>3, <5>4
      <4> QED
        BY <1>1, <4>1 DEF AccountedWhileUp, Accounted, work
    <3> QED
      BY <3>5, <3>6, <3>8, <3>9, <3>10 DEF CInv
  <2> QED
    BY <2>3, <2>4
<1> QED
  BY <1>3, <1>4

-------------------------------------------------------------------------------
(* The worker.                                                             *)

\* As many domains as URLs: no two of them share one.
LEMMA OnePerDomain ==
  ASSUME NEW urls, IsFiniteSet(urls), Cardinality(Domains(urls)) = Cardinality(urls),
         NEW u \in urls, NEW v \in urls, Domain[u] = Domain[v]
  PROVE  u = v
<1> DEFINE f == [w \in urls |-> Domain[w]]
<1>1. f \in [urls -> Domains(urls)] /\ \A d \in Domains(urls) : \E w \in urls : f[w] = d
  BY DEF Domains
<1>2. f[u] = f[v]
  OBVIOUS
<1> HIDE DEF f
<1>3. f \in Surjection(urls, Domains(urls))
  BY <1>1, Fun_IsSurj
<1>4. f \in Injection(urls, Domains(urls))
  BY <1>3, FS_SurjSameCardinalityImpliesInj
<1> QED
  BY <1>2, <1>4, Fun_InjectionProperties

LEMMA DequeueStep ==
  ASSUME CInv, NEW urls \in SUBSET Urls, NEW dropped \in SUBSET Urls, Dequeue(urls, dropped)
  PROVE  CInv'
<1>1. /\ TypeOK /\ Batches /\ Stores /\ InFlight /\ Polite /\ AccountedWhileUp
      /\ UNCHANGED <<seen, holder, todo, room, seeded, concurrency, pages, saving, restarts>>
      /\ holder = "none" /\ batch = {} /\ batch' = urls /\ fetching' = urls
      /\ queue' = Leaves(urls, dropped) /\ finished' = finished \cup dropped
      /\ Cardinality(urls) <= concurrency
      /\ MayRequest(urls)
  BY DEF CInv, Dequeue
<1>2. /\ \A u \in urls : queue[u] > 0 /\ u \notin Hostless
      /\ \A u \in dropped : queue[u] > 0 /\ u \in Hostless
  BY DEF Dequeue
<1>3. queue \in [Urls -> Nat] /\ fetching = {} /\ pages = {}
  BY <1>1 DEF TypeOK
<1>4. \A u \in Urls : queue'[u] = IF u \in urls THEN queue[u] - 1
                                  ELSE IF u \in dropped THEN 0 ELSE queue[u]
  BY <1>1 DEF Leaves
<1>5. queue' \in [Urls -> Nat] /\ \A u \in Urls : queue'[u] <= queue[u]
  BY <1>1, <1>2, <1>3, <1>4 DEF Leaves
<1>6. IsFiniteSet(urls) /\ IsFiniteSet(dropped)
  <2>1. IsFiniteSet({u \in Urls : queue[u] > 0})
    BY <1>1, <1>3, QueuedFinite DEF Stores, Consistent
  <2>2. urls \subseteq {u \in Urls : queue[u] > 0} /\ dropped \subseteq {u \in Urls : queue[u] > 0}
    BY <1>2
  <2> QED
    BY <2>1, <2>2, FS_Subset
<1>7. Batches'
  <2>1. IsFiniteSet(finished \cup dropped)
    BY <1>1, <1>6, FS_Union DEF Batches
  <2> QED
    BY <1>1, <1>6, <2>1 DEF Batches
<1>8. TypeOK'
  BY <1>1, <1>3, <1>5 DEF TypeOK, saving
<1>9. Stores'
  BY <1>1, <1>5, TakeConsistent DEF Stores, saving
<1>10. InFlight'
  <2>1. ASSUME Fits, NEW u \in urls
        PROVE  queue'[u] = 0 /\ Contains(seen, u)
    <3>1. queue[u] <= 1 /\ (queue[u] = 1 => Contains(seen, u)) /\ queue[u] \in Nat
      BY <1>1, <1>3, <2>1 DEF Stores, Consistent
    <3> QED
      BY <1>2, <1>4, <3>1
  <2> QED
    BY <1>1, <2>1 DEF InFlight
<1>11. Polite'
  BY <1>1, <1>6, OnePerDomain DEF Polite, MayRequest
<1>12. AccountedWhileUp'
  <2>1. ASSUME restarts = 0, NEW u \in Members(seen)
        PROVE  queue'[u] > 0 \/ u \in urls \cup (finished \cup dropped)
    <3>1. u \in Urls
      BY <1>1 DEF TypeOK, SeenSets, Members
    <3>2. queue[u] > 0 \/ u \in finished
      BY <1>1, <1>3, <2>1 DEF AccountedWhileUp, Accounted
    <3> QED
      BY <1>4, <3>1, <3>2
  <2> QED
    BY <1>1, <2>1 DEF AccountedWhileUp, Accounted
<1> QED
  BY <1>7, <1>8, <1>9, <1>10, <1>11, <1>12 DEF CInv

\* A crawl that fails and one that ends differ in what becomes of the links only.
LEMMA CrawlStep ==
  ASSUME CInv, NEW u \in Urls, CrawlFails(u) \/ CrawlEnds(u)
  PROVE  CInv'
<1>1. /\ TypeOK /\ Batches /\ Stores /\ InFlight /\ Polite /\ AccountedWhileUp
      /\ UNCHANGED <<shared, concurrency, batch, saving, restarts>>
      /\ u \in fetching /\ fetching' = fetching \ {u} /\ finished' = finished \cup {u}
      /\ pages' \subseteq pages \cup {u}
  BY DEF CInv, CrawlFails, CrawlEnds
<1>2. TypeOK'
  BY <1>1 DEF TypeOK, shared, saving
<1>3. Batches'
  BY <1>1, FS_AddElement DEF Batches, shared
<1>4. Stores' /\ InFlight' /\ Polite'
  BY <1>1 DEF Stores, InFlight, Polite, shared, saving
<1>5. AccountedWhileUp'
  BY <1>1 DEF AccountedWhileUp, Accounted, shared
<1> QED
  BY <1>2, <1>3, <1>4, <1>5 DEF CInv

LEMMA EndBatchStep ==
  ASSUME CInv, EndBatch
  PROVE  CInv'
<1>1. /\ TypeOK /\ Batches
      /\ UNCHANGED <<queue, seen, hot, seeded, concurrency, batch, fetching, saving,
                     finished, restarts>>
      /\ fetching = {} /\ pages' = {}
  BY DEF CInv, EndBatch
<1>2. PICK order \in Injection(1..Cardinality(pages), pages) :
        TakeMutex("worker", IF Length < (QueueMax * 4) \div 5
                            THEN [i \in DOMAIN order |-> Links[order[i]]] ELSE <<>>)
  BY DEF EndBatch
<1> DEFINE lists == [i \in DOMAIN order |-> Links[order[i]]]
<1>3. pages \subseteq Urls /\ IsFiniteSet(pages)
  BY <1>1, FS_Subset DEF TypeOK, Batches
<1>4. lists \in Seq(Seq(Urls)) /\ <<>> \in Seq(Seq(Urls))
  <2>1. order \in Seq(Urls) /\ DOMAIN order = 1..Len(order)
    BY <1>3, OrderIsList
  <2>2. Len(order) \in Nat /\ \A i \in 1..Len(order) : Links[order[i]] \in Seq(Urls)
    BY <2>1, ShapeAssumption
  <2> QED
    BY <2>1, <2>2
<1> HIDE DEF lists
<1>5. /\ holder' \in {"none", "handler", "seeder", "refresh", "worker"}
      /\ todo' \in Seq(Seq(Urls)) /\ room' \in 0..LinksPerPage
  <2>1. CASE Length < (QueueMax * 4) \div 5
    BY <1>2, <1>4, <2>1, MutexTaken DEF lists
  <2>2. CASE ~(Length < (QueueMax * 4) \div 5)
    BY <1>2, <1>4, <2>2, MutexTaken
  <2> QED
    BY <2>1, <2>2
<1>6. TypeOK' /\ Batches'
  BY <1>1, <1>5 DEF TypeOK, Batches, saving
<1> QED
  BY <1>1, <1>6, Untouched DEF saving

LEMMA TuneStep ==
  ASSUME CInv, Tune
  PROVE  CInv'
<1>1. /\ TypeOK /\ Batches
      /\ UNCHANGED <<queue, seen, hot, todo, room, seeded, fetching, pages, saving,
                     finished, restarts>>
      /\ holder' = "none" /\ batch' = {} /\ fetching = {} /\ pages = {}
  BY DEF CInv, Batches, Tune
<1>2. concurrency' \in MinConcurrency..MaxConcurrency
  <2>1. PICK c \in MinConcurrency..MaxConcurrency : concurrency = c
    BY <1>1 DEF TypeOK
  <2>2. MinConcurrency \in Nat /\ MaxConcurrency \in Nat
    BY ConcurrencyAssumption
  <2>3. \/ concurrency' = c
        \/ c > MinConcurrency /\ concurrency' = IF c > MinConcurrency + 2
                                                THEN c - 2 ELSE MinConcurrency
        \/ c < MaxConcurrency /\ concurrency' = IF c + 2 < MaxConcurrency
                                                THEN c + 2 ELSE MaxConcurrency
    BY <2>1 DEF Tune
  <2> QED
    BY <2>1, <2>2, <2>3
<1>3. Batches' /\ Cardinality(batch') = 0
  BY <1>1, FS_EmptySet DEF Batches
<1>4. TypeOK'
  <2>1. Cardinality(batch') <= concurrency'
    BY <1>2, <1>3, ConcurrencyAssumption
  <2> QED
    BY <1>1, <1>2, <2>1 DEF TypeOK, saving
<1> QED
  BY <1>1, <1>3, <1>4, Untouched DEF saving

-------------------------------------------------------------------------------
(* The saver and the restart.                                              *)

LEMMA SaverStep ==
  ASSUME CInv, TakeSnapshot \/ \E succeeds \in BOOLEAN : SaveEnds(succeeds)
  PROVE  CInv'
<1>1. /\ TypeOK /\ Batches /\ Stores /\ InFlight /\ Polite /\ AccountedWhileUp
      /\ UNCHANGED <<shared, work, finished, restarts>>
  BY DEF CInv, TakeSnapshot, SaveEnds
<1>2. Empty \in Snapshots /\ Consistent(Empty.queue, Empty.seen)
  BY EmptyConsistent DEF Empty, Snapshots, EmptySeen, SeenSets
<1>3. /\ saver' \in {"idle", "saving"} /\ {snap', saved'} \subseteq Snapshots
      /\ Consistent(snap'.queue, snap'.seen) /\ Consistent(saved'.queue, saved'.seen)
  <2>1. CASE TakeSnapshot
    <3>1. /\ saver' = "saving" /\ saved' = saved
          /\ snap' = [queue |-> queue, seen |-> seen]
      BY <2>1 DEF TakeSnapshot
    <3>2. snap' \in Snapshots /\ snap'.queue = queue /\ snap'.seen = seen
      BY <1>1, <3>1 DEF TypeOK, Snapshots
    <3> QED
      BY <1>1, <3>1, <3>2 DEF TypeOK, Stores
  <2>2. CASE \E succeeds \in BOOLEAN : SaveEnds(succeeds)
    <3>1. saver' = "idle" /\ snap' = Empty /\ saved' \in {snap, saved}
      BY <2>2 DEF SaveEnds
    <3> QED
      BY <1>1, <1>2, <3>1 DEF TypeOK, Stores
  <2> QED
    BY <2>1, <2>2
<1>4. TypeOK' /\ Batches'
  BY <1>1, <1>3 DEF TypeOK, Batches, shared, work
<1>5. Stores'
  BY <1>1, <1>3 DEF Stores, shared
<1>6. InFlight' /\ Polite' /\ AccountedWhileUp'
  BY <1>1 DEF InFlight, Polite, AccountedWhileUp, Accounted, shared, work
<1> QED
  BY <1>4, <1>5, <1>6 DEF CInv

LEMMA RestartStep ==
  ASSUME CInv, Restart
  PROVE  CInv'
<1>1. /\ TypeOK /\ Batches /\ Stores
      /\ queue' = saved.queue /\ seen' = saved.seen
      /\ holder' = "none" /\ todo' = <<>> /\ room' = LinksPerPage
      /\ concurrency' = StartConcurrency
      /\ batch' = {} /\ fetching' = {} /\ pages' = {}
      /\ saver' = "idle" /\ snap' = Empty
      /\ UNCHANGED <<saved, finished>>
  BY DEF CInv, Restart
<1>2. Empty \in Snapshots /\ Consistent(Empty.queue, Empty.seen)
  BY EmptyConsistent DEF Empty, Snapshots, EmptySeen, SeenSets
<1>3. Cardinality(batch') = 0 /\ IsFiniteSet(batch')
  BY <1>1, FS_EmptySet
<1>4. TypeOK'
  <2>1. Cardinality(batch') <= concurrency' /\ concurrency' \in MinConcurrency..MaxConcurrency
    BY <1>1, <1>3, ConcurrencyAssumption
  <2>2. saved.queue \in [Urls -> Nat] /\ saved.seen \in SeenSets /\ saved \in Snapshots
    BY <1>1 DEF TypeOK, Snapshots
  <2>3. room' \in 0..LinksPerPage /\ todo' \in Seq(Seq(Urls))
    BY <1>1, LimitsAssumption
  <2> QED
    BY <1>1, <1>2, <2>1, <2>2, <2>3 DEF TypeOK
<1>5. Batches'
  BY <1>1, <1>3 DEF Batches, Restart
<1>6. Stores' /\ InFlight' /\ Polite'
  BY <1>1, <1>2 DEF Stores, InFlight, Polite
<1>7. AccountedWhileUp'
  <2>1. restarts' = restarts + 1 /\ restarts \in Nat
    BY <1>1 DEF Batches, Restart
  <2> QED
    BY <2>1 DEF AccountedWhileUp
<1> QED
  BY <1>4, <1>5, <1>6, <1>7 DEF CInv

-------------------------------------------------------------------------------
LEMMA StepCInv == CInv /\ [Next]_vars => CInv'
<1> SUFFICES ASSUME CInv, [Next]_vars
             PROVE  CInv'
  OBVIOUS
<1>1. ASSUME NEW urls \in Payloads, Submit(urls)
      PROVE  CInv'
  <2>1. <<urls>> \in Seq(Seq(Urls))
    BY ShapeAssumption
  <2> QED
    BY <1>1, <2>1, EnqueuerStarts DEF Submit
<1>2. CASE Seed
  <2>1. <<Seeds>> \in Seq(Seq(Urls))
    BY ShapeAssumption
  <2> QED
    BY <1>2, <2>1, EnqueuerStarts DEF Seed
<1>3. ASSUME NEW stale \in SUBSET finished, Refresh(stale)
      PROVE  CInv'
  <2>1. PICK order \in Injection(1..Cardinality(stale), stale) : TakeMutex("refresh", <<order>>)
    BY <1>3 DEF Refresh
  <2>2. stale \in SUBSET Urls /\ IsFiniteSet(stale)
    BY FS_Subset DEF CInv, Batches
  <2>3. order \in Seq(Urls)
    BY <2>2, OrderIsList
  <2>4. <<order>> \in Seq(Seq(Urls))
    BY <2>3
  <2> QED
    BY <1>3, <2>1, <2>4, EnqueuerStarts DEF Refresh
<1>4. CASE EnqueueNext
  BY <1>4, EnqueueStep
<1>5. CASE ReleaseMutex
  <2>1. TypeOK' /\ Batches'
    BY <1>5 DEF ReleaseMutex, CInv, TypeOK, Batches, work, saving
  <2> QED
    BY <1>5, <2>1, Untouched DEF ReleaseMutex, work, saving
<1>6. ASSUME NEW urls \in SUBSET Urls, NEW dropped \in SUBSET Urls, Dequeue(urls, dropped)
      PROVE  CInv'
  BY <1>6, DequeueStep
<1>7. ASSUME NEW u \in Urls, CrawlFails(u) \/ CrawlEnds(u)
      PROVE  CInv'
  BY <1>7, CrawlStep
<1>8. CASE EndBatch
  BY <1>8, EndBatchStep
<1>9. CASE Tune
  BY <1>9, TuneStep
<1>10. CASE Saving
  BY <1>10, SaverStep DEF Saving
<1>11. ASSUME NEW d \in Domains(Urls), Cool(d)
       PROVE  CInv'
  <2>1. TypeOK' /\ Batches'
    BY <1>11 DEF Cool, CInv, TypeOK, Batches, work, saving
  <2> QED
    BY <1>11, <2>1, Untouched DEF Cool, work, saving
<1>12. CASE Restart
  BY <1>12, RestartStep
<1>13. CASE UNCHANGED vars
  <2>1. TypeOK' /\ Batches'
    BY <1>13 DEF vars, CInv, TypeOK, Batches, shared, work, saving
  <2> QED
    BY <1>13, <2>1, Untouched DEF vars, shared, work, saving
<1> QED
  BY <1>1, <1>2, <1>3, <1>4, <1>5, <1>6, <1>7, <1>8, <1>9, <1>10, <1>11, <1>12, <1>13
     DEF Next, Enqueuing, Worker

THEOREM CrawlerInvariant == Spec => []CInv
  BY InitCInv, StepCInv, PTL DEF Spec

\* The state keeps its types; above all the concurrency the worker tunes stays
\* between its bounds, and no batch is larger than it.
THEOREM CrawlerTypeCorrect == Spec => []TypeOK
<1>1. CInv => TypeOK
  BY DEF CInv
<1> QED
  BY <1>1, CrawlerInvariant, PTL

\* Whichever task enqueues it, and whatever snapshot a restart came back with, no
\* URL is queued twice or queued while it is crawled, as long as the seen set has
\* room for all URLs.
THEOREM NothingDoneTwice == Spec => []NoDuplicateWork
<1>1. CInv => NoDuplicateWork
  <2> SUFFICES ASSUME CInv, Fits, NEW u \in Urls
               PROVE  queue[u] + (IF u \in fetching THEN 1 ELSE 0) <= 1
    BY DEF NoDuplicateWork, Fits
  <2>1. queue[u] \in Nat /\ queue[u] <= 1 /\ (u \in fetching => queue[u] = 0)
    BY DEF CInv, TypeOK, Stores, Consistent, InFlight
  <2> QED
    BY <2>1
<1> QED
  BY <1>1, CrawlerInvariant, PTL

\* A batch never has two pages of one domain.
THEOREM StaysPolite == Spec => []Polite
<1>1. CInv => Polite
  BY DEF CInv
<1> QED
  BY <1>1, CrawlerInvariant, PTL

\* The queue keeps its bound, through pushes, snapshots and reloads.
THEOREM QueueStaysBounded == Spec => []QueueBounded
<1>1. CInv => QueueBounded
  BY DEF CInv, Stores, Consistent, QueueBounded, Length
<1> QED
  BY <1>1, CrawlerInvariant, PTL

\* Until the process is killed every URL seen is queued, being crawled, or done.
THEOREM NothingForgottenWhileUp == Spec => []AccountedWhileUp
<1>1. CInv => AccountedWhileUp
  BY DEF CInv
<1> QED
  BY <1>1, CrawlerInvariant, PTL
=============================================================================
