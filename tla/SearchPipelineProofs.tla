------------------------- MODULE SearchPipelineProofs -------------------------
(***************************************************************************)
(* Proofs about a search, for every set of requests: lists of any length,  *)
(* any words, pages and answers of the sources and the intent engine.      *)
(*                                                                         *)
(* What a step computes is a fold over a list.  FoldFacts has the one      *)
(* induction, over the length of the list; for each fold below, XStep is   *)
(* its step, XGood what is kept after n elements, and XFold the instance   *)
(* whose FoldKeeps the lemma cites.                                        *)
(*                                                                         *)
(* In order: lists and pages; each gate keeps a list of pages and leaves   *)
(* something; the merge; what comes after it keeps prices and caps; the    *)
(* reading of a query has the constraints' fields and lists; the           *)
(* invariant of the state machine; the theorems.                           *)
(***************************************************************************)
EXTENDS SearchPipeline, FiniteSetTheorems, SequenceTheorems, TLAPS

-------------------------------------------------------------------------------
(* Lists.                                                                  *)

\* A list has its length, its positions and its elements.
LEMMA ListFacts ==
  ASSUME NEW s, IsList(s)
  PROVE  /\ Len(s) \in Nat /\ DOMAIN s = 1..Len(s) /\ s \in Seq(ToSet(s))
         /\ \A i \in DOMAIN s : s[i] \in ToSet(s)
BY DEF IsList, ToSet

\* A sequence over any set is a list.
LEMMA ListOf ==
  ASSUME NEW T, NEW s \in Seq(T)
  PROVE  IsList(s) /\ ToSet(s) \subseteq T
<1>1. s \in [1..Len(s) -> ToSet(s)]
  BY DEF ToSet
<1> QED
  BY <1>1 DEF IsList, ToSet

\* What is given position by position is a list.
LEMMA ListByPosition ==
  ASSUME NEW n \in Nat, NEW s, s = [i \in 1..n |-> s[i]]
  PROVE  IsList(s) /\ Len(s) = n
<1>1. s \in [1..n -> ToSet(s)]
  BY DEF ToSet
<1> QED
  BY <1>1 DEF IsList

\* The positions of a list with one more element.
LEMMA AppendList ==
  ASSUME NEW s, IsList(s), NEW r
  PROVE  /\ IsList(Append(s, r)) /\ Len(Append(s, r)) = Len(s) + 1
         /\ ToSet(Append(s, r)) = ToSet(s) \cup {r}
         /\ \A i \in 1..Len(s) : Append(s, r)[i] = s[i]
         /\ Append(s, r)[Len(s) + 1] = r
<1> DEFINE T == ToSet(s) \cup {r}
<1>1. s \in Seq(T) /\ r \in T
  BY DEF IsList
<1>2. Append(s, r) \in Seq(T)
  BY <1>1
<1>3. /\ Len(Append(s, r)) = Len(s) + 1
      /\ \A i \in 1..Len(s) : Append(s, r)[i] = s[i]
      /\ Append(s, r)[Len(s) + 1] = r
  BY <1>1
<1>4. T \subseteq ToSet(Append(s, r))
  <2>1. Len(s) \in Nat /\ DOMAIN s = 1..Len(s) /\ DOMAIN Append(s, r) = 1..(Len(s) + 1)
    BY <1>1, <1>2, <1>3
  <2> QED
    BY <1>3, <2>1 DEF ToSet
<1> QED
  BY <1>2, <1>3, <1>4, ListOf

\* One list behind the other.
LEMMA ConcatList ==
  ASSUME NEW s, IsList(s), NEW t, IsList(t)
  PROVE  IsList(s \o t) /\ Len(s \o t) = Len(s) + Len(t) /\ ToSet(s \o t) = ToSet(s) \cup ToSet(t)
<1> DEFINE T == ToSet(s) \cup ToSet(t)
<1>1. s \in Seq(T) /\ t \in Seq(T)
  BY DEF IsList
<1>2. s \o t \in Seq(T)
  BY <1>1
<1>3. /\ Len(s) \in Nat /\ Len(t) \in Nat /\ Len(s \o t) = Len(s) + Len(t)
      /\ DOMAIN s = 1..Len(s) /\ DOMAIN t = 1..Len(t) /\ DOMAIN (s \o t) = 1..(Len(s) + Len(t))
      /\ \A i \in 1..Len(s) : (s \o t)[i] = s[i]
      /\ \A i \in 1..Len(t) : (s \o t)[i + Len(s)] = t[i]
  BY <1>1, <1>2
<1>4. ToSet(s) \subseteq ToSet(s \o t)
  BY <1>3 DEF ToSet
<1>5. ToSet(t) \subseteq ToSet(s \o t)
  <2> SUFFICES ASSUME NEW i \in 1..Len(t) PROVE t[i] \in ToSet(s \o t)
    BY <1>3 DEF ToSet
  <2>1. i + Len(s) \in DOMAIN (s \o t) /\ (s \o t)[i + Len(s)] = t[i]
    BY <1>3
  <2> QED
    BY <2>1 DEF ToSet
<1> QED
  BY <1>2, <1>3, <1>4, <1>5, ListOf

LEMMA EmptyList == IsList(<<>>) /\ Len(<<>>) = 0 /\ ToSet(<<>>) = {}
BY DEF IsList, ToSet

-------------------------------------------------------------------------------
(* The elements at some positions.                                         *)

\* p: the list, the positions
ThoseStep(p, acc, i) == IF i \in p[2] THEN Append(acc, p[1][i]) ELSE acc
ThoseGood(p, n, acc) ==
  /\ IsList(acc)
  /\ ToSet(acc) = {p[1][i] : i \in p[2] \cap (1..n)}
  /\ Len(acc) = Cardinality(p[2] \cap (1..n))
ThoseFold == INSTANCE FoldFacts WITH Step <- ThoseStep, Good <- ThoseGood

\* Those is the fold of ThoseStep.
LEMMA ThoseIs ==
  ASSUME NEW list, NEW S
  PROVE  Those(list, S) = ThoseFold!Fold(<<list, S>>, <<>>, Positions(list))
BY DEF Those, ThoseStep, ThoseFold!Fold, ThoseFold!MapThenFoldSet, FoldLeft, MapThenFoldSet,
   Max, ThoseFold!Max

\* Those has exactly the elements asked for, each position once.
LEMMA ThoseFacts ==
  ASSUME NEW list, IsList(list), NEW S
  PROVE  /\ IsList(Those(list, S))
         /\ ToSet(Those(list, S)) = {list[i] : i \in S \cap DOMAIN list}
         /\ Len(Those(list, S)) = Cardinality(S \cap DOMAIN list)
<1> DEFINE p == <<list, S>>
           n == Len(list)
           at == Positions(list)
<1>1. n \in Nat /\ DOMAIN list = 1..n /\ DOMAIN at = 1..n /\ \A i \in 1..n : at[i] = i
  BY ListFacts DEF Positions
<1>2. ThoseGood(p, 0, <<>>)
  <2>1. S \cap (1..0) = {}
    OBVIOUS
  <2> QED
    BY <2>1, EmptyList, FS_EmptySet DEF ThoseGood
<1>3. ASSUME NEW i \in 0..(n - 1), NEW acc, ThoseGood(p, i, acc)
      PROVE  ThoseGood(p, i + 1, ThoseStep(p, acc, at[i + 1]))
  <2>1. i \in Nat /\ i + 1 \in 1..n /\ at[i + 1] = i + 1
    BY <1>1
  <2>2. CASE i + 1 \in S
    <3>1. S \cap (1..(i + 1)) = (S \cap (1..i)) \cup {i + 1} /\ i + 1 \notin S \cap (1..i)
      BY <2>1, <2>2
    <3>2. IsFiniteSet(S \cap (1..i))
      <4>1. IsFiniteSet(1..i) /\ S \cap (1..i) \subseteq 1..i
        BY <2>1, FS_Interval
      <4> QED
        BY <4>1, FS_Subset
    <3>3. Cardinality(S \cap (1..(i + 1))) = Cardinality(S \cap (1..i)) + 1
      BY <3>1, <3>2, FS_AddElement
    <3>4. ThoseStep(p, acc, at[i + 1]) = Append(acc, list[i + 1])
      BY <2>1, <2>2 DEF ThoseStep
    <3>5. {list[k] : k \in S \cap (1..(i + 1))} = {list[k] : k \in S \cap (1..i)} \cup {list[i + 1]}
      BY <3>1
    <3>6. /\ IsList(acc) /\ ToSet(acc) = {list[k] : k \in S \cap (1..i)}
          /\ Len(acc) = Cardinality(S \cap (1..i))
      BY <1>3 DEF ThoseGood
    <3>7. /\ IsList(Append(acc, list[i + 1])) /\ Len(Append(acc, list[i + 1])) = Len(acc) + 1
          /\ ToSet(Append(acc, list[i + 1])) = ToSet(acc) \cup {list[i + 1]}
      BY <3>6, AppendList
    <3> QED
      BY <3>3, <3>4, <3>5, <3>6, <3>7 DEF ThoseGood
  <2>3. CASE i + 1 \notin S
    <3>1. S \cap (1..(i + 1)) = S \cap (1..i)
      BY <2>1, <2>3
    <3> QED
      BY <1>3, <2>1, <2>3, <3>1 DEF ThoseGood, ThoseStep
  <2> QED
    BY <2>2, <2>3
<1>4. ThoseGood(p, n, ThoseFold!Fold(p, <<>>, at))
  <2> HIDE DEF p, at, n
  <2> QED BY <1>1, <1>2, <1>3, ThoseFold!FoldKeeps
<1> QED
  BY <1>1, <1>4, ThoseIs DEF ThoseGood

-------------------------------------------------------------------------------
(* The stable sort.                                                        *)

\* An insertion adds its position and loses none.
LEMMA InsertFacts ==
  ASSUME NEW order, IsList(order), NEW keys, NEW i
  PROVE  /\ IsList(Insert(order, keys, i)) /\ Len(Insert(order, keys, i)) = Len(order) + 1
         /\ ToSet(Insert(order, keys, i)) = ToSet(order) \cup {i}
<1> DEFINE D == DOMAIN order
           L == {k \in D : keys[order[k]] >= keys[i]}
           front == Those(order, L)
           back == Those(order, D \ L)
<1>1. D = 1..Len(order) /\ Len(order) \in Nat /\ IsFiniteSet(D) /\ Cardinality(D) = Len(order)
  BY ListFacts, FS_Interval
<1>2. L \cap D = L /\ (D \ L) \cap D = D \ L
  OBVIOUS
<1>3. /\ IsList(front) /\ ToSet(front) = {order[k] : k \in L} /\ Len(front) = Cardinality(L)
      /\ IsList(back) /\ ToSet(back) = {order[k] : k \in D \ L} /\ Len(back) = Cardinality(D \ L)
  <2> HIDE DEF L
  <2>1. L \cap D = L
    BY <1>2
  <2> QED
    BY <1>2, <2>1, ThoseFacts
<1>4. Cardinality(L) \in Nat /\ Cardinality(D \ L) \in Nat /\ Cardinality(L) + Cardinality(D \ L) = Len(order)
  <2> HIDE DEF L, D
  <2>1. L \subseteq D
    BY DEF L
  <2>2. L \cap D = L /\ IsFiniteSet(L) /\ IsFiniteSet(D \ L)
    BY <1>1, <2>1, FS_Subset
  <2>3. Cardinality(D \ L) = Cardinality(D) - Cardinality(D \cap L)
    BY <1>1, FS_Difference
  <2>4. D \cap L = L
    BY <2>1
  <2>5. Cardinality(L) \in Nat /\ Cardinality(D \ L) \in Nat /\ Cardinality(D) \in Nat
    BY <1>1, <2>2, FS_CardinalityType
  <2>6. Cardinality(D \ L) = Cardinality(D) - Cardinality(L)
    BY <2>3, <2>4, Zenon
  <2> QED
    BY <1>1, <2>5, <2>6
<1>5. /\ IsList(Append(front, i)) /\ Len(Append(front, i)) = Len(front) + 1
      /\ ToSet(Append(front, i)) = ToSet(front) \cup {i}
  BY <1>3, AppendList
<1>6. /\ IsList(Append(front, i) \o back) /\ Len(Append(front, i) \o back) = Len(front) + 1 + Len(back)
      /\ ToSet(Append(front, i) \o back) = ToSet(front) \cup {i} \cup ToSet(back)
  BY <1>3, <1>5, ConcatList
<1>7. ToSet(front) \cup ToSet(back) = ToSet(order)
  BY <1>3 DEF ToSet
<1>8. Insert(order, keys, i) = Append(front, i) \o back
  BY DEF Insert
<1> HIDE DEF front, back, D, L
<1>9. Len(Append(front, i) \o back) = Len(order) + 1
  BY <1>1, <1>3, <1>4, <1>6
<1> QED
  BY <1>6, <1>7, <1>8, <1>9

\* p: the keys
OrderStep(p, acc, i) == Insert(acc, p, i)
OrderGood(p, n, acc) == IsList(acc) /\ Len(acc) = n /\ ToSet(acc) = 1..n
OrderFold == INSTANCE FoldFacts WITH Step <- OrderStep, Good <- OrderGood

\* A sort has each position once, whatever the keys are.
LEMMA OrderFacts ==
  ASSUME NEW keys, NEW n \in Nat, DOMAIN keys = 1..n
  PROVE  IsList(Order(keys)) /\ Len(Order(keys)) = n /\ ToSet(Order(keys)) = 1..n
<1> DEFINE at == Positions(keys)
<1>1. DOMAIN at = 1..n /\ \A i \in 1..n : at[i] = i
  BY DEF Positions
<1>2. OrderGood(keys, 0, <<>>)
  BY EmptyList DEF OrderGood
<1>3. ASSUME NEW i \in 0..(n - 1), NEW acc, OrderGood(keys, i, acc)
      PROVE  OrderGood(keys, i + 1, OrderStep(keys, acc, at[i + 1]))
  <2>1. i \in Nat /\ i + 1 \in 1..n /\ at[i + 1] = i + 1 /\ 1..(i + 1) = (1..i) \cup {i + 1}
    BY <1>1
  <2>2. IsList(acc) /\ Len(acc) = i /\ ToSet(acc) = 1..i
    BY <1>3 DEF OrderGood
  <2>3. /\ IsList(Insert(acc, keys, i + 1)) /\ Len(Insert(acc, keys, i + 1)) = i + 1
        /\ ToSet(Insert(acc, keys, i + 1)) = (1..i) \cup {i + 1}
    BY <2>2, InsertFacts
  <2> QED
    BY <2>1, <2>3 DEF OrderGood, OrderStep
<1>4. Order(keys) = OrderFold!Fold(keys, <<>>, at)
  BY DEF Order, OrderStep, OrderFold!Fold, OrderFold!MapThenFoldSet, FoldLeft,
         MapThenFoldSet, Max, OrderFold!Max
<1>5. OrderGood(keys, n, OrderFold!Fold(keys, <<>>, at))
  <2> HIDE DEF at
  <2> QED BY <1>1, <1>2, <1>3, OrderFold!FoldKeeps
<1> QED
  BY <1>4, <1>5 DEF OrderGood

\* A sorted list has the elements of the list, and as many.
LEMMA SortedFacts ==
  ASSUME NEW list, IsList(list), NEW keys, DOMAIN keys = DOMAIN list
  PROVE  LET order == Order(keys)
             out == [k \in DOMAIN order |-> list[order[k]]]
         IN IsList(out) /\ Len(out) = Len(list) /\ ToSet(out) = ToSet(list)
<1> DEFINE order == Order(keys)
           out == [k \in DOMAIN order |-> list[order[k]]]
           n == Len(list)
<1>1. n \in Nat /\ DOMAIN list = 1..n
  BY ListFacts
<1>2. IsList(order) /\ Len(order) = n /\ ToSet(order) = 1..n
  BY <1>1, OrderFacts
<1>3. DOMAIN order = 1..n
  BY <1>2, ListFacts
<1>4. IsList(out) /\ Len(out) = n
  <2> HIDE DEF order
  <2>1. out = [i \in 1..n |-> out[i]]
    BY <1>3
  <2> HIDE DEF out
  <2> QED BY <1>1, <2>1, ListByPosition
<1>5. ToSet(out) = ToSet(list)
  <2> HIDE DEF order
  <2>1. ToSet(out) = {list[order[k]] : k \in 1..n}
    BY <1>3 DEF ToSet
  <2>2. ToSet(order) = {order[k] : k \in 1..n}
    BY <1>3 DEF ToSet
  <2>3. ToSet(list) = {list[k] : k \in 1..n}
    BY <1>1 DEF ToSet
  <2> QED
    BY <1>2, <2>1, <2>2, <2>3
<1> QED
  BY <1>4, <1>5

-------------------------------------------------------------------------------
(* Lists of pages.                                                         *)

IsPage(r) == PageFields \subseteq DOMAIN r

\* A shelf is a list whose elements are pages.
LEMMA ShelfFacts ==
  ASSUME NEW s
  PROVE  IsShelf(s) <=> IsList(s) /\ \A r \in ToSet(s) : IsPage(r)
BY DEF IsShelf, IsPage, ToSet

\* Whatever is done to a page by EXCEPT leaves its fields.
LEMMA ScoredPage ==
  ASSUME NEW r, IsPage(r), NEW v
  PROVE  LET u == [r EXCEPT !.score = v] IN
         /\ IsPage(u) /\ u.score = v
         /\ \A f \in PageFields \ {"score"} : u[f] = r[f]
BY DEF IsPage, PageFields

LEMMA EmptyShelf == IsShelf(<<>>)
BY EmptyList, ShelfFacts

\* Pages of a shelf are a shelf.
LEMMA PartOfShelf ==
  ASSUME NEW s, IsShelf(s), NEW t, IsList(t), ToSet(t) \subseteq ToSet(s)
  PROVE  IsShelf(t)
BY ShelfFacts

LEMMA ThoseOfShelf ==
  ASSUME NEW s, IsShelf(s), NEW S
  PROVE  IsShelf(Those(s, S))
<1>1. IsList(s)
  BY ShelfFacts
<1>2. IsList(Those(s, S)) /\ ToSet(Those(s, S)) = {s[i] : i \in S \cap DOMAIN s}
  BY <1>1, ThoseFacts
<1>3. ToSet(Those(s, S)) \subseteq ToSet(s)
  BY <1>2 DEF ToSet
<1> QED
  BY <1>2, <1>3, PartOfShelf

LEMMA AppendShelf ==
  ASSUME NEW s, IsShelf(s), NEW r, IsPage(r)
  PROVE  IsShelf(Append(s, r))
BY AppendList, ShelfFacts

LEMMA ConcatShelf ==
  ASSUME NEW s, IsShelf(s), NEW t, IsShelf(t)
  PROVE  IsShelf(s \o t)
BY ConcatList, ShelfFacts

\* A list with a page for each page of another.
LEMMA MappedShelf ==
  ASSUME NEW s, IsShelf(s), NEW t, t = [i \in DOMAIN s |-> t[i]], \A i \in DOMAIN s : IsPage(t[i])
  PROVE  IsShelf(t) /\ Len(t) = Len(s) /\ DOMAIN t = DOMAIN s
<1>1. Len(s) \in Nat /\ DOMAIN s = 1..Len(s)
  BY ListFacts, ShelfFacts
<1>2. IsList(t) /\ Len(t) = Len(s)
  BY <1>1, ListByPosition
<1>3. \A r \in ToSet(t) : IsPage(r)
  BY DEF ToSet
<1> QED
  BY <1>2, <1>3, ShelfFacts

\* Sorting by any keys keeps a shelf and its pages.
LEMMA SortedShelf ==
  ASSUME NEW s, IsShelf(s), NEW keys, DOMAIN keys = DOMAIN s
  PROVE  LET order == Order(keys)
             t == [k \in DOMAIN order |-> s[order[k]]]
         IN IsShelf(t) /\ Len(t) = Len(s) /\ ToSet(t) = ToSet(s)
<1>1. IsList(s)
  BY ShelfFacts
<1> QED
  BY <1>1, SortedFacts, PartOfShelf

LEMMA ByScoreShelf ==
  ASSUME NEW s, IsShelf(s)
  PROVE  IsShelf(ByScore(s))
<1> DEFINE keys == [i \in DOMAIN s |-> s[i].score]
<1>1. DOMAIN keys = DOMAIN s
  OBVIOUS
<1>2. ByScore(s) = LET order == Order(keys) IN [k \in DOMAIN order |-> s[order[k]]]
  BY DEF ByScore, Descending, Map
<1> HIDE DEF keys
<1> QED
  BY <1>1, <1>2, SortedShelf

-------------------------------------------------------------------------------
(* What the sources return.                                                *)



LEMMA GatherShelf ==
  ASSUME NEW g, IsShelf(g.web), NEW batch, IsShelf(batch), NEW weight
  PROVE  IsShelf(Gather(g, batch, weight).web)
BY ConcatShelf DEF Gather

\* p: the answers, one per instance
AnswersStep(p, acc, batch) == Gather(acc, batch, 100)
AnswersGood(p, n, acc) == IsShelf(acc.web)
AnswersFold == INSTANCE FoldFacts WITH Step <- AnswersStep, Good <- AnswersGood

\* The answers of all instances, folded into one list.
LEMMA AnswersShelf ==
  ASSUME NEW lists, NEW n \in Nat, DOMAIN lists = 1..n, \A i \in 1..n : IsShelf(lists[i])
  PROVE  LET add(acc, batch) == Gather(acc, batch, 100) IN
         IsShelf(FoldLeft(add, [web |-> <<>>, rrf |-> <<>>], lists).web)
<1> DEFINE b == [web |-> <<>>, rrf |-> <<>>]
<1>1. AnswersGood(lists, 0, b)
  BY EmptyShelf DEF AnswersGood
<1>2. ASSUME NEW i \in 0..(n - 1), NEW acc, AnswersGood(lists, i, acc)
      PROVE  AnswersGood(lists, i + 1, AnswersStep(lists, acc, lists[i + 1]))
  BY <1>2, GatherShelf DEF AnswersGood, AnswersStep
<1>3. AnswersGood(lists, n, AnswersFold!Fold(lists, b, lists))
  <2> HIDE DEF b
  <2> QED BY <1>1, <1>2, AnswersFold!FoldKeeps
<1> QED
  BY <1>3 DEF AnswersGood, AnswersStep, AnswersFold!Fold, AnswersFold!MapThenFoldSet,
     FoldLeft, MapThenFoldSet, Max, AnswersFold!Max

\* p: the answer and its weight
RetryStep(p, acc, n) ==
  IF p[1][n].id \in DOMAIN acc.rrf THEN acc
  ELSE [web |-> Append(acc.web, p[1][n]), rrf |-> Earn(acc.rrf, p[1][n].id, n, p[2])]
RetryGood(p, n, acc) == IsShelf(acc.web)
RetryFold == INSTANCE FoldFacts WITH Step <- RetryStep, Good <- RetryGood

\* The retry adds only pages it has not met.
LEMMA GatherNewShelf ==
  ASSUME NEW g, IsShelf(g.web), NEW batch, IsShelf(batch), NEW weight
  PROVE  IsShelf(GatherNew(g, batch, weight).web)
<1> DEFINE p == <<batch, weight>>
           at == [n \in DOMAIN batch |-> n]
           n == Len(batch)
<1>1. n \in Nat /\ DOMAIN batch = 1..n /\ DOMAIN at = 1..n /\ \A i \in 1..n : at[i] = i /\ IsPage(batch[i])
  BY ShelfFacts, ListFacts
<1>2. RetryGood(p, 0, g)
  BY DEF RetryGood
<1>3. ASSUME NEW i \in 0..(n - 1), NEW acc, RetryGood(p, i, acc)
      PROVE  RetryGood(p, i + 1, RetryStep(p, acc, at[i + 1]))
  <2>1. i + 1 \in 1..n /\ at[i + 1] = i + 1
    BY <1>1
  <2>2. IsShelf(Append(acc.web, batch[i + 1]))
    BY <1>1, <1>3, <2>1, AppendShelf DEF RetryGood
  <2> QED
    BY <1>3, <2>1, <2>2 DEF RetryGood, RetryStep
<1>4. GatherNew(g, batch, weight) = RetryFold!Fold(p, g, at)
  BY DEF GatherNew, RetryStep, RetryFold!Fold, RetryFold!MapThenFoldSet, FoldLeft,
         MapThenFoldSet, Max, RetryFold!Max
<1>5. RetryGood(p, n, RetryFold!Fold(p, g, at))
  <2> HIDE DEF p, at, n
  <2> QED BY <1>1, <1>2, <1>3, RetryFold!FoldKeeps
<1> QED
  BY <1>4, <1>5 DEF RetryGood

FuseStep(p, acc, r) ==
  IF r.id \in Ids(acc)
  THEN Map(acc, LAMBDA a : IF a.id = r.id THEN [a EXCEPT !.score = Most(@, r.score)] ELSE a)
  ELSE Append(acc, r)
FuseGood(p, n, acc) == IsShelf(acc)
FuseFold == INSTANCE FoldFacts WITH Step <- FuseStep, Good <- FuseGood

\* The hits by meaning are fused into the local ones or added.
LEMMA FuseShelf ==
  ASSUME NEW local, IsShelf(local), NEW batch, IsShelf(batch)
  PROVE  IsShelf(FuseVector(local, batch))
<1>1. Len(batch) \in Nat /\ DOMAIN batch = 1..Len(batch) /\ \A i \in 1..Len(batch) : IsPage(batch[i])
  BY ShelfFacts, ListFacts
<1>2. ASSUME NEW acc, IsShelf(acc), NEW r, IsPage(r)
      PROVE  IsShelf(FuseStep({}, acc, r))
  <2> DEFINE t == [i \in DOMAIN acc |-> IF acc[i].id = r.id THEN [acc[i] EXCEPT !.score = Most(@, r.score)] ELSE acc[i]]
  <2>1. t = [i \in DOMAIN acc |-> t[i]] /\ \A i \in DOMAIN acc : IsPage(t[i])
    <3>1. \A i \in DOMAIN acc : IsPage(acc[i])
      BY <1>2, ShelfFacts DEF ToSet
    <3> QED
      BY <3>1 DEF IsPage
  <2>2. IsShelf(t)
    <3> HIDE DEF t
    <3> QED BY <1>2, <2>1, MappedShelf
  <2> QED
    BY <1>2, <2>2, AppendShelf DEF FuseStep, Map
<1>3. ASSUME NEW i \in 0..(Len(batch) - 1), NEW acc, FuseGood({}, i, acc)
      PROVE  FuseGood({}, i + 1, FuseStep({}, acc, batch[i + 1]))
  BY <1>1, <1>2, <1>3 DEF FuseGood
<1>4. FuseGood({}, Len(batch), FuseFold!Fold({}, local, batch))
  <2>1. FuseGood({}, 0, local)
    BY DEF FuseGood
  <2> QED
    BY <1>1, <1>3, <2>1, FuseFold!FoldKeeps
<1> QED
  BY <1>4 DEF FuseGood, FuseStep, FuseVector, FuseFold!Fold, FuseFold!MapThenFoldSet, FoldLeft,
     MapThenFoldSet, Max, FuseFold!Max

\* A HashMap returns its values in any order.
LEMMA AnyOrderShelf ==
  ASSUME NEW s, IsShelf(s), NEW t \in AnyOrder(s)
  PROVE  IsShelf(t)
<1>1. PICK perm \in Bijection(DOMAIN s, DOMAIN s) : t = [i \in DOMAIN s |-> s[perm[i]]]
  BY DEF AnyOrder
<1>2. perm \in [DOMAIN s -> DOMAIN s]
  BY DEF Bijection, Injection
<1>3. \A i \in DOMAIN s : IsPage(s[i])
  BY ShelfFacts DEF ToSet
<1>4. t = [i \in DOMAIN s |-> t[i]] /\ \A i \in DOMAIN s : IsPage(t[i])
  BY <1>1, <1>2, <1>3
<1> QED
  BY <1>4, MappedShelf

LEMMA AddLocalShelf ==
  ASSUME NEW local, IsShelf(local), NEW batch, IsShelf(batch)
  PROVE  IsShelf(AddLocal(local, batch))
BY ThoseOfShelf, ConcatShelf DEF AddLocal, Keep

LEMMA NotEmpty ==
  ASSUME NEW s, IsList(s)
  PROVE  s # <<>> <=> Len(s) > 0
BY DEF IsList

LEMMA StartOfShelf ==
  ASSUME NEW s, IsShelf(s), NEW n \in 0..Len(s)
  PROVE  IsShelf(SubSeq(s, 1, n)) /\ Len(SubSeq(s, 1, n)) = n
<1>1. s \in Seq(ToSet(s)) /\ Len(s) \in Nat
  BY ListFacts, ShelfFacts
<1>2. SubSeq(s, 1, n) \in Seq(ToSet(s)) /\ Len(SubSeq(s, 1, n)) = n
  BY <1>1
<1>3. IsList(SubSeq(s, 1, n)) /\ ToSet(SubSeq(s, 1, n)) \subseteq ToSet(s)
  BY <1>2, ListOf
<1> QED
  BY <1>2, <1>3, PartOfShelf

-------------------------------------------------------------------------------
(* The gates before the merge.                                             *)

DedupStep(p, acc, r) ==
  LET engine == <<Head(r.sources)>>
      listed == Cardinality({i \in DOMAIN acc : acc[i].host = r.host}) IN
  CASE listed >= HostQuota -> acc
    [] listed < HostQuota /\ r.id \in Ids(acc) ->
         Map(acc, LAMBDA a : IF a.id = r.id THEN [a EXCEPT !.sources = FoldLeft(Append1, @, engine)] ELSE a)
    [] OTHER -> Append(acc, [r EXCEPT !.sources = engine])
DedupGood(p, n, acc) == IsShelf(acc) /\ (n > 0 => Len(acc) > 0)
DedupFold == INSTANCE FoldFacts WITH Step <- DedupStep, Good <- DedupGood

\* A page is dropped only if its host has others already.
LEMMA DedupStepShelf ==
  ASSUME NEW acc, IsShelf(acc), NEW r, IsPage(r)
  PROVE  IsShelf(DedupStep({}, acc, r)) /\ Len(DedupStep({}, acc, r)) > 0
<1> DEFINE engine == <<Head(r.sources)>>
           alike == {i \in DOMAIN acc : acc[i].host = r.host}
           t == [i \in DOMAIN acc |->
                   IF acc[i].id = r.id THEN [acc[i] EXCEPT !.sources = FoldLeft(Append1, @, engine)] ELSE acc[i]]
           u == [r EXCEPT !.sources = engine]
<1>1. IsList(acc) /\ Len(acc) \in Nat /\ DOMAIN acc = 1..Len(acc) /\ \A i \in DOMAIN acc : IsPage(acc[i])
  <2>1. IsList(acc)
    BY ShelfFacts
  <2>2. Len(acc) \in Nat /\ DOMAIN acc = 1..Len(acc)
    BY <2>1, ListFacts
  <2>3. \A i \in DOMAIN acc : IsPage(acc[i])
    BY ShelfFacts DEF ToSet
  <2> QED BY <2>1, <2>2, <2>3
<1>2. IsShelf(t) /\ Len(t) = Len(acc)
  <2>1. t = [i \in DOMAIN acc |-> t[i]]
    OBVIOUS
  <2>2. \A i \in DOMAIN acc : IsPage(t[i])
    BY <1>1 DEF IsPage
  <2> HIDE DEF t
  <2> QED BY <2>1, <2>2, MappedShelf
<1> DEFINE more == Append(acc, u)
<1>3. IsShelf(more) /\ Len(more) > 0
  <2>1. IsPage(u)
    BY DEF IsPage
  <2> HIDE DEF u
  <2>2. IsShelf(more) /\ Len(more) = Len(acc) + 1
    BY <1>1, <2>1, AppendShelf, AppendList
  <2> HIDE DEF more
  <2> QED BY <1>1, <2>2
<1>4. Cardinality(alike) \in Nat /\ (Cardinality(alike) >= HostQuota => Len(acc) > 0)
  <2>1. IsFiniteSet(1..Len(acc)) /\ alike \subseteq 1..Len(acc)
    BY <1>1, FS_Interval
  <2>2. IsFiniteSet(alike) /\ Cardinality(alike) <= Len(acc) /\ Cardinality(alike) \in Nat
    <3> HIDE DEF alike
    <3>1. IsFiniteSet(alike) /\ Cardinality(alike) <= Cardinality(1..Len(acc))
      BY <2>1, FS_Subset
    <3>2. Cardinality(1..Len(acc)) = Len(acc)
      BY <1>1, FS_Interval
    <3>3. Cardinality(alike) \in Nat
      BY <3>1, FS_CardinalityType
    <3> QED BY <3>1, <3>2, <3>3
  <2> HIDE DEF alike
  <2> QED BY <2>2, <1>1 DEF HostQuota
<1>5. r.id \in Ids(acc) => Len(acc) > 0
  BY <1>1 DEF Ids
<1>6. DedupStep({}, acc, r) = CASE Cardinality(alike) >= HostQuota -> acc
                                [] Cardinality(alike) < HostQuota /\ r.id \in Ids(acc) -> t
                                [] OTHER -> more
  BY DEF DedupStep, Map
<1> HIDE DEF alike, t, more
<1>7. CASE Cardinality(alike) >= HostQuota
  <2>1. DedupStep({}, acc, r) = acc
    BY <1>4, <1>6, <1>7 DEF HostQuota
  <2> QED BY <1>4, <1>7, <2>1
<1>8. CASE Cardinality(alike) < HostQuota /\ r.id \in Ids(acc)
  <2>1. DedupStep({}, acc, r) = t
    BY <1>4, <1>6, <1>8 DEF HostQuota
  <2> QED BY <1>2, <1>5, <1>8, <2>1
<1>9. CASE ~(Cardinality(alike) >= HostQuota) /\ ~(Cardinality(alike) < HostQuota /\ r.id \in Ids(acc))
  <2>1. DedupStep({}, acc, r) = more
    BY <1>6, <1>9
  <2> QED BY <1>3, <2>1
<1> QED BY <1>7, <1>8, <1>9

\* The quota of a host never empties the list.
LEMMA DedupShelf ==
  ASSUME NEW g, IsShelf(g.web)
  PROVE  IsShelf(DedupWeb(g)) /\ (g.web # <<>> => Len(DedupWeb(g)) > 0)
<1> DEFINE s == g.web
           n == Len(s)
<1>1. n \in Nat /\ DOMAIN s = 1..n /\ \A i \in 1..n : IsPage(s[i])
  BY ShelfFacts, ListFacts
<1>2. DedupGood({}, 0, <<>>)
  BY EmptyShelf DEF DedupGood
<1>3. ASSUME NEW i \in 0..(n - 1), NEW acc, DedupGood({}, i, acc)
      PROVE  DedupGood({}, i + 1, DedupStep({}, acc, s[i + 1]))
  <2>1. IsPage(s[i + 1]) /\ IsShelf(acc)
    BY <1>1, <1>3 DEF DedupGood
  <2> QED
    BY <2>1, DedupStepShelf DEF DedupGood
<1>4. DedupWeb(g) = DedupFold!Fold({}, <<>>, s)
  BY DEF DedupWeb, DedupStep, DedupFold!Fold, DedupFold!MapThenFoldSet, FoldLeft,
         MapThenFoldSet, Max, DedupFold!Max
<1>5. DedupGood({}, n, DedupFold!Fold({}, <<>>, s))
  <2> HIDE DEF n, s
  <2> QED BY <1>1, <1>2, <1>3, DedupFold!FoldKeeps
<1>6. s # <<>> => n > 0
  BY ShelfFacts, NotEmpty
<1> QED
  BY <1>4, <1>5, <1>6 DEF DedupGood

\* Ranking rewrites the scores of the list it is given.
LEMMA RankShelf ==
  ASSUME NEW s, IsShelf(s), NEW rrf
  PROVE  IsShelf(NormaliseRank(s, rrf)) /\ Len(NormaliseRank(s, rrf)) = Len(s)
<1> DEFINE t == [i \in DOMAIN s |-> IF s[i].id \in DOMAIN rrf THEN [s[i] EXCEPT !.score = rrf[s[i].id]] ELSE s[i]]
           top == Best(t)
           u == [i \in DOMAIN t |-> [t[i] EXCEPT !.score = (@ * One) \div top]]
<1>1. \A i \in DOMAIN s : IsPage(s[i])
  BY ShelfFacts DEF ToSet
<1>2. IsShelf(t) /\ Len(t) = Len(s) /\ DOMAIN t = DOMAIN s
  <2>1. t = [i \in DOMAIN s |-> t[i]] /\ \A i \in DOMAIN s : IsPage(t[i])
    BY <1>1 DEF IsPage
  <2> HIDE DEF t
  <2> QED BY <2>1, MappedShelf
<1>3. IsShelf(u) /\ Len(u) = Len(t)
  <2>1. \A i \in DOMAIN t : IsPage(t[i])
    BY <1>2, ShelfFacts DEF ToSet
  <2> HIDE DEF t
  <2>2. u = [i \in DOMAIN t |-> u[i]] /\ \A i \in DOMAIN t : IsPage(u[i])
    BY <2>1 DEF IsPage
  <2> HIDE DEF u
  <2> QED BY <1>2, <2>2, MappedShelf
<1>4. NormaliseRank(s, rrf) = IF top = 0 THEN t ELSE u
  BY DEF NormaliseRank, Map
<1> QED
  BY <1>2, <1>3, <1>4

\* A filter keeps pages of its list.
LEMMA KeepShelf ==
  ASSUME NEW s, IsShelf(s), NEW S, NEW t, t = Those(s, S)
  PROVE  IsShelf(t) /\ ToSet(t) \subseteq ToSet(s)
<1>1. IsList(s)
  BY ShelfFacts
<1>2. ToSet(t) = {s[i] : i \in S \cap DOMAIN s}
  BY <1>1, ThoseFacts
<1> QED
  BY <1>2, ThoseOfShelf DEF ToSet

\* The bar falls back to the first results when none is above it.
LEMMA KeptShelf ==
  ASSUME NEW s, IsShelf(s), NEW query, NEW onlyNegative
  PROVE  /\ IsShelf(SemanticKept(s, query, onlyNegative))
         /\ s # <<>> => Len(SemanticKept(s, query, onlyNegative)) > 0
<1> DEFINE keys == [i \in DOMAIN s |-> SemanticRelevance(query, s[i])]
           over == Keep(s, LAMBDA r : SemanticRelevance(query, r) >= SemanticBar(Len(s)))
           top == LET order == Order(keys) IN [k \in DOMAIN order |-> s[order[k]]]
           few == SubSeq(top, 1, Least(Len(top), 3))
<1>1. IsList(s) /\ Len(s) \in Nat /\ (s # <<>> => Len(s) > 0)
  BY ShelfFacts, ListFacts, NotEmpty
<1>2. IsShelf(over)
  BY KeepShelf DEF Keep
<1>3. IsShelf(top) /\ Len(top) = Len(s)
  <2>1. DOMAIN keys = DOMAIN s
    OBVIOUS
  <2> HIDE DEF keys
  <2> QED BY <2>1, SortedShelf
<1>4. IsShelf(few) /\ (s # <<>> => Len(few) > 0)
  <2> HIDE DEF top
  <2>1. Least(Len(top), 3) \in 0..Len(top) /\ (s # <<>> => Least(Len(top), 3) > 0)
    BY <1>1, <1>3 DEF Least
  <2> QED BY <1>3, <2>1, StartOfShelf
<1>5. SemanticKept(s, query, onlyNegative) =
        CASE Garbage(s, query, onlyNegative) -> s
          [] ~Garbage(s, query, onlyNegative) /\ Len(over) >= 3 -> over
          [] OTHER -> few
  BY DEF SemanticKept, Descending, Map
<1>6. Len(over) >= 3 => Len(over) > 0
  <2> HIDE DEF over
  <2>1. Len(over) \in Nat
    BY <1>2, ShelfFacts, ListFacts
  <2> QED BY <2>1
<1> HIDE DEF over, few
<1> QED
  BY <1>1, <1>2, <1>4, <1>5, <1>6

\* Titles about a superlative are the one thing that may empty the list.
LEMMA SemanticShelf ==
  ASSUME NEW s, IsShelf(s), NEW query, NEW onlyNegative
  PROVE  /\ IsShelf(SemanticFilter(s, query, onlyNegative))
         /\ s # <<>> /\ ~(Superlative(query) /\ Garbage(s, query, onlyNegative))
            => Len(SemanticFilter(s, query, onlyNegative)) > 0
<1> DEFINE kept == SemanticKept(s, query, onlyNegative)
           bad == Garbage(s, query, onlyNegative)
           topics == SelectSeq(query, LAMBDA w : w \notin Superlatives /\ Kind[w] \cap {"stop", "digits", "short"} = {})
           plain == Keep(kept, LAMBDA r : Superlative(r.title) => \E i \in DOMAIN topics : Has(r.title, topics[i]))
<1>1. IsShelf(kept) /\ (s # <<>> => Len(kept) > 0)
  BY KeptShelf
<1>2. IsShelf(plain) /\ (plain # <<>> => Len(plain) > 0)
  <2> HIDE DEF kept
  <2>1. IsShelf(plain)
    BY <1>1, KeepShelf DEF Keep
  <2> HIDE DEF plain
  <2> QED BY <2>1, ShelfFacts, NotEmpty
<1>3. SemanticFilter(s, query, onlyNegative) =
        IF Superlative(query) /\ topics # <<>> /\ (plain # <<>> \/ bad) THEN plain ELSE kept
  BY DEF SemanticFilter, DropSuperlatives
<1> HIDE DEF kept, bad, plain, topics
<1> QED
  BY <1>1, <1>2, <1>3 DEF bad

\* The early filter fails open.
LEMMA PreFilterShelf ==
  ASSUME NEW s, IsShelf(s), NEW b
  PROVE  IsShelf(PreFilter(s, b)) /\ (s # <<>> => Len(PreFilter(s, b)) > 0)
<1> DEFINE kept == Keep(s, LAMBDA r : ~ShouldFilter(r, b))
<1>1. IsShelf(kept)
  BY KeepShelf DEF Keep
<1>2. PreFilter(s, b) = IF Constrained(b) /\ kept # <<>> THEN kept ELSE s
  BY DEF PreFilter
<1> HIDE DEF kept
<1>3. (kept # <<>> => Len(kept) > 0) /\ (s # <<>> => Len(s) > 0)
  BY <1>1, ShelfFacts, NotEmpty
<1> QED
  BY <1>1, <1>2, <1>3

\* Narrowing to the price leaves a full page or the whole list.
LEMMA NarrowShelf ==
  ASSUME NEW s, IsShelf(s), NEW b, NEW operator
  PROVE  IsShelf(PriceNarrow(s, b, operator)) /\ (s # <<>> => Len(PriceNarrow(s, b, operator)) > 0)
<1> DEFINE usd(r) == Usd(PriceOf(r).price, PriceOf(r).currency)
           kept == Keep(s, LAMBDA r : /\ PriceOf(r) # NoCost
                                      /\ b.min # NoPrice => usd(r) >= Usd(b.min, b.currency)
                                      /\ b.max # NoPrice => usd(r) <= Usd(b.max, b.currency))
<1>1. IsShelf(kept)
  BY KeepShelf DEF Keep
<1>2. PriceNarrow(s, b, operator) =
        IF operator /\ (b.min # NoPrice \/ b.max # NoPrice) /\ Len(kept) >= FullPage THEN kept ELSE s
  BY DEF PriceNarrow
<1> HIDE DEF kept
<1>3. Len(kept) \in Nat /\ (s # <<>> => Len(s) > 0)
  BY <1>1, ShelfFacts, NotEmpty, ListFacts
<1> QED
  BY <1>1, <1>2, <1>3 DEF FullPage

LEMMA LocalGateShelf ==
  ASSUME NEW s, IsShelf(s), NEW query
  PROVE  IsShelf(LocalGate(s, query))
BY KeepShelf DEF LocalGate, Keep

\* Only the official sites of a query of exclusions are dropped.
LEMMA OfficialShelf ==
  ASSUME NEW s, IsShelf(s), NEW b
  PROVE  LET t == DropOfficial(s, b) IN
         /\ IsShelf(t)
         /\ t = <<>>
            => s = <<>> \/ (OnlyNegative(b) /\ \A i \in DOMAIN s : \E n \in ExpandNegatives(b.negative) : OfficialSite(s[i], n))
<1> DEFINE official(r) == \E n \in ExpandNegatives(b.negative) : OfficialSite(r, n)
           S == {i \in DOMAIN s : ~official(s[i])}
           kept == Those(s, S)
<1>1. IsShelf(kept) /\ IsList(s)
  BY KeepShelf, ShelfFacts
<1>2. ToSet(kept) = {s[i] : i \in S}
  <2>1. S \cap DOMAIN s = S
    OBVIOUS
  <2> HIDE DEF S
  <2> QED BY <1>1, <2>1, ThoseFacts
<1>3. ASSUME kept = <<>>, NEW i \in DOMAIN s PROVE official(s[i])
  <2>1. ToSet(kept) = {}
    <3> HIDE DEF kept
    <3> QED BY <1>3 DEF ToSet
  <2>2. i \notin S
    <3> HIDE DEF kept, S
    <3> QED BY <1>2, <2>1
  <2> QED BY <2>2
<1>4. DropOfficial(s, b) = IF b.positive # <<>> \/ b.negative = <<>> THEN s ELSE kept
  BY DEF DropOfficial, Keep
<1> HIDE DEF kept, S
<1> QED
  BY <1>1, <1>3, <1>4 DEF OnlyNegative

\* The boost rewrites the scores of the list it is given.
LEMMA BoostedShelf ==
  ASSUME NEW s, IsShelf(s), NEW b
  PROVE  IsShelf(Boosted(s, b)) /\ Len(Boosted(s, b)) = Len(s)
<1> DEFINE t == [i \in DOMAIN s |-> [s[i] EXCEPT !.score = @ + ConstraintBoost(s[i], b)]]
<1>1. \A i \in DOMAIN s : IsPage(s[i])
  BY ShelfFacts DEF ToSet
<1>2. t = [i \in DOMAIN s |-> t[i]] /\ \A i \in DOMAIN s : IsPage(t[i])
  BY <1>1 DEF IsPage
<1>3. Boosted(s, b) = t
  BY DEF Boosted, Map
<1> HIDE DEF t
<1> QED BY <1>2, <1>3, MappedShelf

\* A page has at most one violation per exclusion.
LEMMA ViolationsBound ==
  ASSUME NEW b, IsList(b.negative), NEW r
  PROVE  Violations(r, b) \in 0..Len(b.negative)
<1> DEFINE N == DOMAIN b.negative
           at == {i \in N : TextMatchesNegative(r.title \o r.urlWords \o Lead(r), b.negative[i])}
<1>1. Len(b.negative) \in Nat /\ N = 1..Len(b.negative)
  BY ListFacts
<1>2. IsFiniteSet(N) /\ Cardinality(N) = Len(b.negative)
  BY <1>1, FS_Interval
<1>3. at \subseteq N
  OBVIOUS
<1>4. Violations(r, b) = IF IsAltPage(r) THEN 0 ELSE Cardinality(at)
  BY DEF Violations
<1> HIDE DEF at, N
<1>5. IsFiniteSet(at) /\ Cardinality(at) <= Cardinality(N)
  BY <1>2, <1>3, FS_Subset
<1>6. Cardinality(at) \in Nat
  BY <1>5, FS_CardinalityType
<1> QED
  BY <1>1, <1>2, <1>4, <1>5, <1>6

\* A bounded set of naturals has a largest member.
LEMMA LargestOf ==
  ASSUME NEW top \in Nat, NEW T \in SUBSET (0..top), T # {}
  PROVE  Max(T) \in T /\ \A m \in T : Max(T) >= m
<1> DEFINE U == {top - m : m \in T}
<1>0. \A m \in T : m \in Nat /\ m <= top
  OBVIOUS
<1>1. U \in SUBSET Nat /\ U # {}
  <2>1. \A m \in T : top - m \in Nat
    BY <1>0
  <2> QED BY <2>1
<1>2. PICK d \in U : \A e \in U : d <= e
  <2> HIDE DEF U
  <2> QED BY <1>1, ThoseFold!LeastOf
<1>3. PICK k \in T : d = top - k
  BY <1>2
<1>4. \A m \in T : k >= m
  <2>1. \A m \in T : top - m \in U
    OBVIOUS
  <2> HIDE DEF U
  <2> QED BY <1>0, <1>2, <1>3, <2>1
<1> QED
  BY <1>4 DEF Max

\* A set of numbers has its least.
LEMMA LowestOf ==
  ASSUME NEW T \in SUBSET Nat, T # {}
  PROVE  Min(T) \in T
<1>1. \E n \in T : \A m \in T : n <= m
  BY ThoseFold!LeastOf
<1> QED
  BY <1>1 DEF Min

\* However high the violations are, some number of them is tolerated.
LEMMA NegativeShelf ==
  ASSUME NEW s, IsShelf(s), NEW b, IsList(b.negative)
  PROVE  IsShelf(NegativeFilter(s, b)) /\ (s # <<>> => Len(NegativeFilter(s, b)) > 0)
<1> DEFINE v(r) == Violations(r, b)
           n == Len(s)
           found1 == {v(s[i]) : i \in DOMAIN s}
           worst == Max(found1)
           spoilt == 2 * Sum(s, v) > 3 * n /\ \A i \in DOMAIN s : v(s[i]) >= 1
           byScore == Descending(s, LAMBDA r : ConstraintScore(r, b))
           sorted == Descending(byScore, LAMBDA r : -v(r))
           upTo(t) == Keep(sorted, LAMBDA r : v(r) <= t)
           enough == Least(Most(n \div 2, 5), n)
           start == If(spoilt, Most(worst \div 2, 1), 0)
           T == {t \in start..worst : Len(upTo(t)) >= enough}
<1>1. NegativeFilter(s, b) = IF b.negative = <<>> \/ s = <<>> THEN s ELSE upTo(Min(T))
  BY DEF NegativeFilter
<1>2. n \in Nat /\ DOMAIN s = 1..n /\ (s # <<>> => n > 0)
  BY ShelfFacts, ListFacts, NotEmpty
<1>3. IsShelf(byScore) /\ Len(byScore) = n /\ ToSet(byScore) = ToSet(s)
  <2> DEFINE keys == [i \in DOMAIN s |-> ConstraintScore(s[i], b)]
  <2>1. DOMAIN keys = DOMAIN s
    OBVIOUS
  <2>2. byScore = LET order == Order(keys) IN [k \in DOMAIN order |-> s[order[k]]]
    BY DEF Descending, Map
  <2> HIDE DEF keys, byScore
  <2> QED BY <2>1, <2>2, SortedShelf
<1>4. IsShelf(sorted) /\ Len(sorted) = n /\ ToSet(sorted) = ToSet(s)
  <2> DEFINE keys == [i \in DOMAIN byScore |-> -v(byScore[i])]
  <2>1. DOMAIN keys = DOMAIN byScore
    OBVIOUS
  <2>2. sorted = LET order == Order(keys) IN [k \in DOMAIN order |-> byScore[order[k]]]
    BY DEF Descending, Map
  <2> HIDE DEF keys, byScore, sorted
  <2> QED BY <1>3, <2>1, <2>2, SortedShelf
<1>5. \A t : IsShelf(upTo(t))
  <2> HIDE DEF sorted
  <2> QED BY <1>4, KeepShelf DEF Keep
<1> SUFFICES ASSUME b.negative # <<>>, s # <<>> PROVE Len(upTo(Min(T))) > 0
  <2> HIDE DEF upTo, T
  <2> QED BY <1>1, <1>2, <1>5
<1>6. Len(b.negative) \in Nat /\ found1 \in SUBSET (0..Len(b.negative)) /\ found1 # {}
  <2>1. Len(b.negative) \in Nat
    BY ListFacts
  <2> QED BY <1>2, <2>1, ViolationsBound
<1>7. worst \in found1 /\ \A m \in found1 : worst >= m
  <2> HIDE DEF found1
  <2> QED BY <1>6, LargestOf
<1>8. worst \in Nat /\ start \in 0..worst
  <2>1. worst \in Nat
    <3> HIDE DEF found1, worst
    <3>1. worst \in 0..Len(b.negative)
      BY <1>6, <1>7
    <3> QED BY <1>6, <3>1
  <2>2. spoilt => worst >= 1
    <3>1. PICK i \in DOMAIN s : worst = v(s[i])
      BY <1>7
    <3> HIDE DEF worst
    <3> QED BY <3>1
  <2> HIDE DEF worst, spoilt
  <2> QED BY <2>1, <2>2 DEF If, Most
<1>9. Len(upTo(worst)) = n
  <2> DEFINE S == {i \in DOMAIN sorted : v(sorted[i]) <= worst}
  <2>1. IsList(sorted) /\ DOMAIN sorted = 1..n
    <3> HIDE DEF sorted
    <3> QED BY <1>4, ShelfFacts, ListFacts
  <2>2. \A i \in DOMAIN sorted : v(sorted[i]) <= worst
    <3> SUFFICES ASSUME NEW i \in DOMAIN sorted PROVE v(sorted[i]) <= worst
      OBVIOUS
    <3>1. sorted[i] \in ToSet(s)
      <4> HIDE DEF sorted
      <4> QED BY <1>4 DEF ToSet
    <3>2. v(sorted[i]) \in found1
      BY <3>1 DEF ToSet
    <3>3. v(sorted[i]) \in Nat
      <4>1. v(sorted[i]) \in 0..Len(b.negative)
        BY ViolationsBound
      <4> HIDE DEF v, sorted
      <4> QED BY <4>1
    <3> HIDE DEF found1, v, sorted
    <3> QED BY <1>7, <1>8, <3>2, <3>3
  <2>3. S \cap DOMAIN sorted = 1..n
    <3> HIDE DEF sorted
    <3> QED BY <2>1, <2>2
  <2>4. upTo(worst) = Those(sorted, S)
    BY DEF Keep
  <2> HIDE DEF S, sorted, n
  <2>5. Len(upTo(worst)) = Cardinality(1..n)
    BY <2>1, <2>3, <2>4, ThoseFacts
  <2> QED BY <1>2, <2>5, FS_Interval
<1>10. enough \in 1..n
  <2> HIDE DEF n
  <2> QED BY <1>2 DEF Least, Most
<1>11. worst \in T /\ T \in SUBSET Nat
  <2> HIDE DEF worst, start, enough, upTo
  <2> QED BY <1>2, <1>8, <1>9, <1>10
<1>12. Min(T) \in T
  <2> HIDE DEF T
  <2> QED BY <1>11, LowestOf
<1>13. Len(upTo(Min(T))) >= enough
  BY <1>12
<1>14. Len(upTo(Min(T))) \in Nat
  <2> HIDE DEF upTo
  <2> QED BY <1>5, ShelfFacts, ListFacts
<1> HIDE DEF upTo, T, enough
<1> QED
  BY <1>10, <1>13, <1>14

-------------------------------------------------------------------------------
(* The merge.                                                              *)

LEMMA PagesOfShelf ==
  ASSUME NEW s, IsShelf(s)
  PROVE  \A i \in DOMAIN s : IsPage(s[i])
BY ShelfFacts DEF ToSet

\* A page found twice is joined with itself.
LEMMA JoinIsPage ==
  ASSUME NEW old, IsPage(old), NEW new
  PROVE  IsPage(Join(old, new))
<1>1. DOMAIN Join(old, new) = DOMAIN old
  BY DEF Join
<1> QED BY <1>1 DEF IsPage

MergeStep(p, acc, r) ==
  LET same == {i \in DOMAIN acc : acc[i].id = r.id} IN
  IF same # {} THEN [acc EXCEPT ![Max(same)] = Join(@, r)]
  ELSE Append(acc, [r EXCEPT !.authority = DomainAuthority(r), !.quality = One, !.sources = <<Head(@)>>])
MergeGood(p, n, acc) == IsShelf(acc)
MergeFold == INSTANCE FoldFacts WITH Step <- MergeStep, Good <- MergeGood

\* Local and web results become one list.
LEMMA MergeShelf ==
  ASSUME NEW local, IsShelf(local), NEW s, IsShelf(s)
  PROVE  IsShelf(MergeLists(local, s))
<1> DEFINE n == Len(s)
<1>1. n \in Nat /\ DOMAIN s = 1..n /\ \A i \in 1..n : IsPage(s[i])
  BY ShelfFacts, ListFacts
<1>2. MergeGood({}, 0, local)
  BY DEF MergeGood
<1>3. ASSUME NEW acc, IsShelf(acc), NEW r, IsPage(r)
      PROVE  IsShelf(MergeStep({}, acc, r))
  <2> DEFINE same == {i \in DOMAIN acc : acc[i].id = r.id}
             t == [acc EXCEPT ![Max(same)] = Join(@, r)]
             u == [r EXCEPT !.authority = DomainAuthority(r), !.quality = One, !.sources = <<Head(@)>>]
  <2>1. IsShelf(t)
    <3>1. \A i \in DOMAIN acc : IsPage(acc[i]) /\ IsPage(Join(acc[i], r))
      BY <1>3, PagesOfShelf, JoinIsPage
    <3>2. IsList(acc)
      BY <1>3, ShelfFacts
    <3>3. acc = [i \in DOMAIN acc |-> acc[i]]
      BY <3>2 DEF IsList
    <3>4. t = [i \in DOMAIN acc |-> t[i]] /\ \A i \in DOMAIN acc : t[i] \in {acc[i], Join(acc[i], r)}
      <4> DEFINE k == Max(same)
      <4> HIDE DEF k
      <4> QED BY <3>3 DEF k
    <3>5. \A i \in DOMAIN acc : IsPage(t[i])
      <4> HIDE DEF t
      <4> QED BY <3>1, <3>4
    <3> HIDE DEF t
    <3> QED BY <1>3, <3>4, <3>5, MappedShelf
  <2>2. IsPage(u)
    BY <1>3 DEF IsPage
  <2>3. IsShelf(Append(acc, u))
    <3> HIDE DEF u
    <3> QED BY <1>3, <2>2, AppendShelf
  <2>4. MergeStep({}, acc, r) = IF same # {} THEN t ELSE Append(acc, u)
    BY DEF MergeStep
  <2> HIDE DEF same, t, u
  <2> QED BY <2>1, <2>3, <2>4
<1>4. ASSUME NEW i \in 0..(n - 1), NEW acc, MergeGood({}, i, acc)
      PROVE  MergeGood({}, i + 1, MergeStep({}, acc, s[i + 1]))
  <2>1. IsPage(s[i + 1]) /\ IsShelf(acc)
    BY <1>1, <1>4 DEF MergeGood
  <2> QED
    BY <1>3, <2>1 DEF MergeGood
<1>5. MergeLists(local, s) = MergeFold!Fold({}, local, s)
  BY DEF MergeLists, MergeStep, MergeFold!Fold, MergeFold!MapThenFoldSet, FoldLeft,
         MapThenFoldSet, Max, MergeFold!Max
<1>6. MergeGood({}, n, MergeFold!Fold({}, local, s))
  <2> HIDE DEF n
  <2> QED BY <1>1, <1>2, <1>4, MergeFold!FoldKeeps
<1> QED
  BY <1>5, <1>6 DEF MergeGood

\* p: the context, whether prices were found, and the trust in each engine
ScoreStep(p, acc, r) ==
  LET scored(a, page, s) ==
        [list |-> Append(a.list, [page EXCEPT !.score = s[1]]),
         rels |-> Append(a.rels, s[2]),
         best |-> Most(a.best, Semantic(page, p[1]))]
  IN IF Explicit(r, p[1]) THEN [acc EXCEPT !.list = Append(@, [r EXCEPT !.score = -One])]
     ELSE scored(acc, r, Scored(r, p[1], p[2], p[3]))
ScoreGood(p, n, acc) == "list" \in DOMAIN acc /\ IsShelf(acc.list)
ScoreFold == INSTANCE FoldFacts WITH Step <- ScoreStep, Good <- ScoreGood

\* Scoring keeps the pages it scores or marks them as adult.
LEMMA ScoreShelf ==
  ASSUME NEW s, IsShelf(s), NEW x, NEW priced
  PROVE  IsShelf(ScoreAll(s, x, priced).list)
<1> DEFINE n == Len(s)
           p == <<x, priced, EngineTrust(s, x.intent)>>
           b == [list |-> <<>>, rels |-> <<>>, best |-> 0]
<1>1. n \in Nat /\ DOMAIN s = 1..n /\ \A i \in 1..n : IsPage(s[i])
  BY ShelfFacts, ListFacts
<1>2. ScoreGood(p, 0, b)
  BY EmptyShelf DEF ScoreGood
<1>3. ASSUME NEW acc, ScoreGood(p, 0, acc), NEW r, IsPage(r)
      PROVE  ScoreGood(p, 0, ScoreStep(p, acc, r))
  <2> DEFINE marked == [r EXCEPT !.score = -One]
             at == Scored(r, p[1], p[2], p[3])
             graded == [r EXCEPT !.score = at[1]]
  <2>1. IsPage(marked) /\ IsPage(graded)
    BY <1>3 DEF IsPage
  <2>2. IsShelf(Append(acc.list, marked)) /\ IsShelf(Append(acc.list, graded))
    <3> HIDE DEF marked, graded
    <3> QED BY <1>3, <2>1, AppendShelf DEF ScoreGood
  <2>3. ScoreStep(p, acc, r) = IF Explicit(r, p[1]) THEN [acc EXCEPT !.list = Append(acc.list, marked)]
                               ELSE [list |-> Append(acc.list, graded), rels |-> Append(acc.rels, at[2]),
                                     best |-> Most(acc.best, Semantic(r, p[1]))]
    BY DEF ScoreStep
  <2> HIDE DEF marked, graded, at, p
  <2> QED BY <1>3, <2>2, <2>3 DEF ScoreGood
<1>4. ASSUME NEW i \in 0..(n - 1), NEW acc, ScoreGood(p, i, acc)
      PROVE  ScoreGood(p, i + 1, ScoreStep(p, acc, s[i + 1]))
  <2>1. IsPage(s[i + 1]) /\ ScoreGood(p, 0, acc)
    BY <1>1, <1>4 DEF ScoreGood
  <2>2. ScoreGood(p, 0, ScoreStep(p, acc, s[i + 1]))
    <3> HIDE DEF p
    <3> QED BY <1>3, <2>1
  <2> QED
    BY <2>2 DEF ScoreGood
<1>5. ScoreAll(s, x, priced) = ScoreFold!Fold(p, b, s)
  BY DEF ScoreAll, ScoreStep, ScoreFold!Fold, ScoreFold!MapThenFoldSet, FoldLeft,
         MapThenFoldSet, Max, ScoreFold!Max
<1>6. ScoreGood(p, n, ScoreFold!Fold(p, b, s))
  <2> HIDE DEF n, p, b
  <2> QED BY <1>1, <1>2, <1>4, ScoreFold!FoldKeeps
<1> QED
  BY <1>5, <1>6 DEF ScoreGood

LEMMA CleanShelf ==
  ASSUME NEW s, IsShelf(s)
  PROVE  IsShelf(Clean(s))
BY KeepShelf DEF Clean, Keep

\* What is dropped is at most taken back.
LEMMA DropShelf ==
  ASSUME NEW s, IsShelf(s), NEW x
  PROVE  IsShelf(DropAdult(DropCrossLingual(DropOffTopic(s, x), x), x))
<1>1. ASSUME NEW t, IsShelf(t)
      PROVE  IsShelf(DropOffTopic(t, x))
  <2> DEFINE kept == Keep(t, LAMBDA r : \/ "adult" \in x.traits /\ AdultAddress(r)
                                        \/ OnTopic(r, x) \/ GeoRelevance(r, x.place) > 0)
  <2>1. IsShelf(kept) /\ IsShelf(Clean(t))
    BY <1>1, KeepShelf, CleanShelf DEF Keep
  <2>2. DropOffTopic(t, x) = CASE Strong(x.kept) = <<>> -> t
                               [] Strong(x.kept) # <<>> /\ kept = <<>> -> Clean(t)
                               [] OTHER -> kept
    BY DEF DropOffTopic
  <2> HIDE DEF kept
  <2> QED BY <1>1, <2>1, <2>2
<1>2. ASSUME NEW t, IsShelf(t)
      PROVE  IsShelf(DropCrossLingual(t, x))
  <2> DEFINE kept == Keep(t, LAMBDA r : "foreign" \notin r.marks)
  <2>1. IsShelf(kept) /\ IsShelf(Clean(t))
    BY <1>2, KeepShelf, CleanShelf DEF Keep
  <2>2. DropCrossLingual(t, x) = CASE "latin" \notin x.traits -> t
                                   [] "latin" \in x.traits /\ kept = <<>> -> Clean(t)
                                   [] OTHER -> kept
    BY DEF DropCrossLingual
  <2> HIDE DEF kept
  <2> QED BY <1>2, <2>1, <2>2
<1>3. ASSUME NEW t, IsShelf(t)
      PROVE  IsShelf(DropAdult(t, x))
  BY <1>3, CleanShelf DEF DropAdult
<1> QED
  BY <1>1, <1>2, <1>3

\* The floor and the boost of a thin list only set scores.
LEMMA LiftShelf ==
  ASSUME NEW s, IsShelf(s), NEW rels, NEW best, NEW x
  PROVE  IsShelf(ThinBoost(ApplyFloor(s, rels), rels, best, x))
<1>1. IsShelf(ApplyFloor(s, rels))
  <2> DEFINE t == [i \in DOMAIN s |-> If(RelAt(rels, i) < Floor(rels), Scale(s[i], 15), s[i])]
  <2>1. t = [i \in DOMAIN s |-> t[i]] /\ \A i \in DOMAIN s : IsPage(t[i])
    BY PagesOfShelf DEF IsPage, If, Scale
  <2>2. ApplyFloor(s, rels) = IF rels = <<>> THEN s ELSE t
    BY DEF ApplyFloor
  <2> HIDE DEF t
  <2> QED BY <2>1, <2>2, MappedShelf
<1>2. ASSUME NEW u, IsShelf(u)
      PROVE  IsShelf(ThinBoost(u, rels, best, x))
  <2> DEFINE factor == Least((3000 * One) \div Most(Best(u), 100), 25000)
             t == [i \in DOMAIN u |-> [u[i] EXCEPT !.score = Mul(@, factor)]]
  <2>1. t = [i \in DOMAIN u |-> t[i]] /\ \A i \in DOMAIN u : IsPage(t[i])
    BY <1>2, PagesOfShelf DEF IsPage
  <2>2. ThinBoost(u, rels, best, x) \in {t, u}
    BY DEF ThinBoost, Map
  <2> HIDE DEF t
  <2> QED BY <1>2, <2>1, <2>2, MappedShelf
<1> QED
  BY <1>1, <1>2

LEMMA DiversifyShelf ==
  ASSUME NEW s, IsShelf(s)
  PROVE  IsShelf(Diversify(s))
<1> DEFINE rank(i) == Cardinality({j \in 1..(i - 1) : s[j].host = s[i].host})
           worn(score, n) == FoldLeft(LAMBDA acc, k : Pct(acc, 70), score, [k \in 1..n |-> k])
           t == [i \in DOMAIN s |-> [s[i] EXCEPT !.score = worn(@, rank(i))]]
<1>1. t = [i \in DOMAIN s |-> t[i]] /\ \A i \in DOMAIN s : IsPage(t[i])
  <2> HIDE DEF worn, rank
  <2> QED BY PagesOfShelf DEF IsPage
<1>2. Diversify(s) = ByScore(t)
  BY DEF Diversify
<1> HIDE DEF t
<1> QED
  BY <1>1, <1>2, MappedShelf, ByScoreShelf

LEMMA DesaturateShelf ==
  ASSUME NEW s, IsShelf(s), NEW x
  PROVE  IsShelf(Desaturate(s, x))
<1> DEFINE of(h) == {i \in DOMAIN s : s[i].host = h}
           floods(h) == /\ h # NoHost /\ 10 * Cardinality(of(h)) >= 6 * Len(s)
                        /\ ~\E i \in of(h) : OnTopic(s[i], x)
           t == [i \in DOMAIN s |-> If(floods(s[i].host), Scale(s[i], 5), s[i])]
<1>1. t = [i \in DOMAIN s |-> t[i]] /\ \A i \in DOMAIN s : IsPage(t[i])
  <2> HIDE DEF floods
  <2> QED BY PagesOfShelf DEF IsPage, If, Scale
<1>2. Desaturate(s, x) = IF Strong(x.kept) = <<>> \/ Len(s) < 3 THEN s ELSE ByScore(t)
  BY DEF Desaturate, Map
<1> HIDE DEF t
<1>3. IsShelf(ByScore(t))
  BY <1>1, MappedShelf, ByScoreShelf
<1> QED
  BY <1>2, <1>3

LEMMA NudgeSourcesShelf ==
  ASSUME NEW s, IsShelf(s)
  PROVE  IsShelf(NudgeSources(s))
<1> DEFINE sources == UNION {ToSet(s[i].sources) : i \in DOMAIN s}
           count(e) == Cardinality({i \in DOMAIN s : e \in ToSet(s[i].sources)})
           share == (Len(s) + Cardinality(sources) - 1) \div Most(Cardinality(sources), 1)
           t == [i \in DOMAIN s |-> If(\E e \in ToSet(s[i].sources) : 2 * count(e) <= share,
                                       [s[i] EXCEPT !.score = @ + 300], s[i])]
<1>1. t = [i \in DOMAIN s |-> t[i]] /\ \A i \in DOMAIN s : IsPage(t[i])
  <2> HIDE DEF count, share
  <2> QED BY PagesOfShelf DEF IsPage, If
<1>2. NudgeSources(s) = IF Cardinality(sources) <= 1 THEN s ELSE t
  BY DEF NudgeSources, Map
<1> HIDE DEF t
<1> QED
  BY <1>1, <1>2, MappedShelf

TitleStep(p, acc, r) ==
  LET alike(a, b) == 10 * Cardinality(a \cap b) > 7 * Cardinality(a \cup b)
      words == Words(r.title)
  IN CASE r.title = <<>> -> [acc EXCEPT !.kept = Append(@, r)]
       [] r.title # <<>> /\ r.title \in acc.titles -> acc
       [] OTHER ->
          IF r.host # NoHost /\ \E t \in acc.onHost : t[1] = r.host /\ alike(words, t[2])
          THEN [acc EXCEPT !.titles = @ \cup {r.title}]
          ELSE [kept |-> Append(acc.kept, r), titles |-> acc.titles \cup {r.title},
                onHost |-> acc.onHost \cup {<<r.host, words>>}]
TitleGood(p, n, acc) == "kept" \in DOMAIN acc /\ IsShelf(acc.kept)
TitleFold == INSTANCE FoldFacts WITH Step <- TitleStep, Good <- TitleGood

\* Of two pages with one title the first is kept.
LEMMA TitleShelf ==
  ASSUME NEW s, IsShelf(s)
  PROVE  IsShelf(DropSameTitle(s))
<1> DEFINE n == Len(s)
           b == [kept |-> <<>>, titles |-> {}, onHost |-> {}]
<1>1. n \in Nat /\ DOMAIN s = 1..n /\ \A i \in 1..n : IsPage(s[i])
  BY ShelfFacts, ListFacts
<1>2. TitleGood({}, 0, b)
  BY EmptyShelf DEF TitleGood
<1>3. ASSUME NEW acc, TitleGood({}, 0, acc), NEW r, IsPage(r)
      PROVE  TitleGood({}, 0, TitleStep({}, acc, r))
  <2> DEFINE more == Append(acc.kept, r)
             near == \E t \in acc.onHost : t[1] = r.host /\
                       10 * Cardinality(Words(r.title) \cap t[2]) > 7 * Cardinality(Words(r.title) \cup t[2])
  <2>1. IsShelf(more)
    BY <1>3, AppendShelf DEF TitleGood
  <2>2. TitleStep({}, acc, r) =
          CASE r.title = <<>> -> [acc EXCEPT !.kept = more]
            [] r.title # <<>> /\ r.title \in acc.titles -> acc
            [] OTHER -> IF r.host # NoHost /\ near THEN [acc EXCEPT !.titles = acc.titles \cup {r.title}]
                        ELSE [kept |-> more, titles |-> acc.titles \cup {r.title},
                              onHost |-> acc.onHost \cup {<<r.host, Words(r.title)>>}]
    BY DEF TitleStep
  <2> HIDE DEF more, near
  <2> QED BY <1>3, <2>1, <2>2 DEF TitleGood
<1>4. ASSUME NEW i \in 0..(n - 1), NEW acc, TitleGood({}, i, acc)
      PROVE  TitleGood({}, i + 1, TitleStep({}, acc, s[i + 1]))
  <2>1. IsPage(s[i + 1]) /\ TitleGood({}, 0, acc)
    BY <1>1, <1>4 DEF TitleGood
  <2>2. TitleGood({}, 0, TitleStep({}, acc, s[i + 1]))
    BY <1>3, <2>1
  <2> QED
    BY <2>2 DEF TitleGood
<1>5. DropSameTitle(s) = TitleFold!Fold({}, b, s).kept
  BY DEF DropSameTitle, TitleStep, TitleFold!Fold, TitleFold!MapThenFoldSet, FoldLeft,
         MapThenFoldSet, Max, TitleFold!Max
<1>6. TitleGood({}, n, TitleFold!Fold({}, b, s))
  <2> HIDE DEF n, b
  <2> QED BY <1>1, <1>2, <1>4, TitleFold!FoldKeeps
<1> QED
  BY <1>5, <1>6 DEF TitleGood

LEMMA CalibrateShelf ==
  ASSUME NEW s, IsShelf(s)
  PROVE  IsShelf(CalibrateList(s))
<1> DEFINE f == Calibrate({s[i].score : i \in DOMAIN s})
           t == [i \in DOMAIN s |-> [s[i] EXCEPT !.score = f[@]]]
<1>1. t = [i \in DOMAIN s |-> t[i]] /\ \A i \in DOMAIN s : IsPage(t[i])
  <2> HIDE DEF f
  <2> QED BY PagesOfShelf DEF IsPage
<1>2. CalibrateList(s) = IF s = <<>> THEN s ELSE t
  BY DEF CalibrateList, Map
<1> HIDE DEF t
<1> QED
  BY <1>1, <1>2, MappedShelf

LEMMA CapIsPage ==
  ASSUME NEW r, IsPage(r), NEW bound
  PROVE  IsPage(Cap(r, bound))
BY DEF Cap, If, IsPage

\* A cap sets the score and the cap of a page.
LEMMA CapPageIsPage ==
  ASSUME NEW r, IsPage(r), NEW x, NEW top
  PROVE  IsPage(CapPage(r, x, top))
<1> DEFINE strong == Strong(x.kept)
           rare == SelectSeq(strong, LAMBDA w : Is("rare", w))
           named(ws) == Cardinality({i \in DOMAIN ws : Mentions(r, ws[i])})
           need == If(Len(rare) >= 3, (Len(rare) + 1) \div 2, 1)
           weak(p, off) == IF off /\ p.score > 400 THEN Cap(p, Graded(p, top)) ELSE p
           video == IF VideoPage(r) /\ ~VideoIntent(x.query) THEN Cap(r, 400) ELSE r
           audio == IF "audioHost" \in r.shape /\ "audio" \notin x.traits THEN Cap(video, 200) ELSE video
           topics == weak(audio, Len(strong) >= 3 /\ named(strong) < 2)
           anchors == weak(topics, rare # <<>> /\ named(rare) < need)
           compared == AnchorTerms(x.kept)
<1>1. IsPage(video)
  BY CapIsPage
<1>2. IsPage(audio)
  <2> HIDE DEF video
  <2> QED BY <1>1, CapIsPage
<1>3. IsPage(topics)
  <2> HIDE DEF audio, strong, named
  <2> QED BY <1>2, CapIsPage
<1>4. IsPage(anchors)
  <2> HIDE DEF topics, rare, need, named
  <2> QED BY <1>3, CapIsPage
<1>5. CapPage(r, x, top) =
        IF "asksDefinition" \notin x.traits /\ DefinitionPage(r) THEN Cap(r, 300)
        ELSE IF ComparisonQuery(x.kept) /\ compared # {} /\ ~\E w \in compared : Mentions(r, w)
             THEN Cap(anchors, Graded(anchors, top)) ELSE anchors
  BY DEF CapPage
<1> HIDE DEF anchors, compared
<1> QED
  BY <1>4, <1>5, CapIsPage

\* The caps are set page by page.
LEMMA CapsShelf ==
  ASSUME NEW s, IsShelf(s), NEW x
  PROVE  IsShelf(ApplyCaps(s, x))
<1> DEFINE t == [i \in DOMAIN s |-> CapPage(s[i], x, Best(s))]
<1>1. t = [i \in DOMAIN s |-> t[i]] /\ \A i \in DOMAIN s : IsPage(t[i])
  BY PagesOfShelf, CapPageIsPage
<1>2. ApplyCaps(s, x) = ByScore(t)
  BY DEF ApplyCaps, Map
<1> HIDE DEF t
<1> QED
  BY <1>1, <1>2, MappedShelf, ByScoreShelf

\* The ranked list is a list of pages.
LEMMA RankedShelf ==
  ASSUME NEW local, IsShelf(local), NEW s, IsShelf(s), NEW x
  PROVE  IsShelf(Ranked(local, s, x))
<1> DEFINE merged == MergeLists(local, s)
           scored == ScoreAll(merged, x, Priced(s))
           dropped == DropAdult(DropCrossLingual(DropOffTopic(scored.list, x), x), x)
           lifted == ThinBoost(ApplyFloor(dropped, scored.rels), scored.rels, scored.best, x)
           spread == NudgeSources(Desaturate(Diversify(lifted), x))
<1>1. IsShelf(scored.list)
  <2> HIDE DEF merged
  <2> QED BY MergeShelf, ScoreShelf DEF merged
<1>2. IsShelf(dropped)
  <2> HIDE DEF scored
  <2> QED BY <1>1, DropShelf
<1>3. IsShelf(lifted)
  <2> HIDE DEF scored, dropped
  <2> QED BY <1>2, LiftShelf
<1>4. IsShelf(spread)
  <2> HIDE DEF lifted
  <2> QED BY <1>3, DiversifyShelf, DesaturateShelf, NudgeSourcesShelf
<1>5. Ranked(local, s, x) = ApplyCaps(CalibrateList(DropSameTitle(spread)), x)
  BY DEF Ranked, Lifted
<1> HIDE DEF spread
<1> QED
  BY <1>4, <1>5, TitleShelf, CalibrateShelf, CapsShelf

-------------------------------------------------------------------------------
(* After the merge.                                                        *)

\* One page is the other but for its score.
SamePage(u, r) == \A f \in PageFields \ {"score"} : u[f] = r[f]

\* Every page of t is one of s, but for its score.
Rescored(s, t) == \A u \in ToSet(t) : \E r \in ToSet(s) : SamePage(u, r)

\* No text tells a price beyond the bounds of b but those of the relatives of a site asked for.
InBound(s, b) == \A r \in ToSet(s) : Told(r) # NoCost => ~Beyond(Told(r), b) \/ RelatedOnly(r, b)

\* No page meets the constraints of b.
AllFail(s, b) == \A r \in ToSet(s) : ShouldFilter(r, b)

\* Only with an exclusion may a list be answered of which no page meets them.
Bounded(s, b) == InBound(s, b) \/ (b.negative # <<>> /\ AllFail(s, b))

\* No page names what b excludes, or every page does.
NamesAllOrNone(s, b) ==
  b.positive # <<>> /\ b.negative # <<>> =>
    (\A r \in ToSet(s) : ~NamesExcluded(r, b)) \/ (\A r \in ToSet(s) : NamesExcluded(r, b))

\* No page is above the cap the merge gave it.
UnderCap(s) == \A r \in ToSet(s) : r.cap # NoCap => r.score < r.cap \/ r.score = r.cap

\* What the gates ask of a page does not depend on its score.
LEMMA SamePageReads ==
  ASSUME NEW u, NEW r, SamePage(u, r), NEW b
  PROVE  /\ Told(u) = Told(r) /\ RelatedOnly(u, b) = RelatedOnly(r, b)
         /\ ShouldFilter(u, b) = ShouldFilter(r, b) /\ NamesExcluded(u, b) = NamesExcluded(r, b)
<1>1. /\ u.title = r.title /\ u.body = r.body /\ u.urlWords = r.urlWords /\ u.hosts = r.hosts /\ u.alt = r.alt
      /\ u.marks = r.marks /\ u.type = r.type /\ u.published = r.published /\ u.mentions = r.mentions
      /\ u.urlYear = r.urlYear
  BY DEF SamePage, PageFields
<1>2. Told(u) = Told(r)
  BY <1>1 DEF Told
<1>3. RelatedOnly(u, b) = RelatedOnly(r, b)
  BY <1>1 DEF RelatedOnly
<1>4. AltScore(u) = AltScore(r)
  BY <1>1 DEF AltScore
<1>5. ShouldFilter(u, b) = ShouldFilter(r, b)
  <2>1. YearInUrl(u) = YearInUrl(r)
    BY <1>1 DEF YearInUrl
  <2>2. ItemDate(u) = ItemDate(r)
    BY <1>1, <2>1 DEF ItemDate
  <2>3. DateOutside(u, b) = DateOutside(r, b)
    BY <2>2 DEF DateOutside
  <2>4. \A phrase : PhraseMissing(u, phrase) = PhraseMissing(r, phrase)
    BY <1>1 DEF PhraseMissing
  <2>5. PriceOutside(u, b) = PriceOutside(r, b)
    BY <1>1, <1>2 DEF PriceOutside
  <2> QED BY <1>1, <1>3, <1>4, <2>3, <2>4, <2>5 DEF ShouldFilter
<1>6. NamesExcluded(u, b) = NamesExcluded(r, b)
  BY <1>1, <1>4 DEF NamesExcluded, GenuineAlternative
<1> QED
  BY <1>2, <1>3, <1>5, <1>6

\* What holds of all pages of a list holds of all pages of the rescored one.
LEMMA RescoredKeeps ==
  ASSUME NEW s, NEW t, Rescored(s, t), NEW b
  PROVE  /\ AllFail(s, b) => AllFail(t, b)
         /\ Bounded(s, b) => Bounded(t, b)
         /\ NamesAllOrNone(s, b) => NamesAllOrNone(t, b)
<1>1. ASSUME NEW u \in ToSet(t)
      PROVE  \E r \in ToSet(s) : /\ Told(u) = Told(r) /\ RelatedOnly(u, b) = RelatedOnly(r, b)
                                 /\ ShouldFilter(u, b) = ShouldFilter(r, b)
                                 /\ NamesExcluded(u, b) = NamesExcluded(r, b)
  BY SamePageReads DEF Rescored
<1>2. InBound(s, b) => InBound(t, b)
  BY <1>1 DEF InBound
<1>3. AllFail(s, b) => AllFail(t, b)
  BY <1>1 DEF AllFail
<1>4. NamesAllOrNone(s, b) => NamesAllOrNone(t, b)
  BY <1>1 DEF NamesAllOrNone
<1> QED
  BY <1>2, <1>3, <1>4 DEF Bounded

\* And of all pages of a part of it.
LEMMA PartKeeps ==
  ASSUME NEW s, NEW t, ToSet(t) \subseteq ToSet(s), NEW b
  PROVE  /\ AllFail(s, b) => AllFail(t, b)
         /\ Bounded(s, b) => Bounded(t, b)
         /\ NamesAllOrNone(s, b) => NamesAllOrNone(t, b)
BY DEF InBound, AllFail, Bounded, NamesAllOrNone

\* A list whose pages are those of another one by one, but for their scores.
LEMMA RescoredList ==
  ASSUME NEW s, NEW t, DOMAIN t = DOMAIN s, \A i \in DOMAIN s : SamePage(t[i], s[i])
  PROVE  Rescored(s, t)
BY DEF Rescored, ToSet

LEMMA RescoredSelf ==
  ASSUME NEW s
  PROVE  Rescored(s, s)
BY DEF Rescored, SamePage

\* Sorting neither adds nor loses a page.
LEMMA ByScoreKeeps ==
  ASSUME NEW s, IsShelf(s)
  PROVE  ToSet(ByScore(s)) = ToSet(s)
<1> DEFINE keys == [i \in DOMAIN s |-> s[i].score]
<1>1. DOMAIN keys = DOMAIN s
  OBVIOUS
<1>2. ByScore(s) = LET order == Order(keys) IN [k \in DOMAIN order |-> s[order[k]]]
  BY DEF ByScore, Descending, Map
<1> HIDE DEF keys
<1> QED BY <1>1, <1>2, SortedShelf

LEMMA PenaltyShelf ==
  ASSUME NEW s, IsShelf(s), NEW b
  PROVE  IsShelf(TitlePenalty(s, b))
<1> DEFINE cost(r) == IF AltScore(r) > 6000 THEN 100 ELSE If(AltScore(r) > 3000, 50, 1)
           t == [i \in DOMAIN s |-> If(TitleSays(s[i], ExpandNegatives(b.negative)), Scale(s[i], cost(s[i])), s[i])]
<1>1. t = [i \in DOMAIN s |-> t[i]] /\ \A i \in DOMAIN s : IsPage(t[i])
  <2> HIDE DEF cost
  <2> QED BY PagesOfShelf DEF IsPage, If, Scale
<1>2. TitlePenalty(s, b) = t
  BY DEF TitlePenalty, Map
<1> HIDE DEF t
<1> QED
  BY <1>1, <1>2, MappedShelf

\* The filter leaves no page that names an excluded term, or all of them do.
LEMMA HardShelf ==
  ASSUME NEW s, IsShelf(s), NEW b
  PROVE  IsShelf(HardNegative(s, b)) /\ NamesAllOrNone(HardNegative(s, b), b)
<1> DEFINE S == {i \in DOMAIN s : ~NamesExcluded(s[i], b)}
           kept == Those(s, S)
<1>1. IsShelf(kept) /\ IsList(s)
  BY KeepShelf, ShelfFacts
<1>2. ToSet(kept) = {s[i] : i \in S}
  <2>1. S \cap DOMAIN s = S
    OBVIOUS
  <2> HIDE DEF S
  <2> QED BY <1>1, <2>1, ThoseFacts
<1>3. \A r \in ToSet(kept) : ~NamesExcluded(r, b)
  <2> HIDE DEF kept
  <2> QED BY <1>2
<1>4. kept = <<>> => \A r \in ToSet(s) : NamesExcluded(r, b)
  <2> SUFFICES ASSUME kept = <<>>, NEW i \in DOMAIN s PROVE NamesExcluded(s[i], b)
    <3> HIDE DEF kept
    <3> QED BY DEF ToSet
  <2>1. ToSet(kept) = {}
    <3> HIDE DEF kept
    <3> QED BY DEF ToSet
  <2>2. i \notin S
    <3> HIDE DEF kept, S
    <3> QED BY <1>2, <2>1
  <2> QED BY <2>2
<1>5. HardNegative(s, b) = IF b.positive = <<>> \/ b.negative = <<>> \/ kept = <<>> THEN s ELSE kept
  BY DEF HardNegative, Keep
<1> HIDE DEF kept, S
<1> QED
  BY <1>1, <1>3, <1>4, <1>5 DEF NamesAllOrNone

LEMMA NudgeShelf ==
  ASSUME NEW s, IsShelf(s), NEW b, NEW contrastive
  PROVE  IsShelf(Nudge(s, b, contrastive)) /\ Rescored(s, Nudge(s, b, contrastive))
<1> DEFINE begins(r, t) == IF Len(t) > 1 THEN Phrase(r.title, t) ELSE Has(r.title, t[1])
           says(r) == \E i \in DOMAIN b.negative : begins(r, b.negative[i])
           gains(r) == IF contrastive THEN says(r) /\ IsAltPage(r) ELSE ~says(r)
           t == [i \in DOMAIN s |-> IF gains(s[i]) THEN [s[i] EXCEPT !.score = @ + 300] ELSE s[i]]
<1>1. t = [i \in DOMAIN s |-> t[i]] /\ \A i \in DOMAIN s : IsPage(t[i])
  <2> HIDE DEF gains
  <2> QED BY PagesOfShelf DEF IsPage
<1>2. Nudge(s, b, contrastive) = IF b.negative = <<>> THEN s ELSE ByScore(t)
  BY DEF Nudge, Map
<1>3. Rescored(s, t)
  <2>1. \A i \in DOMAIN s : SamePage(t[i], s[i])
    <3> HIDE DEF gains
    <3> QED BY PagesOfShelf DEF IsPage, PageFields, SamePage
  <2> HIDE DEF t
  <2> QED BY <1>1, <2>1, RescoredList
<1> HIDE DEF t
<1>4. IsShelf(ByScore(t)) /\ ToSet(ByScore(t)) = ToSet(t)
  BY <1>1, MappedShelf, ByScoreShelf, ByScoreKeeps
<1> QED
  BY <1>2, <1>3, <1>4, RescoredSelf DEF Rescored

\* A page that passes the gate tells no price beyond the bounds.
LEMMA PassesInBound ==
  ASSUME NEW r, NEW b, ~ShouldFilter(r, b), Told(r) # NoCost
  PROVE  ~Beyond(Told(r), b) \/ RelatedOnly(r, b)
<1>1. CASE HasPriceBound(b)
  BY <1>1 DEF ShouldFilter, PriceOutside
<1>2. CASE ~HasPriceBound(b)
  BY <1>2 DEF HasPriceBound, Beyond
<1> QED
  BY <1>1, <1>2

\* The last filter leaves only pages that pass it, or with an exclusion a list of
\* which none does.
LEMMA FinalShelf ==
  ASSUME NEW s, IsShelf(s), NEW b
  PROVE  LET t == FinalFilter(s, b) IN
         /\ IsShelf(t)
         /\ Bounded(t, b)
         /\ NamesAllOrNone(s, b) => NamesAllOrNone(t, b)
<1> DEFINE S == {i \in DOMAIN s : ~ShouldFilter(s[i], b)}
           kept == Those(s, S)
           t == [i \in DOMAIN s |-> Scale(s[i], 25)]
<1>1. IsShelf(kept) /\ IsList(s)
  BY KeepShelf, ShelfFacts
<1>2. ToSet(kept) = {s[i] : i \in S}
  <2>1. S \cap DOMAIN s = S
    OBVIOUS
  <2> HIDE DEF S
  <2> QED BY <1>1, <2>1, ThoseFacts
<1>3. InBound(kept, b)
  <2> SUFFICES ASSUME NEW r \in ToSet(kept), Told(r) # NoCost
               PROVE  ~Beyond(Told(r), b) \/ RelatedOnly(r, b)
    <3> HIDE DEF kept
    <3> QED BY DEF InBound
  <2>1. ~ShouldFilter(r, b)
    BY <1>2
  <2> QED BY <2>1, PassesInBound
<1>4. ToSet(kept) \subseteq ToSet(s)
  BY <1>2 DEF ToSet
<1>5. kept = <<>> => AllFail(s, b)
  <2> SUFFICES ASSUME kept = <<>>, NEW i \in DOMAIN s PROVE ShouldFilter(s[i], b)
    <3> HIDE DEF kept
    <3> QED BY DEF AllFail, ToSet
  <2>1. ToSet(kept) = {}
    <3> HIDE DEF kept
    <3> QED BY DEF ToSet
  <2>2. i \notin S
    <3> HIDE DEF kept, S
    <3> QED BY <1>2, <2>1
  <2> QED BY <2>2
<1>6. IsShelf(t) /\ Rescored(s, t)
  <2>1. t = [i \in DOMAIN s |-> t[i]] /\ \A i \in DOMAIN s : IsPage(t[i]) /\ SamePage(t[i], s[i])
    BY PagesOfShelf DEF IsPage, PageFields, SamePage, Scale
  <2> HIDE DEF t
  <2> QED BY <2>1, MappedShelf, RescoredList
<1>7. FinalFilter(s, b) = IF kept = <<>> /\ b.negative # <<>> THEN ByScore(t) ELSE kept
  BY DEF FinalFilter, Keep, Map
<1> HIDE DEF kept, t, S
<1>8. IsShelf(ByScore(t)) /\ Rescored(s, ByScore(t))
  BY <1>6, ByScoreShelf, ByScoreKeeps DEF Rescored
<1>9. kept = <<>> => AllFail(ByScore(t), b)
  BY <1>5, <1>8, RescoredKeeps
<1>10. NamesAllOrNone(s, b) => NamesAllOrNone(kept, b) /\ NamesAllOrNone(ByScore(t), b)
  BY <1>4, <1>8, RescoredKeeps, PartKeeps
<1> QED
  BY <1>1, <1>3, <1>7, <1>8, <1>9, <1>10 DEF Bounded

\* The last boost rescores and sorts.
LEMMA BoostAndSortShelf ==
  ASSUME NEW s, IsShelf(s), NEW b
  PROVE  IsShelf(BoostAndSort(s, b)) /\ Rescored(s, BoostAndSort(s, b))
<1> DEFINE t == [i \in DOMAIN s |-> [s[i] EXCEPT !.score = @ + ConstraintBoost(s[i], b)]]
<1>1. t = [i \in DOMAIN s |-> t[i]] /\ \A i \in DOMAIN s : IsPage(t[i])
  BY PagesOfShelf DEF IsPage
<1>2. Rescored(s, t)
  <2>1. \A i \in DOMAIN s : SamePage(t[i], s[i])
    BY PagesOfShelf DEF IsPage, PageFields, SamePage
  <2> HIDE DEF t
  <2> QED BY <1>1, <2>1, RescoredList
<1>3. BoostAndSort(s, b) = IF UNION {b.intitle, b.inurl, b.intext} = {} THEN s ELSE ByScore(t)
  BY DEF BoostAndSort, Boosted, Map
<1> HIDE DEF t
<1>4. IsShelf(t)
  BY <1>1, MappedShelf
<1>5. IsShelf(ByScore(t)) /\ ToSet(ByScore(t)) = ToSet(t)
  BY <1>4, ByScoreShelf, ByScoreKeeps
<1> QED
  BY <1>2, <1>3, <1>5, RescoredSelf DEF Rescored

\* After the clamp no page is above its cap.
LEMMA ClampShelf ==
  ASSUME NEW s, IsShelf(s)
  PROVE  IsShelf(ClampUnderCap(s)) /\ Rescored(s, ClampUnderCap(s)) /\ UnderCap(ClampUnderCap(s))
<1> DEFINE into(r) == Clamp(r.score, 500, One)
           v(r) == IF r.cap # NoCap THEN Least(into(r), r.cap) ELSE into(r)
           t == [i \in DOMAIN s |-> [s[i] EXCEPT !.score = v(s[i])]]
<1>1. ASSUME NEW i \in DOMAIN s
      PROVE  t[i].score = v(s[i]) /\ t[i].cap = s[i].cap /\ IsPage(t[i]) /\ SamePage(t[i], s[i])
  <2> HIDE DEF v
  <2> QED BY PagesOfShelf DEF IsPage, PageFields, SamePage
<1>2. ASSUME NEW i \in DOMAIN s, s[i].cap # NoCap
      PROVE  v(s[i]) < s[i].cap \/ v(s[i]) = s[i].cap
  <2> HIDE DEF into
  <2> QED BY <1>2 DEF Least
<1>3. t = [i \in DOMAIN s |-> t[i]] /\ DOMAIN t = DOMAIN s
  OBVIOUS
<1>4. ClampUnderCap(s) = t
  BY DEF ClampUnderCap, Map
<1> HIDE DEF t, v
<1>5. IsShelf(t)
  BY <1>1, <1>3, MappedShelf
<1>6. Rescored(s, t)
  BY <1>1, <1>3, RescoredList
<1>7. UnderCap(t)
  <2> SUFFICES ASSUME NEW i \in DOMAIN s, t[i].cap # NoCap
               PROVE  t[i].score < t[i].cap \/ t[i].score = t[i].cap
    BY <1>3 DEF UnderCap, ToSet
  <2> QED BY <1>1, <1>2
<1> QED
  BY <1>4, <1>5, <1>6, <1>7

\* Junk is dropped unless it is all there is.
LEMMA JunkShelf ==
  ASSUME NEW s, IsShelf(s)
  PROVE  IsShelf(DropJunk(s)) /\ ToSet(DropJunk(s)) \subseteq ToSet(s)
<1> DEFINE kept == Keep(s, LAMBDA r : "junk" \notin r.marks)
<1>1. IsShelf(kept) /\ ToSet(kept) \subseteq ToSet(s)
  BY KeepShelf DEF Keep
<1>2. DropJunk(s) = IF kept = <<>> THEN s ELSE kept
  BY DEF DropJunk
<1> HIDE DEF kept
<1> QED
  BY <1>1, <1>2

-------------------------------------------------------------------------------
(* The constraints of a query.                                             *)

Fields == DOMAIN NoConstraints

\* What the code's types say of constraints, the negatives a list and the
\* entities finite; the requirements are a list until the query is understood.
IsReading(b) == Fields \subseteq DOMAIN b /\ IsList(b.negative) /\ IsFiniteSet(b.entities)
IsSound(b) == IsReading(b) /\ IsList(b.positive)

\* The fields of a record of constraints.
LEMMA FieldsAre ==
  Fields = {"positive", "negative", "soft", "hard", "entities", "language", "types", "sites", "notTypes", "notSites",
            "phrases", "after", "before", "intitle", "inurl", "intext", "related", "min", "max", "lt", "gt", "currency"}
BY DEF Fields, NoConstraints

LEMMA Append1List ==
  ASSUME NEW s, IsList(s), NEW r
  PROVE  IsList(Append1(s, r))
BY AppendList DEF Append1

AllStep(p, acc, r) == Append1(acc, r)
AllGood(p, n, acc) == IsList(acc)
AllFold == INSTANCE FoldFacts WITH Step <- AllStep, Good <- AllGood

\* Terms added one by one, without repetition.
LEMMA AppendAll ==
  ASSUME NEW s, IsList(s), NEW t, IsList(t)
  PROVE  IsList(FoldLeft(Append1, s, t))
<1>1. Len(t) \in Nat /\ DOMAIN t = 1..Len(t)
  BY ListFacts
<1>2. AllGood({}, 0, s)
  BY DEF AllGood
<1>3. ASSUME NEW i \in 0..(Len(t) - 1), NEW acc, AllGood({}, i, acc)
      PROVE  AllGood({}, i + 1, AllStep({}, acc, t[i + 1]))
  BY <1>3, Append1List DEF AllGood, AllStep
<1>4. AllGood({}, Len(t), AllFold!Fold({}, s, t))
  BY <1>1, <1>2, <1>3, AllFold!FoldKeeps
<1> QED
  BY <1>4 DEF AllGood, AllStep, AllFold!Fold, AllFold!MapThenFoldSet, FoldLeft,
     MapThenFoldSet, Max, AllFold!Max

\* One item of the engine keeps the record sound.
LEMMA TakeItemSound ==
  ASSUME NEW b, IsSound(b), NEW item
  PROVE  IsSound(TakeItem(b, item))
<1>1. CASE item.op = "minus"
  <2>1. IsList(Append1(b.negative, item.term))
    BY Append1List DEF IsSound, IsReading
  <2>2. TakeItem(b, item) = IF Excludable(item.term) THEN [b EXCEPT !.negative = Append1(b.negative, item.term)] ELSE b
    BY <1>1 DEF TakeItem
  <2> QED BY <2>1, <2>2, FieldsAre DEF IsSound, IsReading
<1>2. CASE item.op \in {"types", "sites", "intitle", "inurl", "intext", "related"}
  <2>1. TakeItem(b, item) = [b EXCEPT ![item.op] = b[item.op] \cup {item.value}]
    BY <1>2 DEF TakeItem
  <2> QED BY <1>2, <2>1, FieldsAre DEF IsSound, IsReading
<1>3. CASE item.op \in {"after", "before"}
  <2>1. TakeItem(b, item) = [b EXCEPT ![item.op] = item.value]
    BY <1>3 DEF TakeItem
  <2> QED BY <1>3, <2>1, FieldsAre DEF IsSound, IsReading
<1>4. CASE item.op = "price"
  <2> DEFINE p == PriceRange(item.value)
  <2>1. TakeItem(b, item) = [b EXCEPT !.min = Or(p.min, NoPrice, b.min), !.max = Or(p.max, NoPrice, b.max),
                                      !.lt = Or(p.lt, NoPrice, b.lt), !.gt = Or(p.gt, NoPrice, b.gt)]
    BY <1>4 DEF TakeItem
  <2> HIDE DEF p
  <2> QED BY <2>1, FieldsAre DEF IsSound, IsReading
<1>5. CASE /\ item.op # "minus" /\ item.op \notin {"types", "sites", "intitle", "inurl", "intext", "related"}
           /\ item.op \notin {"after", "before"} /\ item.op # "price"
  <2>1. TakeItem(b, item) = b
    BY <1>5 DEF TakeItem
  <2> QED BY <2>1
<1> QED BY <1>1, <1>2, <1>3, <1>4, <1>5

ExcludeStep(p, acc, t) == IF Excludable(t) THEN Append1(acc, t) ELSE acc
ExcludeGood(p, n, acc) == IsList(acc)
ExcludeFold == INSTANCE FoldFacts WITH Step <- ExcludeStep, Good <- ExcludeGood

\* The exclusions that survive the sanitiser.
LEMMA ExcludableList ==
  ASSUME NEW t, IsList(t)
  PROVE  IsList(FoldLeft(LAMBDA acc, w : IF Excludable(w) THEN Append1(acc, w) ELSE acc, <<>>, t))
<1>1. Len(t) \in Nat /\ DOMAIN t = 1..Len(t)
  BY ListFacts
<1>2. ExcludeGood({}, 0, <<>>)
  BY EmptyList DEF ExcludeGood
<1>3. ASSUME NEW i \in 0..(Len(t) - 1), NEW acc, ExcludeGood({}, i, acc)
      PROVE  ExcludeGood({}, i + 1, ExcludeStep({}, acc, t[i + 1]))
  BY <1>3, Append1List DEF ExcludeGood, ExcludeStep
<1>4. ExcludeGood({}, Len(t), ExcludeFold!Fold({}, <<>>, t))
  BY <1>1, <1>2, <1>3, ExcludeFold!FoldKeeps
<1> QED
  BY <1>4 DEF ExcludeGood, ExcludeStep, ExcludeFold!Fold, ExcludeFold!MapThenFoldSet, FoldLeft,
     MapThenFoldSet, Max, ExcludeFold!Max

ItemStep(p, acc, item) ==
  IF item.op = "plain"
  THEN IF Requirable(acc, item.term) THEN [acc EXCEPT !.positive = Append(@, item.term)] ELSE acc
  ELSE TakeItem(acc, item)
ItemGood(p, n, acc) == IsSound(acc)
ItemFold == INSTANCE FoldFacts WITH Step <- ItemStep, Good <- ItemGood

\* The sanitiser takes what the engine says item by item.
LEMMA SanitizeSound ==
  ASSUME NEW b, IsSound(b)
  PROVE  IsSound(SanitizeConstraints(b))
<1> DEFINE negatives == FoldLeft(LAMBDA acc, w : IF Excludable(w) THEN Append1(acc, w) ELSE acc, <<>>, b.negative)
           start == [b EXCEPT !.negative = negatives, !.positive = <<>>, !.soft = <<>>]
           items == b.positive
           n == Len(items)
<1>1. n \in Nat /\ DOMAIN items = 1..n
  BY ListFacts DEF IsSound
<1>2. ItemGood({}, 0, start)
  <2>1. IsList(negatives)
    BY ExcludableList DEF IsSound, IsReading
  <2> HIDE DEF negatives
  <2> QED BY <2>1, EmptyList, FieldsAre DEF ItemGood, IsSound, IsReading
<1>3. ASSUME NEW acc, IsSound(acc), NEW item
      PROVE  IsSound(ItemStep({}, acc, item))
  <2>1. IsList(Append(acc.positive, item.term))
    BY <1>3, AppendList DEF IsSound
  <2>2. IsSound([acc EXCEPT !.positive = Append(@, item.term)])
    <3> DEFINE v == Append(acc.positive, item.term)
    <3> HIDE DEF v
    <3>1. IsSound([acc EXCEPT !.positive = v])
      BY <1>3, <2>1, FieldsAre DEF IsSound, IsReading, v
    <3> QED BY <3>1 DEF v
  <2> QED BY <1>3, <2>2, TakeItemSound DEF ItemStep
<1>4. ASSUME NEW i \in 0..(n - 1), NEW acc, ItemGood({}, i, acc)
      PROVE  ItemGood({}, i + 1, ItemStep({}, acc, items[i + 1]))
  BY <1>3, <1>4 DEF ItemGood
<1>5. SanitizeConstraints(b) = ItemFold!Fold({}, start, items)
  BY DEF SanitizeConstraints, ItemStep, ItemFold!Fold, ItemFold!MapThenFoldSet, FoldLeft,
     MapThenFoldSet, Max, ItemFold!Max
<1>6. ItemGood({}, n, ItemFold!Fold({}, start, items))
  <2> HIDE DEF n, start, items
  <2> QED BY <1>1, <1>2, <1>4, ItemFold!FoldKeeps
<1> QED
  BY <1>5, <1>6 DEF ItemGood

\* One operator of the query keeps the record sound.
LEMMA ReadOperatorSound ==
  ASSUME NEW b, IsSound(b), NEW w
  PROVE  IsSound(ReadOperator(b, w))
<1> DEFINE o == Operator[w]
<1>1. CASE o.op \in {"types", "sites"} /\ o.negated
  <2>1. ReadOperator(b, w) = [b EXCEPT !.negative = Append(b.negative, <<w>>)]
    <3> QED BY <1>1 DEF ReadOperator
  <2>2. IsList(Append(b.negative, <<w>>))
    BY AppendList DEF IsSound, IsReading
  <2> DEFINE v == Append(b.negative, <<w>>)
  <2> HIDE DEF v
  <2>3. IsSound([b EXCEPT !.negative = v])
    BY <2>2, FieldsAre DEF IsSound, IsReading, v
  <2> QED BY <2>1, <2>3 DEF v
<1>2. CASE o.op = "types" /\ ~o.negated
  <2>1. ReadOperator(b, w) = [b EXCEPT !.types = b.types \cup {o.value}]
    BY <1>2 DEF ReadOperator
  <2> QED BY <2>1, FieldsAre DEF IsSound, IsReading
<1>3. CASE o.op = "sites" /\ ~o.negated
  <2>1. ReadOperator(b, w) \in {[b EXCEPT !.sites = b.sites \cup {o.value}], b}
    BY <1>3 DEF ReadOperator
  <2> QED BY <2>1, FieldsAre DEF IsSound, IsReading
<1>4. CASE o.op = "not"
  <2>1. ReadOperator(b, w) = [b EXCEPT !.hard = b.hard \cup {o.value}]
    BY <1>4 DEF ReadOperator
  <2> QED BY <2>1, FieldsAre DEF IsSound, IsReading
<1>5. CASE o.op = "lang"
  <2>1. ReadOperator(b, w) = [b EXCEPT !.language = o.value]
    BY <1>5 DEF ReadOperator
  <2> QED BY <2>1, FieldsAre DEF IsSound, IsReading
<1>6. CASE o.op \notin {"types", "sites", "not", "lang"}
  <2>1. ReadOperator(b, w) = TakeItem(b, o)
    BY <1>6 DEF ReadOperator
  <2> QED BY <2>1, TakeItemSound
<1> HIDE DEF o
<1> QED BY <1>1, <1>2, <1>3, <1>4, <1>5, <1>6

OperatorStep(p, acc, w) == ReadOperator(acc, w)
OperatorGood(p, n, acc) == IsSound(acc)
OperatorFold == INSTANCE FoldFacts WITH Step <- OperatorStep, Good <- OperatorGood

LEMMA KeepList ==
  ASSUME NEW s, IsList(s), NEW S, NEW t, t = Those(s, S)
  PROVE  IsList(t)
BY ThoseFacts

\* What the gateway reads in the query itself.
LEMMA GatewaySound ==
  ASSUME NEW query, IsList(query), NEW quotes
  PROVE  IsSound(GatewayConstraints(query, quotes))
<1> DEFINE ops == Operators(query)
           n == Len(ops)
           b == [NoConstraints EXCEPT !.phrases = quotes]
           read == OperatorFold!Fold({}, b, ops)
<1>1. IsList(ops)
  BY KeepList DEF Operators, Keep
<1>2. n \in Nat /\ DOMAIN ops = 1..n
  <2> HIDE DEF ops
  <2> QED BY <1>1, ListFacts
<1>3. OperatorGood({}, 0, b)
  <2>1. b.negative = <<>> /\ b.positive = <<>> /\ b.entities = {} /\ DOMAIN b = Fields
    BY DEF NoConstraints, Fields
  <2> HIDE DEF b
  <2> QED BY <2>1, EmptyList, FS_EmptySet DEF OperatorGood, IsSound, IsReading
<1>4. ASSUME NEW i \in 0..(n - 1), NEW acc, OperatorGood({}, i, acc)
      PROVE  OperatorGood({}, i + 1, OperatorStep({}, acc, ops[i + 1]))
  BY <1>4, ReadOperatorSound DEF OperatorGood, OperatorStep
<1>5. OperatorGood({}, n, read)
  <2> HIDE DEF n, b, ops
  <2> QED BY <1>2, <1>3, <1>4, OperatorFold!FoldKeeps
<1>6. GatewayConstraints(query, quotes) = [read EXCEPT !.language = Or(@, NoLanguage, SpokenLanguage(query))]
  BY DEF GatewayConstraints, OperatorStep, OperatorFold!Fold, OperatorFold!MapThenFoldSet,
     FoldLeft, MapThenFoldSet, Max, OperatorFold!Max
<1> HIDE DEF read
<1> QED
  BY <1>5, <1>6, FieldsAre DEF OperatorGood, IsSound, IsReading

\* The reading of the engine joined with that of the gateway.
LEMMA MergeSound ==
  ASSUME NEW b, IsSound(b), NEW own
  PROVE  IsSound(MergeConstraints(b, own))
<1>1. DOMAIN MergeConstraints(b, own) = DOMAIN b
  BY DEF MergeConstraints
<1>2. /\ MergeConstraints(b, own).negative = b.negative /\ MergeConstraints(b, own).positive = b.positive
      /\ MergeConstraints(b, own).entities = b.entities
  BY FieldsAre DEF MergeConstraints, IsSound, IsReading
<1> QED
  BY <1>1, <1>2 DEF IsSound, IsReading

LEMMA SpokenSound ==
  ASSUME NEW b, IsSound(b), NEW query
  PROVE  IsSound(AddSpokenPrice(b, query))
<1> DEFINE p == PriceInWords(query)
<1>1. AddSpokenPrice(b, query) \in {b, [b EXCEPT !.lt = p.amount, !.max = p.amount, !.currency = p.currency]}
  BY DEF AddSpokenPrice
<1> HIDE DEF p
<1> QED
  BY <1>1, FieldsAre DEF IsSound, IsReading

LEMMA PlainSound ==
  ASSUME NEW b, IsSound(b)
  PROVE  IsSound(Plain(b))
<1> DEFINE t == [i \in DOMAIN b.positive |-> [op |-> "plain", term |-> b.positive[i]]]
<1>1. IsList(t)
  <2>1. Len(b.positive) \in Nat /\ DOMAIN b.positive = 1..Len(b.positive)
    BY ListFacts DEF IsSound
  <2>2. t = [i \in 1..Len(b.positive) |-> t[i]]
    BY <2>1
  <2> HIDE DEF t
  <2> QED BY <2>1, <2>2, ListByPosition
<1>2. Plain(b) = [b EXCEPT !.positive = t]
  BY DEF Plain
<1> HIDE DEF t
<1> QED
  BY <1>1, <1>2, FieldsAre DEF IsSound, IsReading

\* A place of the query or of the client is added as an entity.
LEMMA LocationSound ==
  ASSUME NEW b, IsSound(b), NEW query, NEW place
  PROVE  IsSound(AddLocation(b, query, place))
<1> DEFINE new == {p \in {place.city, place.code} \ {NoPlace} : ~\E e \in b.entities : e.text = <<p>>}
           more == b.entities \cup {[text |-> <<p>>, role |-> "target"] : p \in new}
           wanted == IF place.city \in new THEN Append1(b.positive, <<place.city>>) ELSE b.positive
<1>1. IsFiniteSet(more)
  <2>1. IsFiniteSet({place.city, place.code})
    <3>1. IsFiniteSet({place.city}) /\ IsFiniteSet({place.code})
      BY FS_Singleton
    <3>2. IsFiniteSet({place.city} \cup {place.code})
      BY <3>1, FS_Union
    <3>3. {place.city} \cup {place.code} = {place.city, place.code}
      OBVIOUS
    <3> QED BY <3>2, <3>3, Zenon
  <2>2. IsFiniteSet(new)
    <3>1. new \subseteq {place.city, place.code}
      OBVIOUS
    <3> HIDE DEF new
    <3> QED BY <2>1, <3>1, FS_Subset
  <2>3. IsFiniteSet({[text |-> <<p>>, role |-> "target"] : p \in new})
    <3> DEFINE entry == [p \in new |-> [text |-> <<p>>, role |-> "target"]]
               T == {[text |-> <<p>>, role |-> "target"] : p \in new}
    <3> HIDE DEF new
    <3>1. entry \in Surjection(new, T)
      BY DEF Surjection
    <3> HIDE DEF entry
    <3> QED BY <2>2, <3>1, FS_Surjection
  <2>4. IsFiniteSet(b.entities)
    BY DEF IsSound, IsReading
  <2> QED BY <2>3, <2>4, FS_Union
<1>2. IsList(wanted)
  <2> HIDE DEF new
  <2> QED BY Append1List DEF IsSound
<1>3. AddLocation(b, query, place) =
        IF InferredLocation(query, place) THEN b ELSE [b EXCEPT !.entities = more, !.positive = wanted]
  BY DEF AddLocation
<1> HIDE DEF more, wanted
<1> QED
  BY <1>1, <1>2, <1>3, FieldsAre DEF IsSound, IsReading

LEMMA PairsList ==
  ASSUME NEW run, IsList(run)
  PROVE  IsList(Pairs(run))
<1> DEFINE n == Len(run)
           m == (n + 1) \div 2
           t == [k \in 1..m |-> SubSeq(run, Most(n - 2 * k + 1, 1), n - 2 * k + 2)]
<1>1. m \in Nat
  <2>1. n \in Nat
    BY ListFacts
  <2> HIDE DEF n
  <2> QED BY <2>1
<1>2. t = [k \in 1..m |-> t[k]]
  OBVIOUS
<1>3. Pairs(run) = t
  BY DEF Pairs
<1> HIDE DEF m, t
<1> QED BY <1>1, <1>2, <1>3, ListByPosition

\* p: the negative terms
TermsStep(p, acc, w) ==
  LET topical(v) == /\ Kind[v] \cap {"letter", "operator", "dashed", "digits", "stop", "nonTopical", "noise"} = {}
                    /\ \A i \in DOMAIN p : v \notin Words(p[i])
  IN IF topical(w) THEN [acc EXCEPT !.run = Append(@, w)]
     ELSE [terms |-> FoldLeft(Append1, acc.terms, Pairs(acc.run)), run |-> <<>>]
TermsGood(p, n, acc) == {"terms", "run"} \subseteq DOMAIN acc /\ IsList(acc.terms) /\ IsList(acc.run)
TermsFold == INSTANCE FoldFacts WITH Step <- TermsStep, Good <- TermsGood

\* The terms the gateway makes up without the engine.
LEMMA FallbackTermsList ==
  ASSUME NEW query, IsList(query), NEW negative
  PROVE  IsList(FallbackTerms(query, negative))
<1> DEFINE n == Len(query)
           b == [terms |-> <<>>, run |-> <<>>]
           end == TermsFold!Fold(negative, b, query)
           terms == FoldLeft(Append1, end.terms, Pairs(end.run))
           within(t) == \E i \in DOMAIN terms : Len(terms[i]) > 1 /\ t[1] \in Words(terms[i])
<1>1. n \in Nat /\ DOMAIN query = 1..n
  BY ListFacts
<1>2. TermsGood(negative, 0, b)
  BY EmptyList DEF TermsGood
<1>3. ASSUME NEW i \in 0..(n - 1), NEW acc, TermsGood(negative, i, acc)
      PROVE  TermsGood(negative, i + 1, TermsStep(negative, acc, query[i + 1]))
  <2> DEFINE run == Append(acc.run, query[i + 1])
             all == FoldLeft(Append1, acc.terms, Pairs(acc.run))
  <2>1. IsList(run)
    BY <1>3, AppendList DEF TermsGood
  <2>2. IsList(all)
    BY <1>3, PairsList, AppendAll DEF TermsGood
  <2>3. TermsStep(negative, acc, query[i + 1]) \in {[acc EXCEPT !.run = run], [terms |-> all, run |-> <<>>]}
    BY DEF TermsStep
  <2> HIDE DEF run, all
  <2> QED BY <1>3, <2>1, <2>2, <2>3, EmptyList DEF TermsGood
<1>4. TermsGood(negative, n, end)
  <2> HIDE DEF n, b
  <2> QED BY <1>1, <1>2, <1>3, TermsFold!FoldKeeps
<1>5. IsList(terms)
  <2> HIDE DEF end
  <2> QED BY <1>4, PairsList, AppendAll DEF TermsGood
<1>6. FallbackTerms(query, negative) = Those(terms, {i \in DOMAIN terms : Len(terms[i]) > 1 \/ ~within(terms[i])})
  BY DEF FallbackTerms, Keep, TermsStep, TermsFold!Fold, TermsFold!MapThenFoldSet,
     FoldLeft, MapThenFoldSet, Max, TermsFold!Max
<1> HIDE DEF terms
<1> QED
  BY <1>5, <1>6, KeepList

\* The reading of the gateway alone has all that one of the engine has.
LEMMA FallbackSound ==
  ASSUME NEW query, IsList(query), NEW quotes
  PROVE  LET r == FallbackIntent(query, quotes) IN
         {"intent", "conf", "dist", "c"} \subseteq DOMAIN r /\ IsSound(r.c)
<1> DEFINE dashed == Keep(query, LAMBDA w : Is("dashed", w))
           negative == [i \in DOMAIN dashed |-> <<Bare[dashed[i]]>>]
           own == GatewayConstraints(query, quotes)
           terms == FallbackTerms(query, negative)
           positive == [i \in DOMAIN terms |-> [op |-> "plain", term |-> terms[i]]]
           full == [own EXCEPT !.negative = negative, !.positive = positive]
<1>1. IsList(dashed)
  BY KeepList DEF Keep
<1>2. IsList(negative)
  <2> HIDE DEF dashed
  <2>1. Len(dashed) \in Nat /\ DOMAIN dashed = 1..Len(dashed)
    BY <1>1, ListFacts
  <2>2. negative = [i \in 1..Len(dashed) |-> negative[i]]
    BY <2>1
  <2> HIDE DEF negative
  <2> QED BY <2>1, <2>2, ListByPosition
<1>3. IsList(positive)
  <2> HIDE DEF negative
  <2>1. IsList(terms)
    BY FallbackTermsList
  <2> HIDE DEF terms
  <2>2. Len(terms) \in Nat /\ DOMAIN terms = 1..Len(terms)
    BY <2>1, ListFacts
  <2>3. positive = [i \in 1..Len(terms) |-> positive[i]]
    BY <2>2
  <2> HIDE DEF positive
  <2> QED BY <2>2, <2>3, ListByPosition
<1>4. IsSound(own)
  BY GatewaySound
<1>5. IsSound(full)
  <2> HIDE DEF own, negative, positive
  <2> QED BY <1>2, <1>3, <1>4, FieldsAre DEF IsSound, IsReading
<1>6. FallbackIntent(query, quotes) = [intent |-> "informational", conf |-> 3000, dist |-> <<>>, c |-> full]
  BY DEF FallbackIntent
<1> HIDE DEF full
<1> QED
  BY <1>5, <1>6

\* The corrections of the intent leave the constraints alone.
Same(r, u) == DOMAIN u = DOMAIN r /\ u.c = r.c

\* The steps on the intent leave the constraints alone.
LEMMA PutSame ==
  ASSUME NEW r, NEW label, NEW p
  PROVE  Same(r, Put(r, label, p))
BY DEF Same, Put

LEMMA BecomeSame ==
  ASSUME NEW r, NEW label, NEW conf, NEW p
  PROVE  Same(r, Become(r, label, conf, p))
BY DEF Same, Put, Become

LEMMA DampSame ==
  ASSUME NEW r, NEW label, NEW percent
  PROVE  Same(r, Damp(r, label, percent))
BY PutSame DEF Same, Damp

LEMMA ContractSame ==
  ASSUME NEW r
  PROVE  Same(r, IntentContract(r))
BY DEF Same, IntentContract

LEMMA CorrectSame ==
  ASSUME NEW r, NEW query, NEW window
  PROVE  Same(r, CorrectIntent(r, query, window))
BY DEF Same, CorrectIntent

LEMMA OverrideSame ==
  ASSUME NEW r, NEW query, NEW s
  PROVE  Same(r, OverrideIntent(r, query, s))
<1>0. \A u : Same(u, u)
  BY DEF Same
<1>1. \A u : Same(u, OverrideOnlyNegative(u))
  BY <1>0, PutSame, BecomeSame DEF Same, OverrideOnlyNegative
<1>2. \A u : Same(u, OverrideFresh(u, s))
  BY <1>0, PutSame, BecomeSame DEF Same, OverrideFresh
<1>3. \A u : Same(u, OverrideOtherThan(u, s))
  BY <1>0, PutSame DEF Same, OverrideOtherThan
<1>4. \A u : Same(u, OverrideLocal(u, query, s))
  BY <1>0, BecomeSame DEF Same, OverrideLocal
<1>5. \A u : Same(u, OverrideComparison(u, s))
  BY <1>0, PutSame, BecomeSame DEF Same, OverrideComparison
<1>6. \A u : Same(u, Purchase(u))
  BY BecomeSame DEF Purchase
<1>7. \A u : Same(u, OverridePurchase(u, query, s))
  BY <1>0, <1>6, DampSame DEF Same, OverridePurchase
<1>8. \A u : Same(u, OverrideCareer(u, s))
  BY <1>0, DampSame, BecomeSame DEF Same, OverrideCareer
<1>9. \A u : Same(u, OverrideModel(u, s))
  BY <1>0, <1>6 DEF Same, OverrideModel
<1>10. \A u : Same(u, OverrideDownload(u, s))
  BY <1>0, PutSame, BecomeSame DEF Same, OverrideDownload
<1>11. \A u : Same(u, OverrideWeather(u, s))
  BY <1>0, BecomeSame DEF Same, OverrideWeather
<1>12. \A u : Same(u, OverrideBuild(u, s))
  BY <1>0, DampSame, BecomeSame DEF Same, OverrideBuild
<1>13. \A u : Same(u, OverrideHowTo(u, s))
  BY <1>0, PutSame, BecomeSame DEF Same, OverrideHowTo
<1>14. \A u : Same(u, OverrideResearch(u, s))
  BY <1>0, PutSame, BecomeSame DEF Same, OverrideResearch
<1>15. \A u, v, w : Same(u, v) /\ Same(v, w) => Same(u, w)
  BY DEF Same
<1> DEFINE topic == OverrideLocal(OverrideOtherThan(OverrideFresh(OverrideOnlyNegative(r), s), s), query, s)
           trade == OverrideModel(OverrideCareer(OverridePurchase(OverrideComparison(topic, s), query, s), s), s)
<1>16. Same(r, topic)
  <2>1. Same(r, OverrideFresh(OverrideOnlyNegative(r), s))
    BY <1>1, <1>2, <1>15
  <2> QED BY <2>1, <1>3, <1>4, <1>15
<1>17. Same(topic, trade)
  <2> HIDE DEF topic
  <2>1. Same(topic, OverridePurchase(OverrideComparison(topic, s), query, s))
    BY <1>5, <1>7, <1>15
  <2> QED BY <2>1, <1>8, <1>9, <1>15
<1>18. Same(trade, OverrideBuild(OverrideWeather(OverrideDownload(trade, s), s), s))
  <2> HIDE DEF trade
  <2>1. Same(trade, OverrideWeather(OverrideDownload(trade, s), s))
    BY <1>10, <1>11, <1>15
  <2> QED BY <2>1, <1>12, <1>15
<1>19. Same(trade, OverrideIntent(r, query, s))
  <2>1. OverrideIntent(r, query, s) =
          OverrideResearch(OverrideHowTo(OverrideBuild(OverrideWeather(OverrideDownload(trade, s), s), s), s), s)
    BY DEF OverrideIntent
  <2> HIDE DEF trade
  <2> QED BY <2>1, <1>18, <1>13, <1>14, <1>15
<1> HIDE DEF topic, trade
<1> QED BY <1>16, <1>17, <1>19, <1>15

IsIntent(r) == {"intent", "conf", "dist", "c"} \subseteq DOMAIN r /\ IsReading(r.c)

\* Whoever read the query, what it is understood to ask for is a reading.
LEMMA UnderstandReads ==
  ASSUME NEW r, {"intent", "conf", "dist", "c"} \subseteq DOMAIN r, IsSound(r.c)
  PROVE  IsIntent(Understand(r))
<1> DEFINE own == GatewayConstraints(q, request.quotes)
           clean == SanitizeConstraints(r.c)
           merged == AddSpokenPrice(MergeConstraints(clean, own), q)
           full == AddLocation(SanitizeConstraints(Plain(merged)), q, Place)
           shaped == CorrectIntent(r, q, RecencyWindow(request.says, request.span, request.today))
           read == [shaped EXCEPT !.c = full]
<1>1. IsSound(merged)
  <2>1. IsSound(clean)
    BY SanitizeSound
  <2> HIDE DEF clean, own
  <2> QED BY <2>1, MergeSound, SpokenSound
<1>2. IsSound(full)
  <2> HIDE DEF merged
  <2> QED BY <1>1, PlainSound, SanitizeSound, LocationSound
<1>3. {"intent", "conf", "dist", "c"} \subseteq DOMAIN read /\ read.c = full
  <2>1. Same(r, shaped)
    BY CorrectSame
  <2> HIDE DEF shaped, full
  <2> QED BY <2>1 DEF Same
<1>4. Understand(r) = OverrideIntent(IntentContract(read), q, request.signals)
  BY DEF Understand
<1> HIDE DEF read, full
<1>5. Same(read, IntentContract(read)) /\ Same(IntentContract(read), Understand(r))
  BY <1>4, ContractSame, OverrideSame
<1> QED
  BY <1>2, <1>3, <1>5 DEF Same, IsIntent, IsSound

-------------------------------------------------------------------------------
(* The terms that a query excludes.                                        *)

LEMMA MarkerLengthNat ==
  ASSUME NEW query, NEW i
  PROVE  MarkerLength(query, i) \in {0, 1, 2}
BY DEF MarkerLength, If

LEMMA SkipStopsNat ==
  ASSUME NEW query, NEW j \in Nat, NEW n \in Nat
  PROVE  SkipStops(query, j, n) \in Nat
<1> DEFINE T == {k \in j..(j + n) : k = j + n \/ k > Len(query) \/ ~Is("negStop", query[k])}
<1>1. T \in SUBSET Nat /\ j + n \in T
  OBVIOUS
<1>2. SkipStops(query, j, n) = Min(T)
  BY DEF SkipStops
<1> HIDE DEF T
<1>3. Min(T) \in T
  BY <1>1, LowestOf
<1> QED BY <1>1, <1>2, <1>3

\* Where the excluded terms behind a marker begin.
LEMMA TargetNat ==
  ASSUME NEW query, NEW i \in Nat
  PROVE  Target(query, i) \in Nat
<1> DEFINE at == SkipStops(query, i + MarkerLength(query, i), 3)
           past == SkipStops(query, at + 1, 4)
<1>1. i + MarkerLength(query, i) \in Nat
  <2>1. MarkerLength(query, i) \in Nat
    BY MarkerLengthNat
  <2> QED BY <2>1
<1>2. at \in Nat
  BY <1>1, SkipStopsNat
<1>3. past \in Nat
  <2> HIDE DEF at
  <2> QED BY <1>2, SkipStopsNat
<1>4. Target(query, i) \in {at, past}
  BY DEF Target
<1> HIDE DEF at, past
<1> QED BY <1>2, <1>3, <1>4

\* The rest of a query has as many elements as positions, or none.
LEMMA RestDomain ==
  ASSUME NEW query, IsList(query), NEW j \in Nat
  PROVE  \E m \in Nat : DOMAIN SubSeq(query, j, Len(query)) = 1..m
<1>1. Len(query) \in Nat
  BY ListFacts
<1>2. DOMAIN SubSeq(query, j, Len(query)) = 1..(Len(query) - j + 1)
  BY <1>1
<1>3. CASE Len(query) - j + 1 >= 0
  BY <1>1, <1>2, <1>3
<1>4. CASE Len(query) - j + 1 < 0
  <2>1. 1..(Len(query) - j + 1) = 1..0
    BY <1>1, <1>4
  <2> QED BY <1>2, <2>1
<1> QED BY <1>1, <1>3, <1>4

\* p: the query
CompoundStep(p, a, v) ==
  LET flush(acc) == IF acc.run = <<>> THEN acc ELSE [acc EXCEPT !.done = Append(@, acc.run), !.run = <<>>]
      ended(acc) == [acc EXCEPT !.over = TRUE]
      take(acc, w) == [acc EXCEPT !.run = Append(@, w)]
      step(acc, w) ==
        IF acc.over THEN acc
        ELSE IF Marker(w) THEN ended(acc)
        ELSE IF Is("operator", w) THEN ended(flush(acc))
        ELSE IF w \in {"and", "or"} THEN flush(acc)
        ELSE IF Kind[w] \cap {"negStop", "genericNeg"} # {} THEN ended(acc)
        ELSE IF w \in SubjectWords(p) /\ acc.run # <<>> THEN ended(flush(acc))
        ELSE IF Is("comma", w) THEN flush(take(acc, w)) ELSE take(acc, w)
  IN step(a, v)
CompoundGood(p, n, acc) == {"run", "done", "over"} \subseteq DOMAIN acc /\ IsList(acc.run) /\ IsList(acc.done)
CompoundFold == INSTANCE FoldFacts WITH Step <- CompoundStep, Good <- CompoundGood

\* The words behind a marker, cut into terms.
LEMMA CompoundsLists ==
  ASSUME NEW query, IsList(query), NEW j \in Nat
  PROVE  IsList(Compounds(query, j).run) /\ IsList(Compounds(query, j).done)
<1> DEFINE rest == SubSeq(query, j + 1, Len(query))
           b == [run |-> <<query[j]>>, done |-> <<>>, over |-> FALSE]
<1>1. PICK m \in Nat : DOMAIN rest = 1..m
  <2>1. j + 1 \in Nat
    OBVIOUS
  <2> QED BY <2>1, RestDomain
<1>2. CompoundGood(query, 0, b)
  <2>1. IsList(<<query[j]>>)
    BY DEF IsList, ToSet
  <2> QED BY <2>1, EmptyList DEF CompoundGood
<1>3. ASSUME NEW acc, CompoundGood(query, 0, acc), NEW w
      PROVE  CompoundGood(query, 0, CompoundStep(query, acc, w))
  <2> DEFINE flush(a) == IF a.run = <<>> THEN a ELSE [a EXCEPT !.done = Append(@, a.run), !.run = <<>>]
             ended(a) == [a EXCEPT !.over = TRUE]
             take(a, v) == [a EXCEPT !.run = Append(@, v)]
  <2>1. ASSUME NEW a, CompoundGood(query, 0, a)
        PROVE  CompoundGood(query, 0, flush(a))
    <3> DEFINE more == Append(a.done, a.run)
    <3>1. IsList(more)
      BY <2>1, AppendList DEF CompoundGood
    <3>2. flush(a) \in {a, [a EXCEPT !.done = more, !.run = <<>>]}
      OBVIOUS
    <3> HIDE DEF more, flush
    <3> QED BY <2>1, <3>1, <3>2, EmptyList DEF CompoundGood
  <2>2. ASSUME NEW a, CompoundGood(query, 0, a)
        PROVE  CompoundGood(query, 0, ended(a))
    BY <2>2 DEF CompoundGood
  <2>3. ASSUME NEW a, CompoundGood(query, 0, a), NEW v
        PROVE  CompoundGood(query, 0, take(a, v))
    <3> DEFINE more == Append(a.run, v)
    <3>1. IsList(more)
      BY <2>3, AppendList DEF CompoundGood
    <3>2. take(a, v) = [a EXCEPT !.run = more]
      OBVIOUS
    <3> HIDE DEF more, take
    <3> QED BY <2>3, <3>1, <3>2 DEF CompoundGood
  <2>4. CompoundStep(query, acc, w) \in
          {acc, ended(acc), ended(flush(acc)), flush(acc), flush(take(acc, w)), take(acc, w)}
    BY DEF CompoundStep
  <2> HIDE DEF flush, ended, take
  <2> QED BY <1>3, <2>1, <2>2, <2>3, <2>4
<1>4. ASSUME NEW i \in 0..(m - 1), NEW acc, CompoundGood(query, i, acc)
      PROVE  CompoundGood(query, i + 1, CompoundStep(query, acc, rest[i + 1]))
  <2>1. CompoundGood(query, 0, CompoundStep(query, acc, rest[i + 1]))
    <3>1. CompoundGood(query, 0, acc)
      BY <1>4 DEF CompoundGood
    <3> HIDE DEF rest
    <3> QED BY <1>3, <3>1
  <2> QED BY <2>1 DEF CompoundGood
<1>5. Compounds(query, j) = CompoundFold!Fold(query, b, rest)
  BY DEF Compounds, CompoundStep, CompoundFold!Fold, CompoundFold!MapThenFoldSet,
     FoldLeft, MapThenFoldSet, Max, CompoundFold!Max
<1>6. CompoundGood(query, m, CompoundFold!Fold(query, b, rest))
  <2> HIDE DEF b, rest
  <2> QED BY <1>1, <1>2, <1>4, CompoundFold!FoldKeeps
<1> QED
  BY <1>5, <1>6 DEF CompoundGood

\* p: the query
RecordStep(p, acc, t) == Record(acc, t, p)
RecordGood(p, n, acc) == {"at", "terms", "dropped"} \subseteq DOMAIN acc /\ IsList(acc.terms) /\ IsList(acc.dropped)
RecordFold == INSTANCE FoldFacts WITH Step <- RecordStep, Good <- RecordGood

Recorded(query, acc, terms) == FoldLeft(LAMBDA a, t : Record(a, t, query), acc, terms)

\* The terms of one marker are recorded or dropped, one by one.
LEMMA RecordedLists ==
  ASSUME NEW query, NEW acc, RecordGood(query, 0, acc), NEW terms, IsList(terms)
  PROVE  RecordGood(query, 0, Recorded(query, acc, terms))
<1>1. Len(terms) \in Nat /\ DOMAIN terms = 1..Len(terms)
  BY ListFacts
<1>2. ASSUME NEW a, RecordGood(query, 0, a), NEW t
      PROVE  RecordGood(query, 0, Record(a, t, query))
  <2> DEFINE more == Append(a.terms, t)
             less == Append1(a.dropped, t)
  <2>1. IsList(more) /\ IsList(less)
    BY <1>2, AppendList, Append1List DEF RecordGood
  <2>2. Record(a, t, query) \in {a, [a EXCEPT !.terms = more], [a EXCEPT !.dropped = less]}
    BY DEF Record
  <2> HIDE DEF more, less
  <2> QED BY <1>2, <2>1, <2>2 DEF RecordGood
<1>3. ASSUME NEW i \in 0..(Len(terms) - 1), NEW a, RecordGood(query, i, a)
      PROVE  RecordGood(query, i + 1, RecordStep(query, a, terms[i + 1]))
  BY <1>2, <1>3 DEF RecordGood, RecordStep
<1>4. RecordGood(query, Len(terms), RecordFold!Fold(query, acc, terms))
  BY <1>1, <1>3, RecordFold!FoldKeeps
<1>5. Recorded(query, acc, terms) = RecordFold!Fold(query, acc, terms)
  BY DEF Recorded, RecordStep, RecordFold!Fold, RecordFold!MapThenFoldSet, FoldLeft,
     MapThenFoldSet, Max, RecordFold!Max
<1> QED
  BY <1>4, <1>5 DEF RecordGood

ScanningStep(p, acc, w) == IF acc.at > Len(p) THEN acc ELSE ScanStep(acc, p)
ScanningGood(p, n, acc) == RecordGood(p, 0, acc) /\ acc.at \in Nat
ScanningFold == INSTANCE FoldFacts WITH Step <- ScanningStep, Good <- ScanningGood

\* One step of the scan through the query.
LEMMA ScanStepLists ==
  ASSUME NEW query, IsList(query), NEW acc, ScanningGood(query, 0, acc)
  PROVE  ScanningGood(query, 0, ScanStep(acc, query))
<1> DEFINE j == Target(query, acc.at)
           found1 == Compounds(query, j)
           terms == Append(found1.done, found1.run)
           recorded == Recorded(query, acc, terms)
           after == j + Len(found1.run)
           next == acc.at + 1
<1>1. j \in Nat
  BY TargetNat DEF ScanningGood
<1>2. IsList(found1.run) /\ IsList(found1.done)
  <2> HIDE DEF j
  <2> QED BY <1>1, CompoundsLists
<1>3. RecordGood(query, 0, recorded)
  <2>1. IsList(terms)
    <3> HIDE DEF found1
    <3> QED BY <1>2, AppendList
  <2>2. RecordGood(query, 0, acc)
    BY DEF ScanningGood
  <2> HIDE DEF terms
  <2>3. RecordGood(query, 0, Recorded(query, acc, terms))
    BY <2>1, <2>2, RecordedLists
  <2> QED BY <2>3
<1>4. after \in Nat
  <2>1. Len(found1.run) \in Nat
    <3> HIDE DEF found1
    <3> QED BY <1>2, ListFacts
  <2> HIDE DEF found1, j
  <2> QED BY <1>1, <2>1
<1>5. next \in Nat
  BY DEF ScanningGood
<1>6. ScanStep(acc, query) \in {[acc EXCEPT !.at = next], [acc EXCEPT !.at = j], [recorded EXCEPT !.at = after]}
  BY DEF ScanStep, Recorded
<1> HIDE DEF j, recorded, after, next
<1> QED
  BY <1>1, <1>3, <1>4, <1>5, <1>6 DEF ScanningGood, RecordGood

\* The exclusions read from the markers of a query.
LEMMA QueryNegativesLists ==
  ASSUME NEW query, IsList(query)
  PROVE  IsList(QueryNegatives(query).terms) /\ IsList(QueryNegatives(query).dropped)
<1> DEFINE n == Len(query)
           b == [at |-> 1, terms |-> <<>>, dropped |-> <<>>]
<1>1. n \in Nat /\ DOMAIN query = 1..n
  BY ListFacts
<1>2. ScanningGood(query, 0, b)
  BY EmptyList DEF ScanningGood, RecordGood
<1>3. ASSUME NEW i \in 0..(n - 1), NEW acc, ScanningGood(query, i, acc)
      PROVE  ScanningGood(query, i + 1, ScanningStep(query, acc, query[i + 1]))
  <2>1. ScanningGood(query, 0, acc)
    BY <1>3 DEF ScanningGood
  <2>2. ScanningGood(query, 0, ScanningStep(query, acc, query[i + 1]))
    BY <2>1, ScanStepLists DEF ScanningStep
  <2> QED BY <2>2 DEF ScanningGood
<1>4. QueryNegatives(query) = ScanningFold!Fold(query, b, query)
  BY DEF QueryNegatives, ScanningStep, ScanningFold!Fold, ScanningFold!MapThenFoldSet,
     FoldLeft, MapThenFoldSet, Max, ScanningFold!Max
<1>5. ScanningGood(query, n, ScanningFold!Fold(query, b, query))
  <2> HIDE DEF n, b
  <2> QED BY <1>1, <1>2, <1>3, ScanningFold!FoldKeeps
<1> QED
  BY <1>4, <1>5 DEF ScanningGood, RecordGood

EntityStep(p, acc, w) ==
  IF acc.over \/ Len(acc.run) = 5 \/ Is("digits", w) THEN [acc EXCEPT !.over = TRUE]
  ELSE IF acc.run # <<>> /\ w \in {"and", "or"} THEN [acc EXCEPT !.found = Append(@, acc.run), !.run = <<>>]
  ELSE IF Is("nlStop", w) THEN [acc EXCEPT !.over = TRUE]
  ELSE [acc EXCEPT !.run = Append(@, w)]
EntityGood(p, n, acc) == {"run", "found", "over"} \subseteq DOMAIN acc /\ IsList(acc.found)
EntityFold == INSTANCE FoldFacts WITH Step <- EntityStep, Good <- EntityGood

\* What a directive names, up to five words each.
LEMMA EntitiesList ==
  ASSUME NEW query, IsList(query), NEW from \in Nat
  PROVE  IsList(Entities(query, from))
<1> DEFINE T == {Len(query) + 1} \cup {k \in from..Len(query) : ~Is("nlStop", query[k])}
           start == Min(T)
           rest == SubSeq(query, start, Len(query))
           b == [run |-> <<>>, found |-> <<>>, over |-> FALSE]
           end == EntityFold!Fold({}, b, rest)
<1>1. start \in Nat
  <2>1. T \in SUBSET Nat /\ T # {}
    <3>1. Len(query) \in Nat
      BY ListFacts
    <3> QED BY <3>1
  <2> HIDE DEF T
  <2>2. Min(T) \in T
    BY <2>1, LowestOf
  <2> QED BY <2>1, <2>2
<1>2. PICK m \in Nat : DOMAIN rest = 1..m
  <2> HIDE DEF start
  <2> QED BY <1>1, RestDomain
<1>3. EntityGood({}, 0, b)
  BY EmptyList DEF EntityGood
<1>4. ASSUME NEW i \in 0..(m - 1), NEW acc, EntityGood({}, i, acc)
      PROVE  EntityGood({}, i + 1, EntityStep({}, acc, rest[i + 1]))
  <2> DEFINE w == rest[i + 1]
             more == Append(acc.found, acc.run)
             run == Append(acc.run, w)
  <2>1. IsList(more)
    BY <1>4, AppendList DEF EntityGood
  <2> HIDE DEF w
  <2>2. EntityStep({}, acc, w) \in
          {[acc EXCEPT !.over = TRUE], [acc EXCEPT !.found = more, !.run = <<>>], [acc EXCEPT !.run = run]}
    BY DEF EntityStep
  <2>3. EntityGood({}, i + 1, EntityStep({}, acc, w))
    <3> HIDE DEF more, run
    <3> QED BY <1>4, <2>1, <2>2 DEF EntityGood
  <2> QED BY <2>3 DEF w
<1>5. EntityGood({}, m, end)
  <2> HIDE DEF b, rest
  <2> QED BY <1>2, <1>3, <1>4, EntityFold!FoldKeeps
<1>6. Entities(query, from) = IF end.run = <<>> THEN end.found ELSE Append(end.found, end.run)
  BY DEF Entities, EntityStep, EntityFold!Fold, EntityFold!MapThenFoldSet,
     FoldLeft, MapThenFoldSet, Max, EntityFold!Max
<1> HIDE DEF end
<1> QED
  BY <1>5, <1>6, AppendList DEF EntityGood

\* p: the query and the lead
LeadStep(p, acc, i) == IF At(p[1], i, p[2]) THEN acc \o Entities(p[1], i + Len(p[2])) ELSE acc
LeadGood(p, n, acc) == IsList(acc)
LeadFold == INSTANCE FoldFacts WITH Step <- LeadStep, Good <- LeadGood

\* p: the query
DirectiveOf(query, lead) ==
  FoldLeft(LAMBDA acc, i : IF At(query, i, lead) THEN acc \o Entities(query, i + Len(lead)) ELSE acc,
           <<>>, [i \in DOMAIN query |-> i])
DirectiveStep(p, acc, lead) == FoldLeft(Append1, acc, DirectiveOf(p, lead))
DirectiveGood(p, n, acc) == IsList(acc)
DirectiveFold == INSTANCE FoldFacts WITH Step <- DirectiveStep, Good <- DirectiveGood

\* All that one kind of directive names in a query.
LEMMA DirectiveOfList ==
  ASSUME NEW query, IsList(query), NEW lead, Len(lead) \in Nat
  PROVE  IsList(DirectiveOf(query, lead))
<1> DEFINE n == Len(query)
           p == <<query, lead>>
           at == [i \in DOMAIN query |-> i]
<1>1. n \in Nat /\ DOMAIN at = 1..n /\ \A i \in 1..n : at[i] = i
  BY ListFacts
<1>2. LeadGood(p, 0, <<>>)
  BY EmptyList DEF LeadGood
<1>3. ASSUME NEW i \in 0..(n - 1), NEW acc, LeadGood(p, i, acc)
      PROVE  LeadGood(p, i + 1, LeadStep(p, acc, at[i + 1]))
  <2>1. at[i + 1] = i + 1 /\ i + 1 + Len(lead) \in Nat
    BY <1>1
  <2>2. IsList(Entities(query, i + 1 + Len(lead)))
    BY <2>1, EntitiesList
  <2>3. IsList(acc \o Entities(query, i + 1 + Len(lead)))
    BY <1>3, <2>2, ConcatList DEF LeadGood
  <2>4. LeadStep(p, acc, at[i + 1]) \in {acc, acc \o Entities(query, i + 1 + Len(lead))}
    BY <2>1 DEF LeadStep
  <2> QED BY <1>3, <2>3, <2>4 DEF LeadGood
<1>4. DirectiveOf(query, lead) = LeadFold!Fold(p, <<>>, at)
  BY DEF DirectiveOf, LeadStep, LeadFold!Fold, LeadFold!MapThenFoldSet,
     FoldLeft, MapThenFoldSet, Max, LeadFold!Max
<1>5. LeadGood(p, n, LeadFold!Fold(p, <<>>, at))
  <2> HIDE DEF n, p, at
  <2> QED BY <1>1, <1>2, <1>3, LeadFold!FoldKeeps
<1> QED
  BY <1>4, <1>5 DEF LeadGood

\* All that the directives of a query name.
LEMMA ExplicitList ==
  ASSUME NEW query, IsList(query)
  PROVE  IsList(ExplicitNegatives(query))
<1>1. DOMAIN Leads = 1..10 /\ \A i \in 1..10 : Len(Leads[i]) \in Nat
  BY DEF Leads
<1>2. DirectiveGood(query, 0, <<>>)
  BY EmptyList DEF DirectiveGood
<1>3. ASSUME NEW i \in 0..(10 - 1), NEW acc, DirectiveGood(query, i, acc)
      PROVE  DirectiveGood(query, i + 1, DirectiveStep(query, acc, Leads[i + 1]))
  <2>1. Len(Leads[i + 1]) \in Nat
    BY <1>1
  <2>2. IsList(DirectiveOf(query, Leads[i + 1]))
    BY <2>1, DirectiveOfList
  <2> QED BY <1>3, <2>2, AppendAll DEF DirectiveGood, DirectiveStep
<1>4. ExplicitNegatives(query) = DirectiveFold!Fold(query, <<>>, Leads)
  BY DEF ExplicitNegatives, DirectiveOf, DirectiveStep, DirectiveFold!Fold,
     DirectiveFold!MapThenFoldSet, FoldLeft, MapThenFoldSet, Max, DirectiveFold!Max
<1>5. DirectiveGood(query, 10, DirectiveFold!Fold(query, <<>>, Leads))
  BY <1>1, <1>2, <1>3, DirectiveFold!FoldKeeps
<1> QED
  BY <1>4, <1>5 DEF DirectiveGood

\* A finite set listed in some order.
LEMMA SetList ==
  ASSUME NEW S, IsFiniteSet(S)
  PROVE  IsList(SetToSeq(S))
<1>1. Cardinality(S) \in Nat /\ \E f \in Bijection(1..Cardinality(S), S) : TRUE
  BY FS_CardinalityType, FS_CountingElements, FS_NatBijection DEF ExistsBijection
<1>2. \E f \in [1..Cardinality(S) -> S] : IsInjective(f)
  BY <1>1 DEF Bijection, Injection
<1>3. SetToSeq(S) \in [1..Cardinality(S) -> S]
  BY <1>2 DEF SetToSeq
<1> QED
  BY <1>1, <1>3, ListOf

\* The exclusions before they are sorted.
LEMMA RawList ==
  ASSUME NEW query, IsList(query), NEW b, IsReading(b)
  PROVE  IsList(RawNegatives(query, b))
<1> DEFINE E == EngineExclusions(query, b.entities)
           all == QueryNegatives(query).terms \o ExplicitNegatives(query) \o SetToSeq(E)
<1>1. IsFiniteSet(E)
  <2> DEFINE F == {f \in b.entities : /\ f.role = "exclusion" /\ ~GrammarNoise(f.text) /\ ~Subjective(f.text)
                                      /\ ~MannerFrame(query, f.text) /\ ~VerbAttribute(f.text)
                                      /\ RealExclusion(f.text, query)}
             text == [e \in F |-> e.text]
  <2>1. IsFiniteSet(F)
    <3>1. F \subseteq b.entities /\ IsFiniteSet(b.entities)
      BY DEF IsReading
    <3> HIDE DEF F
    <3> QED BY <3>1, FS_Subset
  <2>2. E = {e.text : e \in F}
    BY DEF EngineExclusions
  <2> HIDE DEF F, E
  <2>3. text \in Surjection(F, E)
    BY <2>2 DEF Surjection
  <2> HIDE DEF text
  <2> QED BY <2>1, <2>3, FS_Surjection
<1>2. IsList(SetToSeq(E))
  <2> HIDE DEF E
  <2> QED BY <1>1, SetList
<1>3. IsList(all)
  <2> DEFINE engine == SetToSeq(E)
  <2> HIDE DEF engine
  <2>1. IsList(QueryNegatives(query).terms \o ExplicitNegatives(query))
    BY QueryNegativesLists, ExplicitList, ConcatList
  <2>2. IsList((QueryNegatives(query).terms \o ExplicitNegatives(query)) \o engine)
    BY <1>2, <2>1, ConcatList DEF engine
  <2> QED BY <2>2 DEF engine
<1>4. RawNegatives(query, b) = FoldLeft(Append1, b.negative, all)
  BY DEF RawNegatives
<1> HIDE DEF all
<1> QED
  BY <1>3, <1>4, AppendAll DEF IsReading

BoundsOf(b) == <<b.min, b.max, b.lt, b.gt, b.currency>>

\* The gate leaves the bounds alone.
LEMMA GateReads ==
  ASSUME NEW query, IsList(query), NEW b, IsReading(b)
  PROVE  LET g == TrimPositives(query, Gate(query, b)) IN IsReading(g) /\ BoundsOf(g) = BoundsOf(b)
<1> DEFINE explicit == ToSet(ExplicitNegatives(query))
           raw == RawNegatives(query, b)
           hard == Keep(raw, LAMBDA u : u \notin explicit /\ RealExclusion(u, query))
           directives == Keep(raw, LAMBDA u : u \in explicit /\ ~MannerFrame(query, u))
           negative == hard \o directives
           sorted == Sorted(query, b, raw, explicit)
           g == TrimPositives(query, Gate(query, b))
<1>1. IsList(raw)
  BY RawList
<1>2. IsList(hard) /\ IsList(directives)
  <2> HIDE DEF raw, explicit
  <2> QED BY <1>1, ThoseFacts DEF Keep
<1>3. IsList(negative)
  <2> HIDE DEF hard, directives
  <2> QED BY <1>2, ConcatList
<1>4. \E soft : sorted = [b EXCEPT !.negative = negative, !.soft = soft]
  BY DEF Sorted
<1>5. \E v : Gate(query, b) = [sorted EXCEPT !.positive = v]
  BY DEF Gate, Wanted
<1>6. g = Gate(query, b) \/ \E v : g = [Gate(query, b) EXCEPT !.positive = v]
  BY DEF TrimPositives
<1> HIDE DEF negative, sorted, g, explicit
<1>7. DOMAIN g = DOMAIN b /\ g.negative = negative /\ g.entities = b.entities /\ BoundsOf(g) = BoundsOf(b)
  <2>1. /\ DOMAIN sorted = DOMAIN b /\ sorted.negative = negative /\ sorted.entities = b.entities
        /\ BoundsOf(sorted) = BoundsOf(b)
    BY <1>4, FieldsAre DEF IsReading, BoundsOf
  <2>2. /\ DOMAIN Gate(query, b) = DOMAIN sorted /\ Gate(query, b).negative = sorted.negative
        /\ Gate(query, b).entities = sorted.entities /\ BoundsOf(Gate(query, b)) = BoundsOf(sorted)
    BY <1>5 DEF BoundsOf
  <2>3. /\ DOMAIN g = DOMAIN Gate(query, b) /\ g.negative = Gate(query, b).negative
        /\ g.entities = Gate(query, b).entities /\ BoundsOf(g) = BoundsOf(Gate(query, b))
    BY <1>6, <2>1, <2>2, FieldsAre DEF IsReading, BoundsOf
  <2> QED BY <2>1, <2>2, <2>3
<1>8. IsReading(g)
  BY <1>3, <1>7 DEF IsReading
<1> QED
  BY <1>7, <1>8 DEF g

NoBounds == <<NoPrice, NoPrice, NoPrice, NoPrice>>

\* Opening the gates keeps the price bounds, or takes all of them back when no
\* page has a price.
LEMMA FailOpenReads ==
  ASSUME NEW b, IsReading(b), NEW list
  PROVE  LET o == PriceFailOpen(list, DateFailOpen(list, b)) IN
         /\ IsReading(o)
         /\ \/ BoundsOf(o) = BoundsOf(b)
            \/ ~Priced(list) /\ <<o.min, o.max, o.lt, o.gt>> = NoBounds
<1> DEFINE d == DateFailOpen(list, b)
           o == PriceFailOpen(list, d)
<1>1. IsReading(d) /\ BoundsOf(d) = BoundsOf(b)
  <2>1. d \in {b, [b EXCEPT !.after = NoDate, !.before = NoDate]}
    BY DEF DateFailOpen
  <2> HIDE DEF d
  <2> QED BY <2>1, FieldsAre DEF IsReading, BoundsOf
<1>2. \/ o = d
      \/ ~Priced(list) /\ o = [d EXCEPT !.min = NoPrice, !.max = NoPrice, !.lt = NoPrice, !.gt = NoPrice]
  BY DEF PriceFailOpen
<1> HIDE DEF d, o
<1>3. CASE o = d
  BY <1>1, <1>3 DEF o, d
<1>4. CASE ~Priced(list) /\ o = [d EXCEPT !.min = NoPrice, !.max = NoPrice, !.lt = NoPrice, !.gt = NoPrice]
  <2>1. IsReading(o) /\ o.min = NoPrice /\ o.max = NoPrice /\ o.lt = NoPrice /\ o.gt = NoPrice
    BY <1>1, <1>4, FieldsAre DEF IsReading
  <2> QED BY <1>4, <2>1 DEF NoBounds, o, d
<1> QED BY <1>2, <1>3, <1>4

-------------------------------------------------------------------------------
(* The inductive invariant.                                                *)

AfterOpening ==
  {"negative", "filter", "narrow", "gate", "merge", "exclude", "nudge", "final", "polish", "report", "done"}
AfterSorting == {"merge", "exclude", "nudge", "final", "polish", "report", "done"}

\* What is found and answered are lists of pages.
Shelves ==
  DOMAIN found = {"local", "web", "rrf"} /\ IsShelf(found.local) /\ IsShelf(found.web) /\ IsShelf(answer)

\* Since the gates were opened the bounds are those asked for, or none when no
\* page has a price.
BoundsOpened ==
  stage \in AfterOpening =>
    \/ BoundsOf(c) = BoundsOf(asked.c)
    \/ ~asked.priced /\ <<c.min, c.max, c.lt, c.gt>> = NoBounds

\* Since the last filter no text tells a price beyond the bounds but those of
\* relatives, or with an exclusion no page meets the constraints.
AnswerInBound ==
  stage \in {"polish", "report", "done"} =>
    Bounded(answer, c)

\* Since the exclusions were applied no page names one, or all pages do.
AnswerNames == stage \in {"nudge", "final", "polish", "report", "done"} => NamesAllOrNone(answer, c)

AnswerUnderCap == stage \in {"report", "done"} => UnderCap(answer)

\* What is reported is what is left of the bounds, filled in from those asked for.
ReportRestores == stage = "done" => report.c = Restore(c, asked.c)

SearchInv ==
  /\ request \in Requests
  /\ Shelves
  /\ IsIntent(reading)
  /\ BoundsOpened
  /\ AnswerInBound
  /\ AnswerNames
  /\ AnswerUnderCap
  /\ ReportRestores
  /\ IsReading(asked.c)

\* The sources return lists of pages.
LEMMA SourcesShelf ==
  ASSUME request \in Requests
  PROVE  /\ IsList(q)
         /\ \A list \in {request.pool.local, request.pool.vector, request.pool.retry, request.pool.expanded,
                         request.pool.media} : IsShelf(list)
         /\ IsList(request.pool.web) /\ \A i \in DOMAIN request.pool.web : IsShelf(request.pool.web[i])
         /\ {"intent", "conf", "dist", "c"} \subseteq DOMAIN request.engine /\ IsSound(request.engine.c)
BY RequestsAssumption DEF q, IsSound, IsReading, Fields

LEMMA InitSearch == Init => SearchInv
<1> SUFFICES ASSUME Init PROVE SearchInv
  OBVIOUS
<1>1. request \in Requests /\ stage = "intent"
  BY DEF Init
<1>2. Shelves
  BY EmptyShelf DEF Init, Shelves
<1>3. IsIntent(reading)
  <2>1. reading = NoReading
    BY DEF Init
  <2>2. NoConstraints.negative = <<>> /\ NoConstraints.entities = {}
    BY DEF NoConstraints
  <2>3. IsReading(NoConstraints)
    BY <2>2, EmptyList, FS_EmptySet DEF IsReading, Fields
  <2> QED BY <2>1, <2>3 DEF IsIntent, NoReading
<1>4. IsReading(asked.c)
  <2>1. asked.c = NoReading.c
    BY DEF Init, NoReading
  <2>2. reading = NoReading
    BY DEF Init
  <2> QED BY <1>3, <2>1, <2>2 DEF IsIntent
<1> QED
  BY <1>1, <1>2, <1>3, <1>4 DEF SearchInv, BoundsOpened, AnswerInBound, AnswerNames, AnswerUnderCap,
     ReportRestores, AfterOpening, AfterSorting

\* A step that only changes what is found, before the exclusions are sorted.
LEMMA FoundStep ==
  ASSUME SearchInv, UNCHANGED <<request, reading, asked, answer>>,
         (DOMAIN found)' = {"local", "web", "rrf"}, IsShelf(found'.local), IsShelf(found'.web),
         stage' \in AfterOpening => stage \in AfterOpening, stage' \notin AfterSorting
  PROVE  SearchInv'
<1>1. Shelves' /\ IsIntent(reading)' /\ (request \in Requests)'
  BY DEF SearchInv, Shelves
<1>2. BoundsOpened'
  BY DEF SearchInv, BoundsOpened, c
<1>3. AnswerInBound' /\ AnswerNames' /\ AnswerUnderCap' /\ ReportRestores'
  BY DEF AnswerInBound, AnswerNames, AnswerUnderCap, ReportRestores, AfterSorting
<1>4. IsReading(asked.c)'
  BY DEF SearchInv
<1> QED
  BY <1>1, <1>2, <1>3, <1>4 DEF SearchInv

\* A step that only changes the answer, after the exclusions were sorted.
LEMMA AnswerStep ==
  ASSUME SearchInv, UNCHANGED <<request, reading, asked, found>>, IsShelf(answer'),
         stage \in AfterSorting, AnswerInBound', AnswerNames', AnswerUnderCap', ReportRestores'
  PROVE  SearchInv'
<1>1. Shelves' /\ IsIntent(reading)' /\ (request \in Requests)'
  BY DEF SearchInv, Shelves
<1>2. stage \in AfterOpening
  BY DEF AfterOpening, AfterSorting
<1>3. BoundsOpened'
  BY <1>2 DEF SearchInv, BoundsOpened, c
<1>4. IsReading(asked.c)'
  BY DEF SearchInv
<1> QED
  BY <1>1, <1>3, <1>4 DEF SearchInv

LEMMA IntentStep == SearchInv /\ AskIntent => SearchInv'
<1> SUFFICES ASSUME SearchInv, AskIntent PROVE SearchInv'
  OBVIOUS
<1>1. stage = "intent" /\ UNCHANGED <<request, found, asked, answer>>
  BY DEF AskIntent
<1>2. IsIntent(Understand(request.engine))
  BY SourcesShelf, UnderstandReads DEF SearchInv
<1>3. IsIntent(Understand(FallbackIntent(q, request.quotes)))
  <2> DEFINE r == FallbackIntent(q, request.quotes)
  <2>1. {"intent", "conf", "dist", "c"} \subseteq DOMAIN r /\ IsSound(r.c)
    BY SourcesShelf, FallbackSound DEF SearchInv
  <2> HIDE DEF r
  <2>2. IsIntent(Understand(r))
    BY <2>1, UnderstandReads
  <2> QED BY <2>2 DEF r
<1>4. IsIntent(reading') /\ stage' \in {"intent", "gather"}
  BY <1>1, <1>2, <1>3 DEF AskIntent, ReadAs, SearchInv
<1> QED
  BY <1>1, <1>4 DEF SearchInv, Shelves, BoundsOpened, AnswerInBound, AnswerNames, AnswerUnderCap,
     ReportRestores, AfterOpening, AfterSorting

LEMMA GatherStep == SearchInv /\ GatherAnswers => SearchInv'
<1> SUFFICES ASSUME SearchInv, GatherAnswers PROVE SearchInv'
  OBVIOUS
<1>1. stage' = "vector" /\ UNCHANGED <<request, reading, asked, answer>>
  BY DEF GatherAnswers, Goto
<1> DEFINE lists(up) == [i \in DOMAIN request.pool.web |-> IF i \in up THEN request.pool.web[i] ELSE <<>>]
           add(acc, batch) == Gather(acc, batch, 100)
           g(up) == FoldLeft(add, [web |-> <<>>, rrf |-> <<>>], lists(up))
<1>2. PICK up \in SUBSET DOMAIN request.pool.web, local \in {<<>>, request.pool.local} :
        found' = [local |-> local, web |-> g(up).web, rrf |-> g(up).rrf]
  BY DEF GatherAnswers
<1>3. IsShelf(g(up).web)
  <2> DEFINE s == lists(up)
             n == Len(request.pool.web)
  <2>1. n \in Nat /\ DOMAIN request.pool.web = 1..n /\ \A i \in 1..n : IsShelf(request.pool.web[i])
    BY SourcesShelf, ListFacts DEF SearchInv
  <2>2. DOMAIN s = 1..n /\ \A i \in 1..n : IsShelf(s[i])
    BY <2>1, EmptyShelf
  <2> HIDE DEF s, n
  <2>3. IsShelf(FoldLeft(add, [web |-> <<>>, rrf |-> <<>>], s).web)
    BY <2>1, <2>2, AnswersShelf
  <2> QED BY <2>3 DEF s
<1>4. IsShelf(local)
  BY SourcesShelf, EmptyShelf DEF SearchInv
<1> HIDE DEF g
<1>5. (DOMAIN found)' = {"local", "web", "rrf"} /\ IsShelf(found'.local) /\ IsShelf(found'.web)
  BY <1>2, <1>3, <1>4
<1> QED
  BY <1>1, <1>5, FoundStep DEF AfterOpening, AfterSorting

LEMMA MeaningStep == SearchInv /\ AskByMeaning => SearchInv'
<1> SUFFICES ASSUME SearchInv, AskByMeaning PROVE SearchInv'
  OBVIOUS
<1>1. stage' = "retry" /\ UNCHANGED <<request, reading, asked, answer>>
  BY DEF AskByMeaning, Goto
<1>2. ASSUME NEW local \in AnyOrder(FuseVector(found.local, request.pool.vector))
      PROVE  IsShelf(local)
  <2>1. IsShelf(FuseVector(found.local, request.pool.vector))
    BY SourcesShelf, FuseShelf DEF SearchInv, Shelves
  <2> QED BY <1>2, <2>1, AnyOrderShelf
<1>3. (DOMAIN found)' = {"local", "web", "rrf"} /\ IsShelf(found'.local) /\ IsShelf(found'.web)
  BY <1>2 DEF AskByMeaning, SearchInv, Shelves
<1> QED
  BY <1>1, <1>3, FoundStep DEF AfterOpening, AfterSorting

LEMMA AgainStep == SearchInv /\ AskAgain => SearchInv'
<1> SUFFICES ASSUME SearchInv, AskAgain PROVE SearchInv'
  OBVIOUS
<1>1. stage' = "relax" /\ UNCHANGED <<request, reading, asked, answer>>
  BY DEF AskAgain, Goto
<1> DEFINE b == [web |-> found.web, rrf |-> found.rrf]
           g == GatherNew(b, request.pool.retry, 100)
<1>2. IsShelf(g.web)
  <2>1. IsShelf(b.web) /\ IsShelf(request.pool.retry)
    BY SourcesShelf DEF SearchInv, Shelves
  <2> HIDE DEF b
  <2> QED BY <2>1, GatherNewShelf
<1>3. UNCHANGED found \/ found' = [found EXCEPT !.web = g.web, !.rrf = g.rrf]
  BY DEF AskAgain
<1> HIDE DEF g
<1>4. (DOMAIN found)' = {"local", "web", "rrf"} /\ IsShelf(found'.local) /\ IsShelf(found'.web)
  BY <1>2, <1>3 DEF SearchInv, Shelves
<1> QED
  BY <1>1, <1>4, FoundStep DEF AfterOpening, AfterSorting

LEMMA RelaxedStep == SearchInv /\ AskRelaxed => SearchInv'
<1> SUFFICES ASSUME SearchInv, AskRelaxed PROVE SearchInv'
  OBVIOUS
<1>1. stage' = "media" /\ UNCHANGED <<request, reading, asked, answer>>
  BY DEF AskRelaxed, Goto
<1> DEFINE more == found.web \o request.pool.expanded
           local == AddLocal(found.local, request.pool.vector)
<1>2. IsShelf(more) /\ IsShelf(local)
  BY SourcesShelf, ConcatShelf, AddLocalShelf DEF SearchInv, Shelves
<1>3. UNCHANGED found \/ found' = [found EXCEPT !.web = more, !.local = local]
  BY DEF AskRelaxed
<1> HIDE DEF more, local
<1>4. (DOMAIN found)' = {"local", "web", "rrf"} /\ IsShelf(found'.local) /\ IsShelf(found'.web)
  BY <1>2, <1>3 DEF SearchInv, Shelves
<1> QED
  BY <1>1, <1>4, FoundStep DEF AfterOpening, AfterSorting

LEMMA MediaStep == SearchInv /\ GatherMedia => SearchInv'
<1> SUFFICES ASSUME SearchInv, GatherMedia PROVE SearchInv'
  OBVIOUS
<1>1. stage' = "dedup" /\ UNCHANGED <<request, reading, asked, answer>>
  BY DEF GatherMedia, Goto
<1> DEFINE b == [web |-> found.web, rrf |-> found.rrf]
           g(media) == Gather(b, media, 100)
<1>2. PICK media \in {<<>>, request.pool.media} : found' = [found EXCEPT !.web = g(media).web, !.rrf = g(media).rrf]
  BY DEF GatherMedia
<1>3. IsShelf(g(media).web)
  <2>1. IsShelf(b.web) /\ IsShelf(media)
    BY SourcesShelf, EmptyShelf DEF SearchInv, Shelves
  <2> HIDE DEF b
  <2> QED BY <2>1, GatherShelf
<1> HIDE DEF g
<1>4. (DOMAIN found)' = {"local", "web", "rrf"} /\ IsShelf(found'.local) /\ IsShelf(found'.web)
  BY <1>2, <1>3 DEF SearchInv, Shelves
<1> QED
  BY <1>1, <1>4, FoundStep DEF AfterOpening, AfterSorting

LEMMA GateSteps ==
  SearchInv /\ (Deduplicate \/ KeepRelevant \/ DemoteExcluded \/ KeepConforming \/ NarrowToPrice) => SearchInv'
<1> SUFFICES ASSUME SearchInv, Deduplicate \/ KeepRelevant \/ DemoteExcluded \/ KeepConforming \/ NarrowToPrice
             PROVE  SearchInv'
  OBVIOUS
<1>1. /\ UNCHANGED <<request, reading, asked, answer>> /\ stage' \notin AfterSorting
      /\ stage' \in AfterOpening => stage \in AfterOpening
  BY DEF Deduplicate, KeepRelevant, DemoteExcluded, KeepConforming, NarrowToPrice, Goto, AfterOpening, AfterSorting
<1>2. DOMAIN found = {"local", "web", "rrf"} /\ IsShelf(found.local) /\ IsShelf(found.web)
  BY DEF SearchInv, Shelves
<1>3. ASSUME NEW list, IsShelf(list), Web(list) PROVE SearchInv'
  <2>1. (DOMAIN found)' = {"local", "web", "rrf"} /\ IsShelf(found'.local) /\ IsShelf(found'.web)
    BY <1>2, <1>3 DEF Web
  <2> QED BY <1>1, <2>1, FoundStep
<1>4. CASE Deduplicate
  <2> DEFINE b == [web |-> found.web, rrf |-> found.rrf]
  <2>1. IsShelf(DedupWeb(b))
    <3>1. IsShelf(b.web)
      BY <1>2
    <3> HIDE DEF b
    <3> QED BY <3>1, DedupShelf
  <2>2. IsShelf(NormaliseRank(DedupWeb(b), found.rrf))
    <3> HIDE DEF b
    <3> QED BY <2>1, RankShelf
  <2>3. Web(NormaliseRank(DedupWeb(b), found.rrf))
    BY <1>4 DEF Deduplicate
  <2> HIDE DEF b
  <2> QED BY <1>3, <2>2, <2>3
<1>5. CASE KeepRelevant
  <2> DEFINE t == IF found.web = <<>> THEN <<>> ELSE SemanticFilter(found.web, q, OnlyNegative(c))
  <2>1. IsShelf(t) /\ Web(t)
    BY <1>2, <1>5, SemanticShelf, EmptyShelf DEF KeepRelevant
  <2> HIDE DEF t
  <2> QED BY <1>3, <2>1
<1>6. CASE DemoteExcluded
  <2>1. IsShelf(NegativeFilter(found.web, c))
    BY <1>2, NegativeShelf DEF SearchInv, IsIntent, IsReading, c
  <2>2. IsShelf(Boosted(NegativeFilter(found.web, c), c))
    BY <2>1, BoostedShelf
  <2> QED BY <1>3, <1>6, <2>2 DEF DemoteExcluded
<1>7. CASE KeepConforming
  <2>1. IsShelf(PreFilter(found.web, c))
    BY <1>2, PreFilterShelf
  <2> QED BY <1>3, <1>7, <2>1 DEF KeepConforming
<1>8. CASE NarrowToPrice
  <2> DEFINE web == PriceNarrow(found.web, c, request.operator)
             local == LocalGate(found.local, q)
  <2>1. IsShelf(web) /\ IsShelf(local)
    BY <1>2, NarrowShelf, LocalGateShelf
  <2>2. found' = [found EXCEPT !.web = web, !.local = local]
    BY <1>8 DEF NarrowToPrice
  <2> HIDE DEF web, local
  <2>3. (DOMAIN found)' = {"local", "web", "rrf"} /\ IsShelf(found'.local) /\ IsShelf(found'.web)
    BY <1>2, <2>1, <2>2
  <2> QED BY <1>1, <2>3, FoundStep
<1> QED BY <1>4, <1>5, <1>6, <1>7, <1>8

\* Opening the gates keeps the bounds, or clears all four if nothing has a price.
LEMMA OpenStep == SearchInv /\ OpenGates => SearchInv'
<1> SUFFICES ASSUME SearchInv, OpenGates PROVE SearchInv'
  OBVIOUS
<1> DEFINE o == PriceFailOpen(found.web, DateFailOpen(found.web, c))
<1>1. stage' = "negative" /\ UNCHANGED <<request, found, answer>>
  BY DEF OpenGates, Goto
<1>2. IsReading(c)
  BY DEF SearchInv, IsIntent, c
<1>3. /\ IsReading(o)
      /\ \/ BoundsOf(o) = BoundsOf(c)
         \/ ~Priced(found.web) /\ <<o.min, o.max, o.lt, o.gt>> = NoBounds
  BY <1>2, FailOpenReads
<1>4. reading' = [reading EXCEPT !.c = o] /\ asked'.c = c /\ asked'.priced = Priced(found.web)
  BY DEF OpenGates
<1> HIDE DEF o
<1>5. IsIntent(reading)' /\ c' = o
  BY <1>3, <1>4 DEF SearchInv, IsIntent, c
<1>6. BoundsOpened'
  BY <1>3, <1>4, <1>5 DEF BoundsOpened
<1>7. IsReading(asked.c)'
  BY <1>2, <1>4
<1> QED
  BY <1>1, <1>5, <1>6, <1>7 DEF SearchInv, Shelves, AnswerInBound, AnswerNames, AnswerUnderCap, ReportRestores,
     AfterSorting

\* The exclusions are sorted; the bounds are not touched.
LEMMA SortStep == SearchInv /\ SortExclusions => SearchInv'
<1> SUFFICES ASSUME SearchInv, SortExclusions PROVE SearchInv'
  OBVIOUS
<1> DEFINE g == TrimPositives(q, Gate(q, c))
<1>1. stage = "gate" /\ stage' = "merge" /\ UNCHANGED <<request, asked, answer>>
  BY DEF SortExclusions, Goto
<1>2. IsReading(c) /\ IsList(q)
  BY SourcesShelf DEF SearchInv, IsIntent, c
<1>3. IsReading(g) /\ BoundsOf(g) = BoundsOf(c)
  BY <1>2, GateReads
<1>4. reading' = [reading EXCEPT !.c = g] /\ Web(DropOfficial(found.web, reading'.c))
  BY DEF SortExclusions, c
<1> HIDE DEF g
<1>5. IsIntent(reading)' /\ c' = g
  BY <1>3, <1>4 DEF SearchInv, IsIntent, c
<1>6. <<g.min, g.max, g.lt, g.gt>> = <<c.min, c.max, c.lt, c.gt>>
  BY <1>3 DEF BoundsOf
<1>7. BoundsOpened'
  BY <1>1, <1>3, <1>5, <1>6 DEF SearchInv, BoundsOpened, AfterOpening
<1>8. Shelves'
  <2>1. IsShelf(DropOfficial(found.web, reading'.c))
    BY OfficialShelf DEF SearchInv, Shelves
  <2> QED BY <1>1, <1>4, <2>1 DEF SearchInv, Shelves, Web
<1> QED
  BY <1>1, <1>5, <1>7, <1>8 DEF SearchInv, AnswerInBound, AnswerNames, AnswerUnderCap, ReportRestores

LEMMA MergeStepKeeps == SearchInv /\ Merge => SearchInv'
<1> SUFFICES ASSUME SearchInv, Merge PROVE SearchInv'
  OBVIOUS
<1>1. stage = "merge" /\ stage' \in {"exclude", "failed"} /\ UNCHANGED <<request, reading, asked, found>>
  BY DEF Merge
<1>2. ASSUME NEW x PROVE IsShelf(Ranked(found.local, found.web, x))
  BY RankedShelf DEF SearchInv, Shelves
<1>3. IsShelf(answer')
  BY <1>2 DEF Merge, SearchInv, Shelves
<1> QED
  BY <1>1, <1>3, AnswerStep DEF AfterSorting, AnswerInBound, AnswerNames, AnswerUnderCap, ReportRestores

\* The exclusions are applied.
LEMMA ExcludeStepKeeps == SearchInv /\ DropExcluded => SearchInv'
<1> SUFFICES ASSUME SearchInv, DropExcluded PROVE SearchInv'
  OBVIOUS
<1> DEFINE s == TitlePenalty(answer, c)
           t == HardNegative(s, c)
<1>1. stage = "exclude" /\ stage' = "nudge" /\ UNCHANGED <<request, reading, asked, found>>
  BY DEF DropExcluded, Goto
<1>2. IsShelf(s)
  BY PenaltyShelf DEF SearchInv, Shelves
<1>3. answer' = IF c.negative = <<>> THEN answer ELSE t
  BY DEF DropExcluded
<1> HIDE DEF s
<1>4. IsShelf(t) /\ NamesAllOrNone(t, c)
  BY <1>2, HardShelf
<1> HIDE DEF t
<1>5. IsShelf(answer')
  BY <1>3, <1>4 DEF SearchInv, Shelves
<1>6. NamesAllOrNone(answer', c)
  BY <1>3, <1>4 DEF NamesAllOrNone
<1>7. c' = c
  BY <1>1 DEF c
<1>8. AnswerNames'
  BY <1>6, <1>7 DEF AnswerNames
<1> QED
  BY <1>1, <1>5, <1>8, AnswerStep DEF AfterSorting, AnswerInBound, AnswerUnderCap, ReportRestores

LEMMA NudgeStep == SearchInv /\ NudgeClean => SearchInv'
<1> SUFFICES ASSUME SearchInv, NudgeClean PROVE SearchInv'
  OBVIOUS
<1>1. stage = "nudge" /\ stage' = "final" /\ UNCHANGED <<request, reading, asked, found>>
  BY DEF NudgeClean, Goto
<1>2. IsShelf(answer') /\ Rescored(answer, answer')
  BY NudgeShelf DEF NudgeClean, SearchInv, Shelves
<1>3. NamesAllOrNone(answer', c)
  BY <1>1, <1>2, RescoredKeeps DEF SearchInv, AnswerNames
<1>4. c' = c
  BY <1>1 DEF c
<1>5. AnswerNames'
  BY <1>3, <1>4 DEF AnswerNames
<1> QED
  BY <1>1, <1>2, <1>5, AnswerStep DEF AfterSorting, AnswerInBound, AnswerUnderCap, ReportRestores

\* The last filter of the bound is followed by a rescoring.
LEMMA ConstrainStep == SearchInv /\ ApplyConstraints => SearchInv'
<1> SUFFICES ASSUME SearchInv, ApplyConstraints PROVE SearchInv'
  OBVIOUS
<1> DEFINE s == FinalFilter(answer, c)
           t == BoostAndSort(s, c)
<1>1. stage = "final" /\ stage' = "polish" /\ UNCHANGED <<request, reading, asked, found>>
  BY DEF ApplyConstraints, Goto
<1>2. /\ IsShelf(s)
      /\ Bounded(s, c)
      /\ NamesAllOrNone(s, c)
  <2>1. NamesAllOrNone(answer, c)
    BY <1>1 DEF SearchInv, AnswerNames
  <2> QED BY <2>1, FinalShelf DEF SearchInv, Shelves
<1>3. answer' = t
  BY DEF ApplyConstraints
<1> HIDE DEF s
<1>4. IsShelf(t) /\ Rescored(s, t)
  BY <1>2, BoostAndSortShelf
<1> HIDE DEF t
<1>5. Bounded(t, c) /\ NamesAllOrNone(t, c)
  BY <1>2, <1>4, RescoredKeeps
<1>6. c' = c
  BY <1>1 DEF c
<1>7. AnswerInBound' /\ AnswerNames'
  BY <1>3, <1>5, <1>6 DEF AnswerInBound, AnswerNames
<1> QED
  BY <1>1, <1>3, <1>4, <1>7, AnswerStep DEF AfterSorting, AnswerUnderCap, ReportRestores

\* The clamp puts every page under its cap and no page is added.
LEMMA PolishStep == SearchInv /\ Polish => SearchInv'
<1> SUFFICES ASSUME SearchInv, Polish PROVE SearchInv'
  OBVIOUS
<1> DEFINE s == ClampUnderCap(answer)
           t == DropJunk(s)
<1>1. stage = "polish" /\ stage' = "report" /\ UNCHANGED <<request, reading, asked, found>>
  BY DEF Polish, Goto
<1>2. IsShelf(s) /\ Rescored(answer, s) /\ UnderCap(s)
  BY ClampShelf DEF SearchInv, Shelves
<1>3. answer' = t
  BY DEF Polish
<1> HIDE DEF s
<1>4. IsShelf(t) /\ ToSet(t) \subseteq ToSet(s)
  BY <1>2, JunkShelf
<1> HIDE DEF t
<1>5. UnderCap(t)
  BY <1>2, <1>4 DEF UnderCap
<1>6. Bounded(t, c) /\ NamesAllOrNone(t, c)
  <2>1. Bounded(answer, c) /\ NamesAllOrNone(answer, c)
    BY <1>1 DEF SearchInv, AnswerInBound, AnswerNames
  <2>2. Bounded(s, c) /\ NamesAllOrNone(s, c)
    BY <1>2, <2>1, RescoredKeeps
  <2> QED BY <1>4, <2>2, PartKeeps
<1>7. c' = c
  BY <1>1 DEF c
<1>8. AnswerInBound' /\ AnswerNames' /\ AnswerUnderCap'
  BY <1>3, <1>5, <1>6, <1>7 DEF AnswerInBound, AnswerNames, AnswerUnderCap
<1> QED
  BY <1>1, <1>3, <1>4, <1>8, AnswerStep DEF AfterSorting, ReportRestores

LEMMA ReportStep == SearchInv /\ Report => SearchInv'
<1> SUFFICES ASSUME SearchInv, Report PROVE SearchInv'
  OBVIOUS
<1>1. stage = "report" /\ stage' = "done" /\ UNCHANGED <<request, reading, asked, found, answer>>
  BY DEF Report, Goto
<1>2. report'.c = Restore(c, asked.c)
  BY DEF Report
<1>3. c' = c
  BY <1>1 DEF c
<1>4. ReportRestores'
  BY <1>1, <1>2, <1>3 DEF ReportRestores
<1>5. AnswerInBound' /\ AnswerNames' /\ AnswerUnderCap'
  BY <1>1, <1>3 DEF SearchInv, AnswerInBound, AnswerNames, AnswerUnderCap
<1>6. IsShelf(answer')
  BY <1>1 DEF SearchInv, Shelves
<1> QED
  BY <1>1, <1>4, <1>5, <1>6, AnswerStep DEF AfterSorting

LEMMA StepSearch == SearchInv /\ [Next]_vars => SearchInv'
<1>1. SearchInv /\ UNCHANGED vars => SearchInv'
  BY DEF vars, SearchInv, Shelves, BoundsOpened, AnswerInBound, AnswerNames, AnswerUnderCap, ReportRestores, c, q
<1>2. SearchInv /\ Finished => SearchInv'
  BY <1>1 DEF Finished
<1> QED
  BY <1>1, <1>2, IntentStep, GatherStep, MeaningStep, AgainStep, RelaxedStep, MediaStep, GateSteps, OpenStep, SortStep,
     MergeStepKeeps, ExcludeStepKeeps, NudgeStep, ConstrainStep, PolishStep, ReportStep
  DEF Next

\* The invariant of every search.
LEMMA SearchInvHolds == Spec => []SearchInv
BY InitSearch, StepSearch, PTL DEF Spec

-------------------------------------------------------------------------------
(* The theorems.                                                           *)

\* Of a query that asks for something and excludes something, the answer names no
\* excluded term in a title or an address, or does so in every page: neither the
\* nudge, the last filter nor its fail-open brings back a page the exclusions that
\* the gate has left took out.
THEOREM ExcludedOut == Spec => []ExcludedStayOut
<1>1. SearchInv => ExcludedStayOut
  <2> SUFFICES ASSUME SearchInv, stage = "done", c.positive # <<>>, c.negative # <<>>
               PROVE  \/ \A i \in DOMAIN answer : ~NamesExcluded(answer[i], c)
                      \/ \A i \in DOMAIN answer : NamesExcluded(answer[i], c)
    BY DEF ExcludedStayOut
  <2>1. NamesAllOrNone(answer, c)
    BY DEF SearchInv, AnswerNames
  <2>2. \A i \in DOMAIN answer : answer[i] \in ToSet(answer)
    BY DEF ToSet
  <2> QED BY <2>1, <2>2 DEF NamesAllOrNone
<1> QED
  BY <1>1, SearchInvHolds, PTL

\* A page that the merge capped is answered at its cap or below, whatever the
\* nudges, boosts and clamps after it add: clamp_under_cap is the last to score.
THEOREM CapsHeld == Spec => []CapsHold
<1>1. SearchInv => CapsHold
  <2> SUFFICES ASSUME SearchInv, stage \in {"report", "done"}, NEW i \in DOMAIN answer, answer[i].cap # NoCap
               PROVE  answer[i].score < answer[i].cap \/ answer[i].score = answer[i].cap
    BY DEF CapsHold
  <2>1. answer[i] \in ToSet(answer)
    BY ListFacts DEF SearchInv, Shelves, IsShelf
  <2> QED BY <2>1 DEF SearchInv, AnswerUnderCap, UnderCap
<1> QED
  BY <1>1, SearchInvHolds, PTL

\* When a result of the web has a price, no page whose text tells a price beyond the
\* bounds is answered, as dollars, though the price gate was open in between; but for
\* the relatives of a site asked for, and for a query with an exclusion of whose pages
\* not one meets its constraints.
THEOREM BoundHeld == Spec => []NothingBeyondTheBound
<1>1. SearchInv => NothingBeyondTheBound
  <2> SUFFICES ASSUME SearchInv, stage = "done", asked.priced
               PROVE  \/ \A i \in DOMAIN answer : Told(answer[i]) # NoCost
                           => ~Beyond(Told(answer[i]), asked.c) \/ RelatedOnly(answer[i], c)
                      \/ c.negative # <<>> /\ \A i \in DOMAIN answer : ShouldFilter(answer[i], c)
    BY DEF NothingBeyondTheBound
  <2>1. BoundsOf(c) = BoundsOf(asked.c)
    BY DEF SearchInv, BoundsOpened, AfterOpening
  <2>2. c.min = asked.c.min /\ c.max = asked.c.max /\ c.lt = asked.c.lt /\ c.gt = asked.c.gt /\ c.currency = asked.c.currency
    BY <2>1 DEF BoundsOf
  <2>3. \A cost : Beyond(cost, asked.c) = Beyond(cost, c)
    BY <2>2 DEF Beyond
  <2>4. Bounded(answer, c)
    BY DEF SearchInv, AnswerInBound
  <2>5. \A i \in DOMAIN answer : answer[i] \in ToSet(answer)
    BY DEF ToSet
  <2> QED BY <2>3, <2>4, <2>5 DEF Bounded, InBound, AllFail
<1> QED
  BY <1>1, SearchInvHolds, PTL

\* What Restore puts back, when one upper and one lower bound were asked for.
LEMMA RestoreFacts ==
  ASSUME NEW b, IsReading(b), NEW stated, OneBound(stated),
         BoundsOf(b) = BoundsOf(stated) \/ <<b.min, b.max, b.lt, b.gt>> = NoBounds
  PROVE  LET r == Restore(b, stated) IN
         r.min = stated.min /\ r.max = stated.max /\ r.lt = stated.lt /\ r.gt = stated.gt
<1> DEFINE lt == Or(b.lt, NoPrice, stated.lt)
           gt == Or(b.gt, NoPrice, stated.gt)
           max1 == IF b.lt = NoPrice THEN Or(b.max, NoPrice, stated.lt) ELSE b.max
           min1 == IF b.gt = NoPrice THEN Or(b.min, NoPrice, stated.gt) ELSE b.min
           max == Or(max1, NoPrice, stated.max)
           min == Or(min1, NoPrice, stated.min)
           r == Restore(b, stated)
<1>1. r = [b EXCEPT !.lt = lt, !.gt = gt, !.max = max, !.min = min]
  BY DEF Restore
<1>2. lt = stated.lt /\ gt = stated.gt /\ max = stated.max /\ min = stated.min
  <2>1. CASE BoundsOf(b) = BoundsOf(stated)
    <3>1. b.min = stated.min /\ b.max = stated.max /\ b.lt = stated.lt /\ b.gt = stated.gt
      BY <2>1 DEF BoundsOf
    <3> QED BY <3>1 DEF Or, OneBound
  <2>2. CASE <<b.min, b.max, b.lt, b.gt>> = NoBounds
    <3>1. b.min = NoPrice /\ b.max = NoPrice /\ b.lt = NoPrice /\ b.gt = NoPrice
      BY <2>2 DEF NoBounds
    <3> QED BY <3>1 DEF Or, OneBound
  <2> QED BY <2>1, <2>2
<1>3. {"min", "max", "lt", "gt"} \subseteq DOMAIN b
  BY FieldsAre DEF IsReading
<1> HIDE DEF lt, gt, max, min, r
<1>4. r.min = min /\ r.max = max /\ r.lt = lt /\ r.gt = gt
  BY <1>1, <1>3
<1> QED
  BY <1>2, <1>4 DEF r

\* The price bounds of the response are those that were asked for, though the gates
\* may have been opened in between (Restore), when one upper and one lower bound
\* were asked for.
THEOREM PriceReported == Spec => []ReportedPriceIsAsked
<1>1. SearchInv => ReportedPriceIsAsked
  <2> SUFFICES ASSUME SearchInv, stage = "done", OneBound(asked.c), NEW bound \in {"min", "max", "lt", "gt"}
               PROVE  report.c[bound] = asked.c[bound]
    BY DEF ReportedPriceIsAsked
  <2>1. BoundsOf(c) = BoundsOf(asked.c) \/ <<c.min, c.max, c.lt, c.gt>> = NoBounds
    BY DEF SearchInv, BoundsOpened, AfterOpening
  <2>2. IsReading(c)
    BY DEF SearchInv, IsIntent, c
  <2> DEFINE r == Restore(c, asked.c)
  <2>3. r.min = asked.c.min /\ r.max = asked.c.max /\ r.lt = asked.c.lt /\ r.gt = asked.c.gt
    BY <2>1, <2>2, RestoreFacts
  <2>4. report.c = r
    BY DEF SearchInv, ReportRestores
  <2> HIDE DEF r
  <2> QED BY <2>3, <2>4
<1> QED
  BY <1>1, SearchInvHolds, PTL

\* No gate between the sources and the merge takes the last web result away: each
\* gate of main.rs falls back to a list that is not empty; but for titles about a
\* superlative in a pool of poor pages, which go even to zero, and for the official
\* sites of what a query that only excludes is to do without.
THEOREM GatesKeep == Spec => GatesLeaveSomething
<1> DEFINE Kept == /\ found.web # <<>> /\ stage \in {"dedup", "semantic", "negative", "filter", "narrow", "gate"}
                   /\ ~Emptied
                   => Len(found'.web) > 0
<1>1. SearchInv /\ [Next]_vars => [Kept]_vars
  <2> SUFFICES ASSUME SearchInv, Next, found.web # <<>>,
                      stage \in {"dedup", "semantic", "negative", "filter", "narrow", "gate"}, ~Emptied
               PROVE  Len(found'.web) > 0
    OBVIOUS
  <2>1. DOMAIN found = {"local", "web", "rrf"} /\ IsShelf(found.web)
    BY DEF SearchInv, Shelves
  <2>2. ASSUME NEW list, Web(list), Len(list) > 0 PROVE Len(found'.web) > 0
    BY <2>1, <2>2 DEF Web
  <2>3. Deduplicate \/ KeepRelevant \/ DemoteExcluded \/ KeepConforming \/ NarrowToPrice \/ SortExclusions
    BY DEF Next, AskIntent, GatherAnswers, AskByMeaning, AskAgain, AskRelaxed, GatherMedia, OpenGates, Merge,
       DropExcluded, NudgeClean, ApplyConstraints, Polish, Report, Finished, Goto
  <2>4. CASE Deduplicate
    <3> DEFINE b == [web |-> found.web, rrf |-> found.rrf]
    <3>1. IsShelf(b.web) /\ b.web # <<>>
      BY <2>1
    <3>2. Web(NormaliseRank(DedupWeb(b), found.rrf))
      BY <2>4 DEF Deduplicate
    <3> HIDE DEF b
    <3>3. IsShelf(DedupWeb(b)) /\ Len(DedupWeb(b)) > 0
      BY <3>1, DedupShelf
    <3>4. Len(NormaliseRank(DedupWeb(b), found.rrf)) > 0
      BY <3>3, RankShelf
    <3> QED BY <2>2, <3>2, <3>4
  <2>5. CASE KeepRelevant
    <3>1. Web(SemanticFilter(found.web, q, OnlyNegative(c))) /\ stage = "semantic"
      BY <2>5 DEF KeepRelevant, Goto
    <3>2. Len(SemanticFilter(found.web, q, OnlyNegative(c))) > 0
      BY <2>1, <3>1, SemanticShelf DEF Emptied
    <3> QED BY <2>2, <3>1, <3>2
  <2>6. CASE DemoteExcluded
    <3>1. IsList(c.negative)
      BY DEF SearchInv, IsIntent, IsReading, c
    <3>2. IsShelf(NegativeFilter(found.web, c)) /\ Len(NegativeFilter(found.web, c)) > 0
      BY <2>1, <3>1, NegativeShelf
    <3>3. Len(Boosted(NegativeFilter(found.web, c), c)) > 0
      BY <3>2, BoostedShelf
    <3> QED BY <2>2, <2>6, <3>3 DEF DemoteExcluded
  <2>7. CASE KeepConforming
    <3>1. Len(PreFilter(found.web, c)) > 0
      BY <2>1, PreFilterShelf
    <3> QED BY <2>2, <2>7, <3>1 DEF KeepConforming
  <2>8. CASE NarrowToPrice
    <3> DEFINE web == PriceNarrow(found.web, c, request.operator)
               local == LocalGate(found.local, q)
    <3>1. Len(web) > 0
      BY <2>1, NarrowShelf
    <3>2. found' = [found EXCEPT !.web = web, !.local = local]
      BY <2>8 DEF NarrowToPrice
    <3> HIDE DEF web, local
    <3> QED BY <2>1, <3>1, <3>2
  <2>9. CASE SortExclusions
    <3> DEFINE web == DropOfficial(found.web, reading'.c)
    <3>1. stage = "gate" /\ Web(web) /\ c' = reading'.c
      BY <2>9 DEF SortExclusions, Goto, c
    <3>2. ~(/\ OnlyNegative(reading'.c)
            /\ \A i \in DOMAIN found.web :
                 \E n \in ExpandNegatives(reading'.c.negative) : OfficialSite(found.web[i], n))
      BY <3>1 DEF Emptied
    <3>3. IsShelf(web) /\ web # <<>>
      BY <2>1, <3>2, OfficialShelf
    <3> HIDE DEF web
    <3>4. Len(web) > 0
      BY <3>3, ShelfFacts, NotEmpty
    <3> QED BY <2>2, <3>1, <3>4
  <2> QED BY <2>3, <2>4, <2>5, <2>6, <2>7, <2>8, <2>9
<1> QED
  BY <1>1, SearchInvHolds, PTL DEF Spec, GatesLeaveSomething
===============================================================================
