--------------------------- MODULE ShoppingProofs ---------------------------
(***************************************************************************)
(* The enrichment never costs a request its answer, whatever the results,  *)
(* their pages, the widths of wave, window and strip and the time the      *)
(* search takes: the wall clock of each pass ends before the headroom.     *)
(* What it shows is honest: a result names the source of its facts exactly *)
(* if it has any, a page whose facts the strip shows is not fetched again  *)
(* for the results, and the prices of an offer come from one signal.       *)
(***************************************************************************)
EXTENDS Shopping, FiniteSetTheorems, FunctionTheorems, SequenceTheorems, TLAPS

Latest == Budget - Headroom

\* The clock and the deadlines are numbers.
Clocked == now \in Nat /\ deadline \in Nat /\ searched \in Nat

\* A request whose search left the headroom has it until its reply is written:
\* neither the clock nor the deadline of a pass is later than that.
InTime ==
  stage \notin {"answered", "lost"} /\ searched <= Latest => now <= Latest /\ deadline <= Latest

\* Until its search is over a request has used no time.
Fresh == stage = "search" => searched = 0

IInv == Clocked /\ Fresh /\ InTime /\ AnswerNotLost

USE DEF Budget, Headroom, WallCeiling, FetchCap, Latest

\* A pass that starts in time ends in time: what is left of the ceiling never
\* reaches beyond the headroom.
LEMMA WallInTime ==
  ASSUME NEW t \in Nat
  PROVE  Wall(t) \in Nat /\ (t <= Latest => t + Wall(t) <= Latest)
  BY DEF Wall, Left, Least

LEMMA EnrichInTime ==
  ASSUME NEW list, NEW number, Enrich(list, number), now' \in Nat
  PROVE  deadline' \in Nat /\ (now' <= Latest => deadline' <= Latest) /\ stage' = "wave"
<1>1. deadline' = now' + Wall(now') /\ stage' = "wave"
  BY DEF Enrich
<1>2. Wall(now') \in Nat /\ (now' <= Latest => now' + Wall(now') <= Latest)
  BY WallInTime
<1> QED
  BY <1>1, <1>2

LEMMA SearchInTime ==
  ASSUME IInv, Search
  PROVE  IInv'
<1>1. now' \in Nat /\ searched' = now'
  BY ShoppingAssumption DEF Search
<1>2. stage = "search"
  BY DEF Search
<1>3. CASE \E list : Enrich(list, 1) /\ now' < Budget
  <2>1. PICK list : Enrich(list, 1)
    BY <1>3
  <2>2. deadline' \in Nat /\ (now' <= Latest => deadline' <= Latest) /\ stage' = "wave"
    BY <1>1, <2>1, EnrichInTime
  <2> QED
    BY <1>1, <2>2 DEF IInv, Clocked, Fresh, InTime, AnswerNotLost
<1>4. CASE now' < Budget /\ stage' \in {"copy", "reply"} /\ UNCHANGED deadline
  BY <1>1, <1>2, <1>4 DEF IInv, Clocked, Fresh, InTime, AnswerNotLost
<1>5. CASE now' >= Budget /\ stage' = "lost" /\ UNCHANGED deadline
  BY <1>1, <1>5 DEF IInv, Clocked, Fresh, InTime, AnswerNotLost
<1> QED
  BY <1>3, <1>4, <1>5 DEF Search

\* A step that leaves the clock, the deadline and the stage within the request.
LEMMA QuietInTime ==
  ASSUME IInv, UNCHANGED <<now, deadline, searched>>,
         stage \notin {"search", "answered", "lost"}, stage' \notin {"search", "answered", "lost"}
  PROVE  IInv'
  BY DEF IInv, Clocked, Fresh, InTime, AnswerNotLost

\* The drain waits no longer than until the deadline, and the deadline is within
\* the headroom: the layer around the router has no reason to step in.
LEMMA TickInTime ==
  ASSUME IInv, Tick
  PROVE  IInv'
<1>1. now' = now + 1 /\ now < deadline /\ UNCHANGED <<deadline, searched>>
  BY DEF Tick, Quiet
<1>2. stage = "drain" /\ stage' = IF now' >= Budget THEN "lost" ELSE stage
  BY DEF Tick
<1> QED
  BY <1>1, <1>2 DEF IInv, Clocked, Fresh, InTime, AnswerNotLost

LEMMA ReplyInTime ==
  ASSUME IInv, Reply
  PROVE  IInv'
<1>1. PICK d \in 0..(Headroom - 1) :
        now' = now + d /\ stage' = IF now' >= Budget THEN "lost" ELSE "answered"
  BY DEF Reply
<1>2. stage = "reply" /\ UNCHANGED <<deadline, searched>>
  BY DEF Reply
<1> QED
  BY <1>1, <1>2 DEF IInv, Clocked, Fresh, InTime, AnswerNotLost

LEMMA CopyInTime ==
  ASSUME IInv, CopyFacts
  PROVE  IInv'
<1>1. UNCHANGED <<now, searched>> /\ stage = "copy" /\ Enrich(Replay(Returned), 2)
  BY DEF CopyFacts
<1>2. deadline' \in Nat /\ (now' <= Latest => deadline' <= Latest) /\ stage' = "wave"
  BY <1>1, EnrichInTime DEF IInv, Clocked
<1> QED
  BY <1>1, <1>2 DEF IInv, Clocked, Fresh, InTime, AnswerNotLost

\* Tasks deliver and give up at any time, also after the reply.
LEMMA TaskInTime ==
  ASSUME IInv, NEW t, Deliver(t) \/ GiveUp(t)
  PROVE  IInv'
<1>1. UNCHANGED <<now, deadline, searched, stage>>
  BY DEF Deliver, GiveUp, Quiet
<1> QED
  BY <1>1 DEF IInv, Clocked, Fresh, InTime, AnswerNotLost

LEMMA StepInTime ==
  ASSUME IInv, [Next]_vars
  PROVE  IInv'
<1>1. CASE Search
  BY <1>1, SearchInTime
<1>2. CASE StartWave \/ StopWaves \/ Receive \/ Expire
  <2>1. UNCHANGED <<now, deadline, searched>>
    BY <1>2 DEF StartWave, StopWaves, Receive, Expire, Quiet
  <2>2. stage \in {"wave", "drain"} /\ stage' \in {"wave", "drain", "attach"}
    BY <1>2 DEF StartWave, StopWaves, Receive, Expire
  <2> QED
    BY <2>1, <2>2, QuietInTime
<1>3. CASE AttachFacts
  <2>1. UNCHANGED <<now, deadline, searched>> /\ stage = "attach" /\ stage' \in {"copy", "reply"}
    BY <1>3 DEF AttachFacts
  <2> QED
    BY <2>1, QuietInTime
<1>4. CASE Tick
  BY <1>4, TickInTime
<1>5. CASE CopyFacts
  BY <1>5, CopyInTime
<1>6. CASE Reply
  BY <1>6, ReplyInTime
<1>7. CASE \E t \in DOMAIN tasks : Deliver(t) \/ GiveUp(t)
  BY <1>7, TaskInTime
<1>8. CASE UNCHANGED vars
  BY <1>8 DEF IInv, Clocked, Fresh, InTime, AnswerNotLost, vars
<1>9. CASE Answered
  BY <1>8, <1>9 DEF Answered
<1> QED
  BY <1>1, <1>2, <1>3, <1>4, <1>5, <1>6, <1>7, <1>8, <1>9 DEF Next

\* Enriching the results of a search (twice, for /shopping) never makes the
\* timeout layer end a request that was in time when its search was over.
THEOREM EnrichmentInTime == Spec => []AnswerNotLost
<1>1. Init => IInv
  BY DEF Init, IInv, Clocked, Fresh, InTime, AnswerNotLost
<1>2. IInv /\ [Next]_vars => IInv'
  BY StepInTime
<1>3. IInv => AnswerNotLost
  BY DEF IInv
<1> QED
  BY <1>1, <1>2, <1>3, PTL DEF Spec

-------------------------------------------------------------------------------
(* What is read off a page.                                                *)


LEMMA FilledFacts ==
  ASSUME NEW dst, NEW src
  PROVE  /\ DOMAIN Filled(dst, src) = DOMAIN dst \cup DOMAIN src
         /\ \A f \in DOMAIN dst \cup DOMAIN src :
              Filled(dst, src)[f] = IF f \in DOMAIN dst THEN dst[f] ELSE src[f]
  BY DEF Filled

LEMMA OnlyFacts ==
  ASSUME NEW facts, NEW S
  PROVE  /\ DOMAIN Only(facts, S) = DOMAIN facts \cap S
         /\ \A f \in DOMAIN facts \cap S : Only(facts, S)[f] = facts[f]
  BY DEF Only, Restrict

\* Facts with the same prices, of the same values, agree on them.
LEMMA SamePrices ==
  ASSUME NEW a, NEW b, DOMAIN a \cap Prices = DOMAIN b \cap Prices,
         \A f \in DOMAIN b \cap Prices : a[f] = b[f]
  PROVE  Only(a, Prices) = Only(b, Prices)
  BY DEF Only, Restrict

\* A merge takes the prices of one side: of the first, if it states any.
LEMMA MergeTakesOne ==
  ASSUME NEW dst, NEW src
  PROVE  Only(Merge(dst, src), Prices) = IF DOMAIN dst \cap Prices # {}
                                        THEN Only(dst, Prices) ELSE Only(src, Prices)
<1>1. CASE DOMAIN dst \cap Prices # {}
  <2> DEFINE rest == Only(src, DOMAIN src \ PriceGroup)
  <2>1. Merge(dst, src) = Filled(dst, rest)
    BY <1>1 DEF Merge, Prices
  <2>2. DOMAIN rest \cap Prices = {}
    <3>1. DOMAIN rest = DOMAIN src \cap (DOMAIN src \ PriceGroup)
      BY OnlyFacts
    <3>2. Prices \subseteq PriceGroup
      BY DEF Prices, PriceGroup
    <3> QED
      BY <3>1, <3>2
  <2> HIDE DEF rest
  <2>3. /\ DOMAIN Filled(dst, rest) \cap Prices = DOMAIN dst \cap Prices
        /\ \A f \in DOMAIN dst \cap Prices : Filled(dst, rest)[f] = dst[f]
    <3>1. DOMAIN Filled(dst, rest) = DOMAIN dst \cup DOMAIN rest
      BY FilledFacts
    <3>2. \A f \in DOMAIN dst : Filled(dst, rest)[f] = dst[f]
      BY FilledFacts
    <3> QED
      BY <2>2, <3>1, <3>2
  <2>4. Only(Filled(dst, rest), Prices) = Only(dst, Prices)
    BY <2>3, SamePrices
  <2> QED
    BY <1>1, <2>1, <2>4
<1>2. CASE DOMAIN dst \cap Prices = {}
  <2>1. Merge(dst, src) = Filled(dst, src)
    BY <1>2 DEF Merge, Prices
  <2>2. /\ DOMAIN Filled(dst, src) \cap Prices = DOMAIN src \cap Prices
        /\ \A f \in DOMAIN src \cap Prices : Filled(dst, src)[f] = src[f]
    <3>1. DOMAIN Filled(dst, src) = DOMAIN dst \cup DOMAIN src
      BY FilledFacts
    <3>2. ASSUME NEW f \in DOMAIN src, f \notin DOMAIN dst
          PROVE  Filled(dst, src)[f] = src[f]
      BY <3>2 DEF Filled
    <3> QED
      BY <1>2, <3>1, <3>2
  <2>3. Only(Filled(dst, src), Prices) = Only(src, Prices)
    BY <2>2, SamePrices
  <2> QED
    BY <1>2, <2>1, <2>3
<1> QED
  BY <1>1, <1>2

\* Agreeing on the prices is agreeing on their fields.
LEMMA PriceFields ==
  ASSUME NEW a, NEW b, Only(a, Prices) = Only(b, Prices)
  PROVE  DOMAIN a \cap Prices = DOMAIN b \cap Prices /\ Priced(a) = Priced(b)
<1>1. DOMAIN a \cap Prices = DOMAIN b \cap Prices
  BY OnlyFacts
<1> QED
  BY <1>1 DEF Priced, Prices

\* The prices of the first of two signals that states any.
FirstPrices(a, b) == IF DOMAIN a \cap Prices # {} THEN Only(a, Prices) ELSE Only(b, Prices)

LEMMA NoFactsEmpty == DOMAIN NoFacts = {}
  BY DEF NoFacts

\* A signal that supplements adds its prices if there are none yet.
LEMMA SupplementPrices ==
  ASSUME NEW offer, NEW name, NEW found
  PROVE  Only(Supplement(offer, name, found).facts, Prices) = FirstPrices(offer.facts, found)
<1>1. CASE found = NoFacts
  <2>1. Supplement(offer, name, found) = offer
    BY <1>1 DEF Supplement
  <2>2. DOMAIN found = {}
    BY <1>1, NoFactsEmpty
  <2>3. DOMAIN offer.facts \cap Prices = {} => Only(offer.facts, Prices) = Only(found, Prices)
    BY <2>2, SamePrices
  <2> QED
    BY <2>1, <2>3 DEF FirstPrices
<1>2. CASE found # NoFacts
  <2>1. Supplement(offer, name, found).facts = Merge(offer.facts, found)
    BY <1>2 DEF Supplement
  <2> QED
    BY <2>1, MergeTakesOne DEF FirstPrices
<1> QED
  BY <1>1, <1>2

\* One that steps in for a missing price does so too; it is not asked when there
\* is a price.
LEMMA IfUnpricedPrices ==
  ASSUME NEW offer, NEW name, NEW found
  PROVE  Only(IfUnpriced(offer, name, found).facts, Prices) = FirstPrices(offer.facts, found)
<1>1. CASE Priced(offer.facts)
  <2>1. IfUnpriced(offer, name, found) = offer
    BY <1>1 DEF IfUnpriced
  <2>2. DOMAIN offer.facts \cap Prices # {}
    BY <1>1 DEF Priced, Prices
  <2> QED
    BY <2>1, <2>2 DEF FirstPrices
<1>2. CASE ~Priced(offer.facts)
  <2>1. IfUnpriced(offer, name, found) = Supplement(offer, name, found)
    BY <1>2 DEF IfUnpriced, Supplement
  <2> QED
    BY <2>1, SupplementPrices
<1> QED
  BY <1>1, <1>2

\* The containers are only asked for a price nobody states, and leave what is stated.
LEMMA ContainerPrices ==
  ASSUME NEW offer, NEW found
  PROVE  Only(FromContainers(offer, found).facts, Prices)
           = Filled(Only(IF Priced(offer.facts) THEN NoFacts ELSE found, Prices), Only(offer.facts, Prices))
<1>1. CASE Priced(offer.facts) \/ found = NoFacts
  <2>1. FromContainers(offer, found) = offer
    BY <1>1 DEF FromContainers
  <2>2. Only(IF Priced(offer.facts) THEN NoFacts ELSE found, Prices) = Only(NoFacts, Prices)
    BY <1>1
  <2>3. DOMAIN Only(NoFacts, Prices) = {}
    BY NoFactsEmpty, OnlyFacts
  <2>4. Filled(Only(NoFacts, Prices), Only(offer.facts, Prices)) = Only(offer.facts, Prices)
    BY <2>3 DEF Filled, Only, Restrict
  <2> QED
    BY <2>1, <2>2, <2>4
<1>2. CASE ~Priced(offer.facts) /\ found # NoFacts
  <2>1. FromContainers(offer, found).facts = Filled(found, offer.facts)
    BY <1>2 DEF FromContainers
  <2>2. Only(Filled(found, offer.facts), Prices) = Filled(Only(found, Prices), Only(offer.facts, Prices))
    BY DEF Filled, Only, Restrict
  <2> QED
    BY <1>2, <2>1, <2>2
<1> QED
  BY <1>1, <1>2

\* The least of a few positions, and that none is before it.
LEMMA LeastPosition ==
  ASSUME NEW K, K \subseteq 1..4, K # {}
  PROVE  Min(K) \in K /\ \A k \in K : Min(K) <= k
<1>1. \E x \in K : \A y \in K : x <= y
  <2>1. \A y \in K : y = 1 \/ y = 2 \/ y = 3 \/ y = 4
    OBVIOUS
  <2>2. CASE 1 \in K
    BY <2>1, <2>2
  <2>3. CASE 1 \notin K /\ 2 \in K
    <3>1. \A y \in K : 2 <= y
      BY <2>1, <2>3
    <3> QED
      BY <2>3, <3>1
  <2>4. CASE 1 \notin K /\ 2 \notin K /\ 3 \in K
    <3>1. \A y \in K : 3 <= y
      BY <2>1, <2>4
    <3> QED
      BY <2>4, <3>1
  <2>5. CASE 1 \notin K /\ 2 \notin K /\ 3 \notin K
    <3>1. \A y \in K : y = 4
      BY <2>1, <2>5
    <3>2. PICK y \in K : TRUE
      OBVIOUS
    <3>3. 4 \in K
      BY <3>1, <3>2
    <3>4. \A z \in K : 4 <= z
      BY <3>1
    <3> QED
      BY <3>3, <3>4
  <2> QED
    BY <2>2, <2>3, <2>4, <2>5
<1> QED
  BY <1>1 DEF Min

\* The prices read off a page are those of the first signal that states any of
\* them, and of a container if that is no price.
LEMMA PricesRead ==
  ASSUME NEW page
  PROVE  AsStated(Read(page).facts, page)
<1> DEFINE one   == FromNodes(CommerceNodes(page.nodes))
           two   == IfUnpriced(one, "og", OpenGraph(page.meta))
           three == Supplement(two, "microdata", Microdata(page.micro))
           four  == IfUnpriced(three, "microformats2", HProduct(page.hproduct))
           s     == Signals(page)
           K     == {k \in DOMAIN s : DOMAIN s[k] \cap Prices # {}}
           first == Min(K \cup {Len(s)})
<1>1. /\ Only(two.facts, Prices) = FirstPrices(one.facts, OpenGraph(page.meta))
      /\ Only(three.facts, Prices) = FirstPrices(two.facts, Microdata(page.micro))
      /\ Only(four.facts, Prices) = FirstPrices(three.facts, HProduct(page.hproduct))
  BY SupplementPrices, IfUnpricedPrices
<1>2. /\ DOMAIN s = 1..4 /\ Len(s) = 4
      /\ s[1] = one.facts /\ s[2] = OpenGraph(page.meta)
      /\ s[3] = Microdata(page.micro) /\ s[4] = HProduct(page.hproduct)
  BY DEF Signals
<1>3. Read(page) = FromContainers(four, ContainerPrice(page.containers))
  BY DEF Read, WithMarkup
<1> HIDE DEF one, two, three, four, s
<1>4. /\ first \in 1..4
      /\ \A k \in 1..4 : k < first => DOMAIN s[k] \cap Prices = {}
      /\ first = 4 \/ DOMAIN s[first] \cap Prices # {}
  <2>1. K \subseteq 1..4 /\ K \cup {Len(s)} \subseteq 1..4 /\ K \cup {Len(s)} # {}
    BY <1>2
  <2>2. \A k \in 1..4 : k \in K <=> DOMAIN s[k] \cap Prices # {}
    BY <1>2
  <2> HIDE DEF K
  <2>3. first \in K \cup {Len(s)} /\ \A k \in K \cup {Len(s)} : first <= k
    BY <2>1, LeastPosition
  <2> HIDE DEF first
  <2>4. first \in 1..4 /\ (first = 4 \/ first \in K) /\ \A k \in 1..4 : k < first => k \notin K
    BY <1>2, <2>1, <2>3
  <2> QED
    BY <2>2, <2>4
<1>5. ASSUME Only(four.facts, Prices) = Only(s[first], Prices)
      PROVE  AsStated(Read(page).facts, page)
  <2>1. Priced(four.facts) = Priced(s[first])
    BY <1>5, PriceFields
  <2>2. Only(Read(page).facts, Prices)
          = Filled(Only(IF Priced(s[first]) THEN NoFacts ELSE ContainerPrice(page.containers), Prices),
                   Only(s[first], Prices))
    BY <1>3, <1>5, <2>1, ContainerPrices
  <2> QED
    BY <2>2 DEF AsStated, s
<1> HIDE DEF first, K
<1>6. CASE DOMAIN s[first] \cap Prices # {}
  <2>1. DOMAIN s[first] \cap Prices # {}
    BY <1>6
  <2>2. DOMAIN one.facts \cap Prices # {} <=> first = 1
    BY <1>2, <1>4, <2>1
  <2>3. Only(two.facts, Prices) = IF first = 1 THEN Only(one.facts, Prices) ELSE Only(s[2], Prices)
    BY <1>1, <1>2, <2>2 DEF FirstPrices
  <2>4. DOMAIN two.facts \cap Prices # {} <=> first \in {1, 2}
    <3>1. DOMAIN two.facts \cap Prices
            = IF first = 1 THEN DOMAIN one.facts \cap Prices ELSE DOMAIN s[2] \cap Prices
      BY <2>3, PriceFields
    <3> QED
      BY <1>2, <1>4, <2>1, <2>2, <3>1
  <2>5. Only(three.facts, Prices) = IF first \in {1, 2} THEN Only(two.facts, Prices) ELSE Only(s[3], Prices)
    BY <1>1, <1>2, <2>4 DEF FirstPrices
  <2>6. DOMAIN three.facts \cap Prices # {} <=> first \in {1, 2, 3}
    <3>1. DOMAIN three.facts \cap Prices
            = IF first \in {1, 2} THEN DOMAIN two.facts \cap Prices ELSE DOMAIN s[3] \cap Prices
      BY <2>5, PriceFields
    <3> QED
      BY <1>2, <1>4, <2>1, <2>4, <3>1
  <2>7. Only(four.facts, Prices) = IF first \in {1, 2, 3} THEN Only(three.facts, Prices) ELSE Only(s[4], Prices)
    BY <1>1, <1>2, <2>6 DEF FirstPrices
  <2>8. Only(four.facts, Prices) = Only(s[first], Prices)
    BY <1>2, <1>4, <2>3, <2>5, <2>7
  <2> QED
    BY <1>5, <2>8
<1>7. CASE DOMAIN s[first] \cap Prices = {}
  <2>1. first = 4 /\ \A k \in 1..4 : DOMAIN s[k] \cap Prices = {}
    BY <1>2, <1>4, <1>7
  <2>2. DOMAIN one.facts \cap Prices = {}
    BY <1>2, <2>1
  <2>3. Only(two.facts, Prices) = Only(s[2], Prices)
    BY <1>1, <1>2, <2>2 DEF FirstPrices
  <2>4. DOMAIN two.facts \cap Prices = {}
    BY <2>1, <2>3, PriceFields
  <2>5. Only(three.facts, Prices) = Only(s[3], Prices)
    BY <1>1, <1>2, <2>4 DEF FirstPrices
  <2>6. DOMAIN three.facts \cap Prices = {}
    BY <2>1, <2>5, PriceFields
  <2>7. Only(four.facts, Prices) = Only(s[first], Prices)
    BY <1>1, <1>2, <2>1, <2>6 DEF FirstPrices
  <2> QED
    BY <1>5, <2>7
<1> QED
  BY <1>6, <1>7

\* The host in place of a merchant leaves the prices alone.
LEMMA PricesOfPage ==
  ASSUME NEW page, NEW host, NEW t
  PROVE  AsStated(Extract(page, host, t).facts, page)
<1> DEFINE facts == Read(page).facts
           named == [f \in {"merchant"} |-> host]
<1>1. Extract(page, host, t).facts = Filled(facts, named)
  BY DEF Extract, Observed
<1>2. /\ DOMAIN Filled(facts, named) \cap Prices = DOMAIN facts \cap Prices
      /\ \A f \in DOMAIN facts \cap Prices : Filled(facts, named)[f] = facts[f]
  <2>1. DOMAIN Filled(facts, named) = DOMAIN facts \cup {"merchant"}
    <3>1. DOMAIN named = {"merchant"}
      OBVIOUS
    <3> HIDE DEF facts, named
    <3> QED
      BY <3>1, FilledFacts
  <2>2. \A f \in DOMAIN facts : Filled(facts, named)[f] = facts[f]
    BY FilledFacts
  <2> QED
    BY <2>1, <2>2 DEF Prices
<1> HIDE DEF facts, named
<1>3. Only(Filled(facts, named), Prices) = Only(facts, Prices)
  BY <1>2, SamePrices
<1> QED
  BY <1>1, <1>3, PricesRead DEF AsStated, facts

\* A page whose facts have no source states no fact.
LEMMA SourceOfFacts ==
  ASSUME NEW page, NEW host, NEW t, Extract(page, host, t).hasFact
  PROVE  Extract(page, host, t).source # "none"
<1> DEFINE Sourced(offer) == offer.source = "none" => DOMAIN offer.facts = {}
<1>1. ASSUME NEW offer, NEW name, NEW found, name # "none", Sourced(offer)
      PROVE  Sourced(Supplement(offer, name, found)) /\ Sourced(IfUnpriced(offer, name, found))
  BY <1>1 DEF Supplement, IfUnpriced
<1>2. Sourced(FromNodes(CommerceNodes(page.nodes)))
  BY NoFactsEmpty DEF FromNodes
<1> DEFINE two  == IfUnpriced(FromNodes(CommerceNodes(page.nodes)), "og", OpenGraph(page.meta))
           four == WithMarkup(two, page)
<1>3. Sourced(two)
  <2> HIDE DEF Sourced
  <2> QED
    BY <1>1, <1>2
<1>4. Sourced(four)
  <2> HIDE DEF Sourced, two
  <2> QED
    BY <1>1, <1>3 DEF WithMarkup
<1>5. Sourced(Read(page))
  <2> HIDE DEF two
  <2>1. Read(page) = FromContainers(four, ContainerPrice(page.containers))
    BY DEF Read, two
  <2> HIDE DEF four
  <2> QED
    BY <1>4, <2>1 DEF FromContainers
<1>6. Extract(page, host, t).source = Read(page).source
  BY DEF Extract, Observed
<1>7. DOMAIN Read(page).facts # {}
  BY DEF Extract, Observed
<1> QED
  BY <1>5, <1>6, <1>7

-------------------------------------------------------------------------------
(* Lists of results and of positions in them.                              *)

\* A member of a finite set of numbers has one place in it: as many members are
\* below it as are before it, and every place is taken.
LEMMA AscendingMembers ==
  ASSUME NEW S, S \subseteq Nat, IsFiniteSet(S), NEW k \in 1..Cardinality(S)
  PROVE  Ascending(S)[k] \in S
<1> DEFINE Below(n) == {m \in S : m < n}
           rank == [n \in S |-> Cardinality(Below(n))]
           c == Cardinality(S)
<1>1. c \in Nat
  BY FS_CardinalityType
<1>2. \A n \in S : IsFiniteSet(Below(n)) /\ Cardinality(Below(n)) \in Nat
  BY FS_Subset, FS_CardinalityType
<1>3. ASSUME NEW n \in S
      PROVE  Cardinality(Below(n)) < c
  <2>1. Below(n) \in SUBSET S /\ n \notin Below(n)
    OBVIOUS
  <2>2. Below(n) # S
    BY <2>1
  <2>3. Cardinality(Below(n)) <= c /\ Cardinality(Below(n)) # c
    BY <2>1, <2>2, FS_Subset
  <2> QED
    BY <1>1, <1>2, <2>3
<1>4. ASSUME NEW n \in S, NEW p \in S, n < p
      PROVE  Cardinality(Below(n)) < Cardinality(Below(p))
  <2>1. ASSUME NEW m \in Below(n)
        PROVE  m \in Below(p)
    <3>1. m \in S /\ m < n
      OBVIOUS
    <3>2. m \in Nat /\ n \in Nat /\ p \in Nat
      BY <3>1
    <3> QED
      BY <1>4, <3>1, <3>2
  <2>2. n \in Below(p) /\ n \notin Below(n)
    BY <1>4
  <2>3. Below(n) # Below(p)
    BY <2>2
  <2> HIDE DEF Below
  <2>4. Cardinality(Below(n)) <= Cardinality(Below(p)) /\ Cardinality(Below(n)) # Cardinality(Below(p))
    BY <1>2, <2>1, <2>3, FS_Subset
  <2> QED
    BY <1>2, <2>4
<1> HIDE DEF Below, c
<1>5. rank \in Injection(S, 0..(c - 1))
  <2>1. rank \in [S -> 0..(c - 1)]
    BY <1>1, <1>2, <1>3
  <2>2. ASSUME NEW n \in S, NEW p \in S, rank[n] = rank[p]
        PROVE  n = p
    <3>1. Cardinality(Below(n)) = Cardinality(Below(p))
      BY <2>2
    <3>2. ~(n < p) /\ ~(p < n)
      BY <1>2, <1>4, <3>1
    <3> QED
      BY <3>2
  <2> QED
    BY <2>1, <2>2, Fun_IsInj
<1>6. IsFiniteSet(0..(c - 1)) /\ Cardinality(0..(c - 1)) = c
  BY <1>1, FS_Interval
<1>7. rank \in Surjection(S, 0..(c - 1))
  BY <1>5, <1>6, FS_Injection DEF c
<1>8. k - 1 \in 0..(c - 1)
  BY <1>1 DEF c
<1>9. PICK n \in S : rank[n] = k - 1
  BY <1>7, <1>8 DEF Surjection
<1>10. \E m \in S : Cardinality(Below(m)) = k - 1
  BY <1>9
<1> QED
  BY <1>10 DEF Ascending, Below

IsList(list) == \E n \in Nat : DOMAIN list = 1..n

LEMMA Positions ==
  ASSUME NEW list, IsList(list), NEW S, S \subseteq DOMAIN list
  PROVE  S \subseteq Nat /\ IsFiniteSet(S) /\ Cardinality(S) \in Nat
<1>1. PICK n \in Nat : DOMAIN list = 1..n
  BY DEF IsList
<1>2. IsFiniteSet(1..n)
  BY FS_Interval
<1>3. IsFiniteSet(S)
  BY <1>1, <1>2, FS_Subset
<1> QED
  BY <1>1, <1>3, FS_CardinalityType

LEMMA AscendingList ==
  ASSUME NEW list, IsList(list), NEW S, S \subseteq DOMAIN list
  PROVE  Ascending(S) \in Seq(S) /\ DOMAIN Ascending(S) = 1..Cardinality(S)
<1>1. Cardinality(S) \in Nat /\ \A k \in 1..Cardinality(S) : Ascending(S)[k] \in S
  BY Positions, AscendingMembers
<1> DEFINE place(k) == CHOOSE n \in S : Cardinality({m \in S : m < n}) = k - 1
<1>2. Ascending(S) = [k \in 1..Cardinality(S) |-> place(k)]
  BY DEF Ascending
<1> HIDE DEF place
<1> QED
  BY <1>1, <1>2

\* The positions in list that have no offer.
NoOfferAt(list) == {i \in DOMAIN list : list[i].offer = NoOffer}

LEMMA EligibleOpen ==
  ASSUME NEW list, IsList(list)
  PROVE  Eligible(list) \in Seq(NoOfferAt(list))
<1> DEFINE open == Ascending(NoOfferAt(list))
<1>1. open \in Seq(NoOfferAt(list))
  BY AscendingList DEF NoOfferAt
<1>2. Eligible(list) = SubSeq(open, 1, Least(Len(open), Window))
  BY DEF Eligible, NoOfferAt
<1> HIDE DEF open
<1>3. Len(open) \in Nat /\ \A i \in 1..Len(open) : open[i] \in NoOfferAt(list)
  BY <1>1, ElementOfSeq, LenProperties
<1>4. Least(Len(open), Window) \in Int /\ Least(Len(open), Window) <= Len(open)
  BY <1>3, ShoppingAssumption DEF Least
<1>5. \A i \in 1..Least(Len(open), Window) : open[i] \in NoOfferAt(list)
  BY <1>3, <1>4
<1> QED
  BY <1>2, <1>4, <1>5, SubSeqProperties

LEMMA Quotient ==
  ASSUME NEW a \in Nat, NEW b \in Nat \ {0}
  PROVE  a \div b \in Nat
  OBVIOUS

LEMMA Product ==
  ASSUME NEW a \in Nat, NEW b \in Nat
  PROVE  a * b \in Nat
  OBVIOUS

LEMMA ChunksOf ==
  ASSUME NEW S, NEW seq \in Seq(S), NEW n \in Nat \ {0}
  PROVE  Chunks(seq, n) \in Seq(Seq(S))
<1> DEFINE q == (Len(seq) + n - 1) \div n
           chunk(k) == SubSeq(seq, (k - 1) * n + 1, Least(k * n, Len(seq)))
<1>1. Len(seq) \in Nat /\ \A i \in 1..Len(seq) : seq[i] \in S
  BY ElementOfSeq, LenProperties
<1>2. q \in Nat
  BY <1>1, Quotient
<1>3. ASSUME NEW k \in 1..q
      PROVE  chunk(k) \in Seq(S)
  <2>1. k \in Nat /\ k - 1 \in Nat
    BY <1>2
  <2>2. (k - 1) * n \in Nat /\ k * n \in Nat
    BY <2>1, Product
  <2> DEFINE lo == (k - 1) * n + 1
             hi == Least(k * n, Len(seq))
  <2>3. lo \in Int /\ hi \in Int /\ lo >= 1 /\ hi <= Len(seq)
    BY <1>1, <2>2 DEF Least
  <2> HIDE DEF lo, hi
  <2>4. \A i \in lo..hi : seq[i] \in S
    BY <1>1, <2>3
  <2>5. SubSeq(seq, lo, hi) \in Seq(S)
    BY <2>3, <2>4, SubSeqProperties
  <2> QED
    BY <2>5 DEF lo, hi
<1>4. Chunks(seq, n) = [k \in 1..q |-> chunk(k)]
  BY DEF Chunks
<1> HIDE DEF q, chunk
<1> QED
  BY <1>2, <1>3, <1>4

\* An enrichment only asks for the pages of results that have no offer.
LEMMA EnrichOpens ==
  ASSUME NEW list, IsList(list), Len(list) \in Nat, NEW number, Enrich(list, number)
  PROVE  waves' \in Seq(Seq(NoOfferAt(list)))
<1> DEFINE n == Max({1, Least(MaxParallel, Len(list))})
<1>1. Least(MaxParallel, Len(list)) \in Int
  BY ShoppingAssumption DEF Least
<1>2. n \in Nat \ {0}
  <2> DEFINE m == Least(MaxParallel, Len(list))
  <2>1. n = IF m > 1 THEN m ELSE 1
    <3> HIDE DEF m
    <3>1. m \in Int
      BY <1>1 DEF m
    <3>2. \E x \in {1, m} : \A y \in {1, m} : x >= y
      BY <3>1
    <3> QED
      BY <3>1, <3>2 DEF Max, m
  <2> HIDE DEF m
  <2>2. m \in Int
    BY <1>1 DEF m
  <2> QED
    BY <2>1, <2>2
<1>3. waves' = Chunks(Eligible(list), n)
  BY DEF Enrich
<1> QED
  BY <1>2, <1>3, EligibleOpen, ChunksOf

-------------------------------------------------------------------------------
(* Results and what is known of them.                                      *)

ResultFields == {"url", "host", "offer", "provenance", "link"}

\* The source that is named for a result is that of its offer, if it has one.
Honest(r) ==
  /\ (r.provenance.source # "none") = (r.offer # NoOffer)
  /\ r.offer # NoOffer => r.provenance.source = r.offer.source /\ r.provenance.observed = r.offer.observed

OneSignal(r) == r.offer # NoOffer => AsStated(r.offer.facts, Content[r.url])

Sound(r) == DOMAIN r = ResultFields /\ Honest(r) /\ OneSignal(r)

\* It was looked up, whether anything was found or not.
LookedUp(r) == r.provenance # NoOffer

LEMMA PlainSound ==
  /\ IsList(Plain) /\ Len(Plain) \in Nat /\ DOMAIN Plain = 1..Len(Plain)
  /\ \A i \in DOMAIN Plain : Sound(Plain[i]) /\ Plain[i].offer = NoOffer
<1>1. Len(Ranked) \in Nat /\ DOMAIN Ranked = 1..Len(Ranked)
  BY ShoppingAssumption, LenProperties
<1>2. DOMAIN Plain = 1..Len(Ranked)
  BY <1>1 DEF Plain
<1>3. Len(Plain) = Len(Ranked)
  BY <1>1 DEF Plain
<1>4. ASSUME NEW i \in DOMAIN Plain
      PROVE  Sound(Plain[i]) /\ Plain[i].offer = NoOffer
  <2>1. Plain[i] = [url |-> Ranked[i][1], host |-> Ranked[i][2], offer |-> NoOffer,
                    provenance |-> NoOffer, link |-> NoLink]
    BY DEF Plain
  <2>2. DOMAIN Plain[i] = ResultFields
    BY <2>1 DEF ResultFields
  <2>3. Plain[i].offer = NoOffer /\ Plain[i].provenance.source = "none"
    BY <2>1 DEF NoOffer
  <2> QED
    BY <2>2, <2>3 DEF Sound, Honest, OneSignal
<1> QED
  BY <1>1, <1>2, <1>3, <1>4 DEF IsList

\* A page is attached as what it is: with its facts and their source, or as one
\* that was looked up and states none.
LEMMA AttachSound ==
  ASSUME NEW r, Sound(r), r.offer = NoOffer, NEW t
  PROVE  LET new == Attach(r, Extract(Content[r.url], r.host, t))
         IN Sound(new) /\ LookedUp(new) /\ new.url = r.url
<1> DEFINE o   == Extract(Content[r.url], r.host, t)
           p   == [url |-> r.url, observed |-> o.observed,
                   source |-> IF o.hasFact THEN o.source ELSE "none"]
           new == Attach(r, o)
<1>1. o.hasFact => o.source # "none"
  BY SourceOfFacts
<1>2. AsStated(o.facts, Content[r.url])
  BY PricesOfPage
<1> HIDE DEF o
<1>3. /\ DOMAIN new = ResultFields /\ new.url = r.url /\ new.provenance = p
      /\ new.offer = IF o.hasFact THEN o ELSE NoOffer
  BY DEF Attach, Sound, ResultFields
<1>4. p.source = IF o.hasFact THEN o.source ELSE "none"
  OBVIOUS
<1>5. p.observed = o.observed
  OBVIOUS
<1>6. p # NoOffer
  <2>1. DOMAIN p = {"url", "observed", "source"} /\ DOMAIN NoOffer = {"source"}
    BY DEF NoOffer
  <2> QED
    BY <2>1
<1> HIDE DEF p, new
<1>7. o.hasFact => o # NoOffer
  BY <1>1 DEF NoOffer
<1>8. Honest(new)
  BY <1>1, <1>3, <1>4, <1>5, <1>7 DEF Honest
<1>9. OneSignal(new)
  BY <1>2, <1>3 DEF OneSignal
<1> QED
  BY <1>3, <1>6, <1>8, <1>9 DEF Sound, LookedUp, new, o

\* An affiliate link says nothing of the facts.
LEMMA DecoratedFacts ==
  ASSUME NEW list, \A i \in DOMAIN list : DOMAIN list[i] = ResultFields
  PROVE  /\ DOMAIN Decorate(list, Context, Env) = DOMAIN list
         /\ \A i \in DOMAIN list :
              /\ DOMAIN Decorate(list, Context, Env)[i] = ResultFields
              /\ Decorate(list, Context, Env)[i].url = list[i].url
              /\ Decorate(list, Context, Env)[i].offer = list[i].offer
              /\ Decorate(list, Context, Env)[i].provenance = list[i].provenance
<1>1. ASSUME NEW r, DOMAIN r = ResultFields, NEW l
      PROVE  LET new == [r EXCEPT !.link = l]
             IN /\ DOMAIN new = ResultFields
                /\ new.url = r.url /\ new.offer = r.offer /\ new.provenance = r.provenance
  BY <1>1 DEF ResultFields
<1>2. DOMAIN Decorate(list, Context, Env) = DOMAIN list
  BY DEF Decorate
<1>3. ASSUME NEW i \in DOMAIN list
      PROVE  \/ Decorate(list, Context, Env)[i] = list[i]
             \/ \E l : Decorate(list, Context, Env)[i] = [list[i] EXCEPT !.link = l]
  BY DEF Decorate
<1>4. ASSUME NEW i \in DOMAIN list
      PROVE  LET new == Decorate(list, Context, Env)[i]
             IN /\ DOMAIN new = ResultFields /\ new.url = list[i].url
                /\ new.offer = list[i].offer /\ new.provenance = list[i].provenance
  <2>1. CASE Decorate(list, Context, Env)[i] = list[i]
    BY <2>1
  <2>2. CASE \E l : Decorate(list, Context, Env)[i] = [list[i] EXCEPT !.link = l]
    <3>1. PICK l : Decorate(list, Context, Env)[i] = [list[i] EXCEPT !.link = l]
      BY <2>2
    <3> QED
      BY <1>1, <3>1
  <2> QED
    BY <1>3, <2>1, <2>2
<1> QED
  BY <1>2, <1>4

LEMMA DecoratedSound ==
  ASSUME NEW list, \A i \in DOMAIN list : Sound(list[i])
  PROVE  LET linked == Decorate(list, Context, Env) IN
         /\ DOMAIN linked = DOMAIN list
         /\ \A i \in DOMAIN list :
              /\ Sound(linked[i])
              /\ LookedUp(list[i]) => LookedUp(linked[i])
              /\ linked[i].offer = list[i].offer
              /\ linked[i].url = list[i].url
<1> DEFINE linked == Decorate(list, Context, Env)
<1>1. \A i \in DOMAIN list : DOMAIN list[i] = ResultFields
  BY DEF Sound
<1>2. /\ DOMAIN linked = DOMAIN list
      /\ \A i \in DOMAIN list :
           /\ DOMAIN linked[i] = ResultFields /\ linked[i].url = list[i].url
           /\ linked[i].offer = list[i].offer /\ linked[i].provenance = list[i].provenance
  BY <1>1, DecoratedFacts
<1> HIDE DEF linked
<1>3. ASSUME NEW i \in DOMAIN list
      PROVE  Sound(linked[i]) /\ (LookedUp(list[i]) => LookedUp(linked[i]))
  BY <1>2 DEF Sound, Honest, OneSignal, LookedUp
<1> QED
  BY <1>2, <1>3 DEF linked

LEMMA LinkedSound ==
  ASSUME NEW list, \A i \in DOMAIN list : Sound(list[i])
  PROVE  /\ DOMAIN Linked(list) = DOMAIN list
         /\ \A i \in DOMAIN list :
              /\ Sound(Linked(list)[i])
              /\ LookedUp(list[i]) => LookedUp(Linked(list)[i])
              /\ Linked(list)[i].offer = list[i].offer
              /\ Linked(list)[i].url = list[i].url
BY DecoratedSound DEF Linked

\* What the search returns is the ranked list, with links or without.
LEMMA ReturnedSound ==
  /\ IsList(Returned) /\ Len(Returned) \in Nat /\ DOMAIN Returned = 1..Len(Returned)
  /\ \A i \in DOMAIN Returned : Sound(Returned[i]) /\ Returned[i].offer = NoOffer
<1> DEFINE linked == Decorate(Plain, Context, Env)
<1>1. DOMAIN linked = DOMAIN Plain /\ \A i \in DOMAIN linked : Sound(linked[i]) /\ linked[i].offer = NoOffer
  BY PlainSound, DecoratedSound
<1>2. Len(linked) = Len(Plain)
  BY PlainSound DEF Decorate
<1> HIDE DEF linked
<1>3. Returned = linked \/ Returned = Plain
  BY DEF Returned, linked
<1> QED
  BY <1>1, <1>2, <1>3, PlainSound DEF IsList

-------------------------------------------------------------------------------
(* The invariant behind provenance, prices and what is asked again.        *)

\* The results that can still get an offer: only their pages are fetched.
Offerless == NoOfferAt(results)
Shown == {s.url : s \in ToSet(strip)}
Fetching == {"wave", "drain", "attach"}

Passes ==
  /\ pass \in 0..2
  /\ stage = "search" => pass = 0
  /\ stage = "copy" => pass < 2
  /\ stage \in Fetching => pass > 0
  /\ \A t \in DOMAIN tasks : t[1] \in 1..pass

\* Whatever a task of this pass brings is for a result without an offer.
OnlyOpen ==
  stage \in Fetching =>
    /\ waves \in Seq(Seq(Offerless)) /\ channel \in Seq(Offerless) /\ fetched \in Seq(Offerless)
    /\ \A t \in DOMAIN tasks : t[1] = pass => t[2] \in Offerless

ResultsSound == IsList(results) /\ \A i \in DOMAIN results : Sound(results[i])
StripSound ==
  \A i \in DOMAIN strip : Sound(strip[i]) /\ LookedUp(strip[i]) /\ strip[i].offer # NoOffer

\* What the strip shows has its offer copied, so that it is not open any more.
NotAgain ==
  /\ DOMAIN asked = 1..2
  /\ pass < 2 => asked[2] = {}
  /\ pass = 2 /\ stage \in Fetching => \A i \in Offerless : results[i].url \notin Shown
  /\ asked[2] \cap Shown = {}

AllLookedUp ==
  pass = 2 /\ stage \in {"reply", "answered"} => \A i \in DOMAIN results : LookedUp(results[i])

FInv == Passes /\ OnlyOpen /\ ResultsSound /\ StripSound /\ NotAgain /\ AllLookedUp

LEMMA InitFacts ==
  ASSUME Init
  PROVE  FInv
<1>1. DOMAIN results = 1..0 /\ DOMAIN strip = {} /\ DOMAIN tasks = {}
  BY DEF Init
<1>2. Passes /\ OnlyOpen /\ AllLookedUp
  BY <1>1 DEF Init, Passes, OnlyOpen, AllLookedUp, Fetching
<1>3. ResultsSound /\ StripSound
  BY <1>1 DEF ResultsSound, StripSound, IsList
<1>4. NotAgain
  BY DEF Init, NotAgain, Fetching
<1> QED
  BY <1>2, <1>3, <1>4 DEF FInv

\* A pass starts with sound results, none of them asked for in this pass.
LEMMA EnrichFacts ==
  ASSUME NEW list, IsList(list), Len(list) \in Nat, \A i \in DOMAIN list : Sound(list[i]),
         NEW number \in 1..2, Enrich(list, number),
         Passes, pass < number
  PROVE  Passes' /\ OnlyOpen' /\ ResultsSound' /\ AllLookedUp'
<1>1. /\ results' = list /\ pass' = number /\ stage' = "wave" /\ channel' = <<>> /\ fetched' = <<>>
      /\ tasks' = tasks
  BY DEF Enrich
<1>2. \A t \in DOMAIN tasks : t[1] \in 1..number /\ t[1] # number
  BY DEF Passes
<1>3. Passes'
  BY <1>1, <1>2 DEF Passes, Fetching
<1>4. waves' \in Seq(Seq(Offerless'))
  BY <1>1, EnrichOpens DEF Offerless
<1>5. OnlyOpen'
  BY <1>1, <1>2, <1>4 DEF OnlyOpen
<1>6. ResultsSound'
  BY <1>1 DEF ResultsSound
<1>7. AllLookedUp'
  BY <1>1 DEF AllLookedUp
<1> QED
  BY <1>3, <1>5, <1>6, <1>7

LEMMA SearchFacts ==
  ASSUME FInv, Search
  PROVE  FInv'
<1>1. stage = "search" /\ pass = 0 /\ UNCHANGED <<strip, asked>>
  BY DEF Search, FInv, Passes
<1>2. CASE Ranked # <<>> /\ Enrich(SubSeq(Plain, 1, Least(Window, Len(Plain))), 1)
  <2> DEFINE n == Least(Window, Len(Plain))
             list == SubSeq(Plain, 1, n)
  <2>1. n \in Nat /\ n <= Len(Plain)
    BY PlainSound, ShoppingAssumption DEF Least
  <2> HIDE DEF n
  <2>2. \A i \in 1..n : i \in DOMAIN Plain /\ Plain[i] \in ToSet(Plain)
    BY <2>1, PlainSound DEF ToSet
  <2>3. /\ list \in Seq(ToSet(Plain)) /\ Len(list) = n
        /\ \A i \in 1..n : list[i] = Plain[i]
    BY <2>1, <2>2, SubSeqProperties
  <2> HIDE DEF list
  <2>4. DOMAIN list = 1..n
    BY <2>3, LenProperties
  <2>5. IsList(list) /\ Len(list) \in Nat /\ \A i \in DOMAIN list : Sound(list[i])
    BY <2>1, <2>2, <2>3, <2>4, PlainSound DEF IsList
  <2>6. Passes' /\ OnlyOpen' /\ ResultsSound' /\ AllLookedUp' /\ pass' = 1
    <3>1. Enrich(list, 1)
      BY <1>2 DEF list, n
    <3>2. pass' = 1
      BY <3>1 DEF Enrich
    <3> QED
      BY <1>1, <2>5, <3>1, <3>2, EnrichFacts DEF FInv
  <2>7. StripSound'
    BY <1>1 DEF FInv, StripSound
  <2>8. NotAgain'
    BY <1>1, <2>6 DEF FInv, NotAgain, Shown
  <2> QED
    BY <2>6, <2>7, <2>8 DEF FInv
<1>3. CASE stage' \in {"copy", "reply", "lost"} /\ UNCHANGED <<results, pass, tasks>>
  <2>1. Passes' /\ OnlyOpen' /\ AllLookedUp'
    BY <1>1, <1>3 DEF FInv, Passes, OnlyOpen, AllLookedUp, Fetching
  <2>2. ResultsSound' /\ StripSound'
    BY <1>1, <1>3 DEF FInv, ResultsSound, StripSound
  <2>3. NotAgain'
    BY <1>1, <1>3 DEF FInv, NotAgain, Shown, Fetching
  <2> QED
    BY <2>1, <2>2, <2>3 DEF FInv
<1> QED
  BY <1>2, <1>3 DEF Search, fetching

\* The steps within a pass leave the results, the strip and the pass alone.
LEMMA WithinPass ==
  ASSUME FInv, UNCHANGED <<results, strip, pass>>, stage \in Fetching, stage' \in Fetching \cup {"lost"},
         \A t \in (DOMAIN tasks)' : t \in DOMAIN tasks \/ t[1] = pass
  PROVE  Passes' /\ ResultsSound' /\ StripSound' /\ AllLookedUp'
<1>1. Passes'
  <2>1. pass \in 1..2 /\ \A t \in DOMAIN tasks : t[1] \in 1..pass
    BY DEF FInv, Passes
  <2>2. \A t \in (DOMAIN tasks)' : t[1] \in 1..pass
    BY <2>1
  <2> QED
    BY <2>1, <2>2 DEF Passes, Fetching
<1>2. ResultsSound' /\ StripSound'
  BY DEF FInv, ResultsSound, StripSound
<1>3. AllLookedUp'
  BY DEF AllLookedUp, Fetching
<1> QED
  BY <1>1, <1>2, <1>3

\* A wave asks for the pages of results without an offer.
LEMMA StartWaveFacts ==
  ASSUME FInv, StartWave
  PROVE  FInv'
<1> DEFINE wave == ToSet(Head(waves))
           new  == [t \in {<<pass, i>> : i \in wave} |-> now + FetchBudget(deadline - now)]
<1>1. /\ stage = "wave" /\ stage' = "drain" /\ waves # <<>>
      /\ tasks' = Filled(new, tasks) /\ waves' = Tail(waves)
      /\ asked' = [asked EXCEPT ![pass] = @ \cup {results[i].url : i \in wave}]
      /\ UNCHANGED <<results, strip, pass, channel, fetched>>
  BY DEF StartWave, Quiet
<1>2. waves \in Seq(Seq(Offerless)) /\ pass \in 1..2
  BY <1>1 DEF FInv, OnlyOpen, Passes, Fetching
<1>3. Head(waves) \in Seq(Offerless) /\ Tail(waves) \in Seq(Seq(Offerless))
  BY <1>1, <1>2, HeadTailProperties
<1>4. wave \subseteq Offerless
  BY <1>3, ElementOfSeq, LenProperties DEF ToSet
<1>5. (DOMAIN tasks)' = {<<pass, i>> : i \in wave} \cup DOMAIN tasks
  <2>1. DOMAIN new = {<<pass, i>> : i \in wave}
    OBVIOUS
  <2> HIDE DEF new
  <2> QED
    BY <1>1, <2>1, FilledFacts
<1> HIDE DEF wave, new
<1>6. \A t \in (DOMAIN tasks)' : t \in DOMAIN tasks \/ (t[1] = pass /\ t[2] \in Offerless)
  BY <1>4, <1>5
<1>7. Passes' /\ ResultsSound' /\ StripSound' /\ AllLookedUp'
  <2>1. \A t \in (DOMAIN tasks)' : t \in DOMAIN tasks \/ t[1] = pass
    BY <1>6
  <2> QED
    BY <1>1, <2>1, WithinPass DEF Fetching
<1>8. OnlyOpen'
  <2>1. Offerless' = Offerless
    BY <1>1 DEF Offerless
  <2> QED
    BY <1>1, <1>3, <1>6, <2>1 DEF FInv, OnlyOpen, Fetching
<1>9. NotAgain'
  <2>1. Offerless' = Offerless /\ Shown' = Shown
    BY <1>1 DEF Offerless, Shown
  <2>2. DOMAIN asked' = 1..2
    BY <1>1 DEF FInv, NotAgain
  <2>3. pass < 2 => asked'[2] = {}
    BY <1>1, <1>2 DEF FInv, NotAgain
  <2>4. asked'[2] \cap Shown = {}
    <3>1. CASE pass = 2
      <4>1. asked'[2] = asked[2] \cup {results[i].url : i \in wave}
        BY <1>1, <3>1 DEF FInv, NotAgain
      <4>2. \A i \in wave : results[i].url \notin Shown
        BY <1>1, <1>4, <3>1 DEF FInv, NotAgain, Fetching
      <4> QED
        BY <4>1, <4>2 DEF FInv, NotAgain
    <3>2. CASE pass < 2
      BY <2>3, <3>2
    <3> QED
      BY <1>2, <3>1, <3>2
  <2> QED
    BY <1>1, <2>1, <2>2, <2>3, <2>4 DEF FInv, NotAgain, Fetching
<1> QED
  BY <1>7, <1>8, <1>9 DEF FInv

LEMMA ReceiveFacts ==
  ASSUME FInv, Receive
  PROVE  FInv'
<1>1. /\ stage = "drain" /\ stage' \in {"wave", "drain"} /\ channel # <<>>
      /\ fetched' = Append(fetched, Head(channel)) /\ channel' = Tail(channel)
      /\ UNCHANGED <<results, strip, pass, asked, waves, tasks>>
  BY DEF Receive, Quiet
<1>2. channel \in Seq(Offerless) /\ fetched \in Seq(Offerless)
  BY <1>1 DEF FInv, OnlyOpen, Fetching
<1>3. Head(channel) \in Offerless /\ Tail(channel) \in Seq(Offerless)
  BY <1>1, <1>2, HeadTailProperties
<1>4. fetched' \in Seq(Offerless)
  BY <1>1, <1>2, <1>3, AppendProperties
<1>5. Passes' /\ ResultsSound' /\ StripSound' /\ AllLookedUp'
  BY <1>1, WithinPass DEF Fetching
<1>6. Offerless' = Offerless /\ Shown' = Shown
  BY <1>1 DEF Offerless, Shown
<1>7. OnlyOpen' /\ NotAgain'
  BY <1>1, <1>3, <1>4, <1>6 DEF FInv, OnlyOpen, NotAgain, Fetching
<1> QED
  BY <1>5, <1>7 DEF FInv

\* The steps that only move the stage within a pass, or end the request.
LEMMA MovesOnFacts ==
  ASSUME FInv, StopWaves \/ Expire \/ Tick
  PROVE  FInv'
<1>1. /\ stage \in Fetching /\ stage' \in Fetching \cup {"lost"}
      /\ UNCHANGED <<results, strip, pass, asked, waves, tasks, channel, fetched>>
  BY DEF StopWaves, Expire, Tick, Quiet, fetching, Fetching
<1>2. Passes' /\ ResultsSound' /\ StripSound' /\ AllLookedUp'
  BY <1>1, WithinPass
<1>3. Offerless' = Offerless /\ Shown' = Shown
  BY <1>1 DEF Offerless, Shown
<1>4. OnlyOpen' /\ NotAgain'
  BY <1>1, <1>3 DEF FInv, OnlyOpen, NotAgain, Fetching
<1> QED
  BY <1>2, <1>4 DEF FInv

\* A task of a pass that is over delivers to nobody.
LEMMA TaskFacts ==
  ASSUME FInv, NEW t \in DOMAIN tasks, Deliver(t) \/ GiveUp(t)
  PROVE  FInv'
<1>1. /\ UNCHANGED <<results, strip, pass, asked, stage, waves, fetched>>
      /\ (DOMAIN tasks)' = DOMAIN tasks \ {t}
  BY DEF Deliver, GiveUp, Quiet, Ended, Restrict
<1>2. Offerless' = Offerless /\ Shown' = Shown
  BY <1>1 DEF Offerless, Shown
<1>3. Passes' /\ AllLookedUp'
  BY <1>1 DEF FInv, Passes, AllLookedUp
<1>4. ResultsSound' /\ StripSound'
  BY <1>1 DEF FInv, ResultsSound, StripSound
<1>5. NotAgain'
  BY <1>1, <1>2 DEF FInv, NotAgain
<1>6. stage \in Fetching => channel' \in Seq(Offerless)
  <2>1. \/ channel' = channel
        \/ t[1] = pass /\ channel' = Append(channel, t[2])
    BY DEF Deliver, GiveUp
  <2>2. stage \in Fetching => channel \in Seq(Offerless) /\ (t[1] = pass => t[2] \in Offerless)
    BY DEF FInv, OnlyOpen
  <2> QED
    BY <2>1, <2>2, AppendProperties
<1>7. OnlyOpen'
  BY <1>1, <1>2, <1>6 DEF FInv, OnlyOpen
<1> QED
  BY <1>3, <1>4, <1>5, <1>7 DEF FInv

LEMMA ReplyFacts ==
  ASSUME FInv, Reply
  PROVE  FInv'
<1>1. /\ stage = "reply" /\ stage' \in {"answered", "lost"}
      /\ UNCHANGED <<strip, pass, asked, tasks>>
      /\ results' = IF pass = 2 THEN results ELSE Returned
  BY DEF Reply, fetching
<1>2. Passes' /\ OnlyOpen' /\ AllLookedUp'
  BY <1>1 DEF FInv, Passes, OnlyOpen, AllLookedUp, Fetching
<1>3. ResultsSound' /\ StripSound'
  BY <1>1, ReturnedSound DEF FInv, ResultsSound, StripSound
<1>4. NotAgain'
  BY <1>1 DEF FInv, NotAgain, Shown, Fetching
<1> QED
  BY <1>2, <1>3, <1>4 DEF FInv

\* A result that was not looked up yet says so now, and keeps that it has no offer.
LEMMA MissedSound ==
  ASSUME NEW r, Sound(r), r.provenance = NoOffer, NEW t
  PROVE  LET new == [r EXCEPT !.provenance = [url |-> r.url, observed |-> t, source |-> "none"]]
         IN Sound(new) /\ LookedUp(new) /\ new.url = r.url
<1> DEFINE p   == [url |-> r.url, observed |-> t, source |-> "none"]
           new == [r EXCEPT !.provenance = p]
<1>1. r.offer = NoOffer
  BY DEF Sound, Honest, NoOffer
<1>2. p # NoOffer /\ p.source = "none"
  <2>1. DOMAIN p = {"url", "observed", "source"} /\ DOMAIN NoOffer = {"source"}
    BY DEF NoOffer
  <2>2. p # NoOffer
    BY <2>1
  <2> QED
    BY <2>2
<1> HIDE DEF p
<1>3. /\ DOMAIN new = ResultFields /\ new.url = r.url
      /\ new.provenance = p /\ new.offer = NoOffer
  BY <1>1 DEF Sound, ResultFields
<1> HIDE DEF new
<1>4. Sound(new) /\ LookedUp(new) /\ new.url = r.url
  BY <1>2, <1>3 DEF Sound, Honest, OneSignal, LookedUp
<1> QED
  BY <1>4 DEF new, p

\* When a pass ends, every result has been looked up.
LEMMA EnrichedSound ==
  ASSUME FInv, stage = "attach"
  PROVE  /\ DOMAIN Enriched = DOMAIN results
         /\ \A i \in DOMAIN results : Sound(Enriched[i]) /\ LookedUp(Enriched[i])
<1>1. DOMAIN Enriched = DOMAIN results
  BY DEF Enriched
<1>2. ToSet(fetched) \subseteq Offerless
  <2>1. fetched \in Seq(Offerless)
    BY DEF FInv, OnlyOpen, Fetching
  <2> QED
    BY <2>1, ElementOfSeq, LenProperties DEF ToSet
<1>3. ASSUME NEW i \in DOMAIN results
      PROVE  Sound(Enriched[i]) /\ LookedUp(Enriched[i])
  <2> DEFINE r == results[i]
  <2>1. Sound(r)
    BY DEF FInv, ResultsSound
  <2>2. CASE i \in ToSet(fetched)
    <3>1. r.offer = NoOffer
      BY <1>2, <2>2 DEF Offerless, NoOfferAt
    <3>2. Enriched[i] = Attach(r, Extract(Content[r.url], r.host, now))
      BY <2>2 DEF Enriched
    <3> HIDE DEF r
    <3> QED
      BY <2>1, <3>1, <3>2, AttachSound
  <2>3. CASE i \notin ToSet(fetched) /\ r.provenance = NoOffer
    <3>1. Enriched[i] = [r EXCEPT !.provenance = [url |-> r.url, observed |-> now, source |-> "none"]]
      BY <2>3 DEF Enriched
    <3> HIDE DEF r
    <3> QED
      BY <2>1, <2>3, <3>1, MissedSound
  <2>4. CASE i \notin ToSet(fetched) /\ r.provenance # NoOffer
    <3>1. Enriched[i] = r
      BY <2>4 DEF Enriched
    <3> QED
      BY <2>1, <2>4, <3>1 DEF LookedUp
  <2> QED
    BY <2>2, <2>3, <2>4
<1> QED
  BY <1>1, <1>3

\* The strip shows results that have an offer.
LEMMA StripShows ==
  ASSUME NEW list, IsList(list), \A i \in DOMAIN list : Sound(list[i]) /\ LookedUp(list[i])
  PROVE  \A i \in DOMAIN Strip(list) :
           Sound(Strip(list)[i]) /\ LookedUp(Strip(list)[i]) /\ Strip(list)[i].offer # NoOffer
<1> DEFINE S     == {i \in DOMAIN list : list[i].offer # NoOffer}
           found == Ascending(S)
           all   == WithOffer(list)
           n     == Least(Len(all), TopN)
           first == SubSeq(all, 1, n)
           Good(r) == Sound(r) /\ LookedUp(r) /\ r.offer # NoOffer
<1>1. found \in Seq(S) /\ DOMAIN found = 1..Cardinality(S) /\ Cardinality(S) \in Nat
  BY AscendingList, Positions
<1>2. all = [k \in DOMAIN found |-> list[found[k]]]
  BY DEF WithOffer
<1>3. \A k \in DOMAIN found : found[k] \in S
  BY <1>1, ElementOfSeq, LenProperties
<1> HIDE DEF found, all
<1>4. DOMAIN all = 1..Cardinality(S) /\ Len(all) = Cardinality(S) /\ \A k \in DOMAIN all : Good(all[k])
  <2>1. \A k \in DOMAIN found : Good(list[found[k]])
    BY <1>3
  <2> HIDE DEF Good, S
  <2>2. DOMAIN all = 1..Cardinality(S)
    BY <1>1, <1>2
  <2>3. Len(all) = Cardinality(S)
    BY <1>1, <1>2
  <2> QED
    BY <1>2, <2>1, <2>2, <2>3
<1> HIDE DEF S, Good
<1>5. n \in Int /\ n <= Len(all)
  BY <1>1, <1>4, ShoppingAssumption DEF Least
<1> HIDE DEF n
<1>6. \A k \in 1..n : k \in DOMAIN all /\ all[k] \in ToSet(all)
  BY <1>1, <1>4, <1>5 DEF ToSet
<1>7. /\ first \in Seq(ToSet(all)) /\ Len(first) = IF 1 <= n THEN n ELSE 0
      /\ \A k \in 1..n : first[k] = all[k]
  BY <1>5, <1>6, SubSeqProperties
<1> HIDE DEF first
<1>8. DOMAIN first = 1..n
  BY <1>5, <1>7, LenProperties
<1>9. \A k \in DOMAIN first : Good(first[k])
  BY <1>4, <1>6, <1>7, <1>8
<1>10. Strip(list) = Linked(first)
  BY DEF Strip, first, n, all
<1> QED
  BY <1>9, <1>10, LinkedSound DEF Good

LEMMA AttachFactsFacts ==
  ASSUME FInv, AttachFacts
  PROVE  FInv'
<1>1. /\ stage = "attach" /\ UNCHANGED <<pass, tasks, asked>> /\ pass > 0
      /\ stage' \in {"copy", "reply"}
  BY DEF AttachFacts, fetching, FInv, Passes, Fetching
<1>2. /\ DOMAIN Enriched = DOMAIN results /\ IsList(Enriched)
      /\ \A i \in DOMAIN Enriched : Sound(Enriched[i]) /\ LookedUp(Enriched[i])
  BY <1>1, EnrichedSound DEF FInv, ResultsSound, IsList
<1>3. CASE pass = 1 /\ strip' = Strip(Enriched) /\ UNCHANGED results
  <2>1. Passes' /\ OnlyOpen' /\ AllLookedUp'
    BY <1>1, <1>3 DEF FInv, Passes, OnlyOpen, AllLookedUp, Fetching
  <2>2. ResultsSound'
    BY <1>3 DEF FInv, ResultsSound
  <2>3. StripSound'
    BY <1>2, <1>3, StripShows DEF StripSound
  <2>4. NotAgain'
    BY <1>1, <1>3 DEF FInv, NotAgain, Fetching
  <2> QED
    BY <2>1, <2>2, <2>3, <2>4 DEF FInv
<1>4. CASE pass = 2 /\ results' = Linked(Enriched) /\ stage' = "reply" /\ UNCHANGED strip
  <2>1. Passes' /\ OnlyOpen'
    BY <1>1, <1>4 DEF FInv, Passes, OnlyOpen, Fetching
  <2>2. /\ DOMAIN Linked(Enriched) = DOMAIN Enriched
        /\ \A i \in DOMAIN Enriched : Sound(Linked(Enriched)[i]) /\ LookedUp(Linked(Enriched)[i])
    BY <1>2, LinkedSound
  <2>3. ResultsSound' /\ AllLookedUp'
    BY <1>2, <1>4, <2>2 DEF ResultsSound, AllLookedUp, IsList
  <2>4. StripSound'
    BY <1>4 DEF FInv, StripSound
  <2>5. NotAgain'
    BY <1>1, <1>4 DEF FInv, NotAgain, Shown, Fetching
  <2> QED
    BY <2>1, <2>3, <2>4, <2>5 DEF FInv
<1> QED
  BY <1>3, <1>4 DEF AttachFacts

\* A result of the search takes offer and provenance from the strip together.
LEMMA ReplaySound ==
  ASSUME FInv
  PROVE  /\ IsList(Replay(Returned)) /\ Len(Replay(Returned)) \in Nat
         /\ DOMAIN Replay(Returned) = DOMAIN Returned
         /\ \A i \in DOMAIN Returned :
              /\ Sound(Replay(Returned)[i])
              /\ Replay(Returned)[i].offer = NoOffer => Replay(Returned)[i].url \notin Shown
<1> DEFINE list == Replay(Returned)
<1>1. DOMAIN list = DOMAIN Returned
  BY DEF Replay
<1>2. IsList(list)
  BY <1>1, ReturnedSound DEF IsList
<1>3. Len(list) \in Nat
  <2>1. DOMAIN Returned = 1..Len(Returned) /\ Len(Returned) \in Nat
    BY ReturnedSound
  <2>2. Len(list) = Len(Returned)
    BY <2>1 DEF Replay
  <2> QED
    BY <2>1, <2>2
<1>4. ASSUME NEW i \in DOMAIN Returned
      PROVE  Sound(list[i]) /\ (list[i].offer = NoOffer => list[i].url \notin Shown)
  <2> DEFINE r == Returned[i]
             same == {s \in ToSet(strip) : s.url = r.url}
             s == CHOOSE x \in same : TRUE
  <2>1. Sound(r) /\ r.offer = NoOffer
    BY ReturnedSound
  <2>2. CASE same = {}
    <3>1. list[i] = r
      BY <2>2 DEF Replay
    <3>2. r.url \notin Shown
      BY <2>2 DEF Shown
    <3> QED
      BY <2>1, <3>1, <3>2
  <2>3. CASE same # {}
    <3>1. list[i] = [r EXCEPT !.offer = s.offer, !.provenance = s.provenance]
      BY <2>3 DEF Replay
    <3>2. s \in ToSet(strip) /\ s.url = r.url
      BY <2>3
    <3>3. Sound(s) /\ s.offer # NoOffer
      BY <3>2 DEF FInv, StripSound, ToSet
    <3> HIDE DEF s, r, list
    <3>4. /\ DOMAIN list[i] = ResultFields /\ list[i].url = s.url
          /\ list[i].offer = s.offer /\ list[i].provenance = s.provenance
      BY <2>1, <3>1, <3>2 DEF Sound, ResultFields
    <3>5. Sound(list[i])
      BY <3>3, <3>4 DEF Sound, Honest, OneSignal
    <3> QED
      BY <3>3, <3>4, <3>5
  <2> QED
    BY <2>2, <2>3
<1> QED
  BY <1>1, <1>2, <1>3, <1>4

LEMMA CopyFactsFacts ==
  ASSUME FInv, CopyFacts
  PROVE  FInv'
<1> DEFINE list == Replay(Returned)
<1>1. stage = "copy" /\ Enrich(list, 2) /\ UNCHANGED <<strip, asked>>
  BY DEF CopyFacts
<1>2. Passes /\ pass < 2
  BY <1>1 DEF FInv, Passes
<1>3. /\ IsList(list) /\ Len(list) \in Nat /\ \A i \in DOMAIN list : Sound(list[i])
      /\ \A i \in DOMAIN list : list[i].offer = NoOffer => list[i].url \notin Shown
  BY ReplaySound
<1>4. results' = list /\ pass' = 2
  BY <1>1 DEF Enrich
<1> HIDE DEF list
<1>5. Passes' /\ OnlyOpen' /\ ResultsSound' /\ AllLookedUp'
  BY <1>1, <1>2, <1>3, EnrichFacts
<1>6. StripSound'
  BY <1>1 DEF FInv, StripSound
<1>7. NotAgain'
  <2>1. Shown' = Shown
    BY <1>1 DEF Shown
  <2>2. \A i \in Offerless' : results'[i].url \notin Shown
    BY <1>3, <1>4 DEF Offerless, NoOfferAt
  <2> QED
    BY <1>1, <1>2, <1>4, <2>1, <2>2 DEF FInv, NotAgain
<1> QED
  BY <1>5, <1>6, <1>7 DEF FInv

LEMMA StepFacts ==
  ASSUME FInv, [Next]_vars
  PROVE  FInv'
<1>1. CASE UNCHANGED vars
  <2>1. Offerless' = Offerless /\ Shown' = Shown
    BY <1>1 DEF vars, Offerless, Shown
  <2>2. Passes' /\ OnlyOpen' /\ NotAgain' /\ AllLookedUp'
    BY <1>1, <2>1 DEF vars, fetching, FInv, Passes, OnlyOpen, NotAgain, AllLookedUp
  <2>3. ResultsSound' /\ StripSound'
    BY <1>1 DEF vars, FInv, ResultsSound, StripSound
  <2> QED
    BY <2>2, <2>3 DEF FInv
<1>2. CASE Answered
  BY <1>1, <1>2 DEF Answered
<1> QED
  BY <1>1, <1>2, SearchFacts, StartWaveFacts, MovesOnFacts, ReceiveFacts, AttachFactsFacts,
     CopyFactsFacts, ReplyFacts, TaskFacts DEF Next

THEOREM FactsInvariant == Spec => []FInv
<1>1. Init => FInv
  BY InitFacts
<1>2. FInv /\ [Next]_vars => FInv'
  BY StepFacts
<1> QED
  BY <1>1, <1>2, PTL DEF Spec

\* What the answer names as the source of a fact is where it is from, and what
\* was looked up in vain says so: the strip and the results of both passes.
THEOREM ProvenanceIsHonest == Spec => []ProvenanceHonest
<1>1. FInv => ProvenanceHonest
  <2> SUFFICES ASSUME FInv, stage = "answered",
                      NEW r \in ToSet(strip) \cup (IF pass = 2 THEN ToSet(results) ELSE {})
               PROVE  LookedUp(r) /\ Honest(r)
    BY DEF ProvenanceHonest, LookedUp, Honest
  <2>1. CASE r \in ToSet(strip)
    BY <2>1 DEF FInv, StripSound, Sound, ToSet
  <2>2. CASE r \in ToSet(results) /\ pass = 2
    BY <2>2 DEF FInv, ResultsSound, AllLookedUp, Sound, ToSet
  <2> QED
    BY <2>1, <2>2
<1> QED
  BY <1>1, FactsInvariant, PTL

\* A page whose facts are in the strip is not asked for again.
THEOREM ShownIsNotFetchedAgain == Spec => []NoFactFetchedAgain
<1>1. FInv => NoFactFetchedAgain
  BY DEF FInv, NotAgain, Shown, NoFactFetchedAgain
<1> QED
  BY <1>1, FactsInvariant, PTL

\* The prices of an offer are those of the first signal of its page that states any,
\* with a container's price beside them only if they are no price, whatever the
\* pages state.
THEOREM PricesAreAsStated == Spec => []PricesAsStated
<1>1. FInv => PricesAsStated
  BY DEF FInv, ResultsSound, StripSound, Sound, OneSignal, ToSet, PricesAsStated
<1> QED
  BY <1>1, FactsInvariant, PTL

===============================================================================
