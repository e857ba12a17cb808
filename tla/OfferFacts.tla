------------------------------ MODULE OfferFacts ------------------------------
(***************************************************************************)
(* What extract_commerce_offer reads off a product page: JSON-LD nodes,    *)
(* OpenGraph tags, microdata, an h-product and price containers, each only *)
(* adding what the ones before it left open, and what becomes of the       *)
(* offers: the strip of results to show and the comparison of merchants.   *)
(*                                                                         *)
(* The facts of a page are a function from the fields it states to their   *)
(* values.  Values are abstract, prices and identifiers numbers and words. *)
(***************************************************************************)
EXTENDS Integers, Sequences, SequencesExt, FiniteSetsExt, Functions, TLC

NoFacts == <<>>
Has(facts, f) == f \in DOMAIN facts
Only(facts, fields) == Restrict(facts, DOMAIN facts \cap fields)

PriceGroup == {"price", "low", "high", "count"}
\* What facts leave open is filled by more.
Filled(facts, more) ==
  [f \in DOMAIN facts \cup DOMAIN more |-> IF f \in DOMAIN facts THEN facts[f] ELSE more[f]]

Priced(facts) == DOMAIN facts \cap {"price", "low"} # {}

\* Mutant: every field is filled on its own.
MergeEachField(dst, src) == Filled(dst, src)

\* merge_offer_facts: src fills what dst leaves open; its prices count as one
\* field, so that those of two signals are never mixed.
Merge(dst, src) ==
  Filled(dst, IF DOMAIN dst \cap {"price", "low", "high"} # {}
              THEN Only(src, DOMAIN src \ PriceGroup) ELSE src)

\* The first of several statements of a field counts.
FirstStated(tags) ==
  [f \in {tags[i].field : i \in DOMAIN tags} |->
     tags[Min({i \in DOMAIN tags : tags[i].field = f})].value]

\* Prices are a sequence of <<amount, currency>>, the currency "" if unstated.
Amounts(prices) == {p[1] : p \in ToSet(prices)}
Currencies(prices) == {p[2] : p \in ToSet(prices)}
Known(currency) == IF currency = "" THEN NoFacts ELSE "currency" :> currency

RangeOf(prices) ==
  "low" :> Min(Amounts(prices)) @@ "high" :> Max(Amounts(prices))
    @@ "count" :> Len(prices)

-------------------------------------------------------------------------------
(* JSON-LD *)

CommerceTypes == {"product", "offer", "aggregateoffer", "software", "video", "service"}
CommerceNodes(nodes) == SelectSeq(nodes, LAMBDA n : n.type \in CommerceTypes)

CurrencyOf(node) == IF Has(node, "currency") THEN node.currency ELSE "USD"

\* An aggregate offer states a range, and its lower end as the price.
Aggregate(facts, node) ==
  IF node.type # "aggregateoffer" THEN facts
  ELSE LET low  == IF Has(node, "low") THEN "low" :> node.low @@ "price" :> node.low ELSE NoFacts
           cur  == IF Has(node, "low") THEN "currency" :> CurrencyOf(node) ELSE NoFacts
       IN low @@ Only(node, {"high", "count"}) @@ facts @@ cur

Described == {"availability", "condition", "sku", "gtin", "rating", "merchant", "currency", "name"}

\* Several distinct offers are a range; a single one is the price.
MergeNodes(nodes) ==
  LET facts  == FoldLeft(LAMBDA f, n : Aggregate(f, n) @@ Only(n, Described), NoFacts, nodes)
      single == SelectSeq(nodes, LAMBDA n : n.type # "aggregateoffer" /\ Has(n, "price"))
      prices == [i \in DOMAIN single |-> <<single[i].price, CurrencyOf(single[i])>>]
      agreed == IF Cardinality(Currencies(prices)) = 1
                THEN "currency" :> prices[1][2] ELSE NoFacts
  IN CASE prices = <<>>    -> facts
       [] Len(prices) = 1  -> "price" :> prices[1][1] @@ facts @@ agreed @@ "count" :> 1
       [] OTHER            -> RangeOf(prices) @@ agreed @@ facts

-------------------------------------------------------------------------------
(* OpenGraph and the h-product *)

OpenGraphFields ==
  {"price", "currency", "availability", "condition", "merchant", "gtin", "rating"}

OpenGraph(tags) ==
  LET facts == Only(FirstStated(tags), OpenGraphFields) IN
  IF DOMAIN facts \cap {"price", "availability", "merchant", "gtin", "rating"} # {}
  THEN facts ELSE NoFacts

\* Only the first price counts, even if it is no number (a range is none).
HProduct(tags) ==
  LET facts   == FirstStated(tags)
      unread  == IF Has(facts, "price") /\ facts.price = "unreadable" THEN {"price"} ELSE {}
      stated  == {"price", "currency", "availability", "merchant", "condition", "sku", "gtin", "image"}
  IN Only(facts, stated \ unread)

-------------------------------------------------------------------------------
(* Microdata *)

\* A closing tag leaves the innermost scope if that was opened by a tag of the
\* same name; an element without a scope in between may be the one it closes.
Close(s, tag) ==
  IF s.scopes # <<>> /\ Last(s.scopes).tag = tag.name
  THEN [s EXCEPT !.scopes = Front(@)] ELSE s

Fill(s, field, value) == [s EXCEPT !.facts = @ @@ (field :> value)]

Take(s, tag) ==
  CASE tag.prop = "price" -> [s EXCEPT !.prices = @ \o tag.value]
    [] tag.prop = "name"  ->
         Fill(s, IF Last(s.scopes).kind = "other" THEN "merchant" ELSE "name", tag.value)
    [] tag.prop \in {"brand", "seller"} -> Fill(s, "merchant", tag.value)
    [] OTHER              -> Fill(s, tag.prop, tag.value)

\* A brand written as a scope with its name in an attribute counts anywhere,
\* other properties only inside a product or an offer.
Open(s, tag) ==
  LET in == IF tag.scope = "none" THEN s
            ELSE [s EXCEPT !.scopes = Append(@, [kind |-> tag.scope, tag |-> tag.name])]
      brand == IF tag.scope = "other" /\ tag.prop = "brand"
               THEN Fill(in, "merchant", tag.value) ELSE in
      inProduct == \E x \in ToSet(in.scopes) : x.kind \in {"product", "offer"}
  IN IF inProduct /\ tag.prop # "none" THEN Take(brand, tag) ELSE brand

Telling == {"price", "low", "currency", "availability", "merchant", "condition", "sku", "gtin", "rating"}
IfTelling(facts) == IF DOMAIN facts \cap Telling # {} THEN facts ELSE NoFacts

\* s: what the tags left
Priceable(s) ==
  LET agreed == IF Cardinality(Currencies(s.prices)) = 1 THEN Known(s.prices[1][2]) ELSE NoFacts
  IN CASE s.prices = <<>>   -> s.facts
       [] Len(s.prices) = 1 -> "price" :> s.prices[1][1] @@ s.facts @@ agreed @@ "count" :> 1
       [] OTHER             -> RangeOf(s.prices) @@ s.facts @@ agreed

Microdata(tags) ==
  LET start == [scopes |-> <<>>, facts |-> NoFacts, prices |-> <<>>]
      step(s, t) == IF t.close THEN Close(s, t) ELSE Open(s, t)
  IN IfTelling(Priceable(FoldLeft(step, start, tags)))

-------------------------------------------------------------------------------
(* The page as a whole *)

\* Four kinds of price containers, each tried in turn; two of them say nothing
\* of the currency.
MaxPrice == 10000000
ContainerPrice(found) ==
  LET sane == {i \in DOMAIN found : found[i].amount > 0 /\ found[i].amount < MaxPrice}
      best == found[Min(sane)]
  IN IF sane = {} THEN NoFacts
     ELSE "price" :> best.amount
            @@ "currency" :> (IF best.kind \in {"meta", "data"} THEN "USD" ELSE best.currency)

\* A signal that only steps in for a missing price, one that always supplements.
IfUnpriced(offer, name, found) ==
  IF Priced(offer.facts) \/ found = NoFacts THEN offer
  ELSE [facts |-> Merge(offer.facts, found), source |-> IF offer.source = "none" THEN name ELSE offer.source]

Supplement(offer, name, found) ==
  IF found = NoFacts THEN offer
  ELSE [facts |-> Merge(offer.facts, found), source |-> IF offer.source = "none" THEN name ELSE offer.source]

FromNodes(nodes) ==
  IF nodes = <<>> THEN [facts |-> NoFacts, source |-> "none"]
  ELSE [facts |-> MergeNodes(nodes), source |-> "json-ld"]

FromContainers(offer, found) ==
  IF Priced(offer.facts) \/ found = NoFacts THEN offer
  ELSE [facts |-> Filled(found, offer.facts), source |-> "extracted_from_text"]

\* What the page says, and the signal that is named as its source.
WithMarkup(offer, page) ==
  IfUnpriced(Supplement(offer, "microdata", Microdata(page.micro)), "microformats2", HProduct(page.hproduct))

Read(page) ==
  FromContainers(WithMarkup(IfUnpriced(FromNodes(CommerceNodes(page.nodes)), "og", OpenGraph(page.meta)), page),
                 ContainerPrice(page.containers))

\* data_has_fact.
FactFields ==
  {"price", "low", "currency", "availability", "merchant", "condition", "sku", "gtin", "rating", "image"}

\* The host stands in for a merchant nobody named, which is no fact.
Observed(offer, host, now) ==
  [facts    |-> Filled(offer.facts, [f \in {"merchant"} |-> host]),
   source   |-> offer.source,
   observed |-> now,
   hasFact  |-> DOMAIN offer.facts \cap FactFields # {}]

Extract(page, host, now) == Observed(Read(page), host, now)

-------------------------------------------------------------------------------
(* Offers side by side *)

ProductId(offer) ==
  CASE Has(offer.facts, "gtin") -> offer.facts.gtin
    [] ~Has(offer.facts, "gtin") /\ Has(offer.facts, "sku") -> offer.facts.sku
    [] OTHER -> "none"

\* Cheapest first, by the number alone; offers without a price come last.
CheaperFirst(a, b) ==
  \/ Has(a.facts, "price") /\ ~Has(b.facts, "price")
  \/ Has(a.facts, "price") /\ Has(b.facts, "price") /\ a.facts.price < b.facts.price

\* build_offer_comparisons: products that at least two of the offers name.
Comparisons(offers) ==
  LET named == SelectSeq(offers, LAMBDA o : ProductId(o) # "none")
      of(id) == SelectSeq(named, LAMBDA o : ProductId(o) = id)
      before(i, j, s) == CheaperFirst(s[i], s[j]) \/ (~CheaperFirst(s[j], s[i]) /\ i < j)
      sorted(s) == LET order == SetToSortSeq(DOMAIN s, LAMBDA i, j : before(i, j, s))
                   IN [k \in DOMAIN s |-> s[order[k]]]
  IN {[product |-> id, offers |-> sorted(of(id)),
       mixed |-> Cardinality({o.observed : o \in ToSet(of(id))}) > 1] :
        id \in {ProductId(o) : o \in {x \in ToSet(named) : Len(of(ProductId(x))) > 1}}}
===============================================================================
