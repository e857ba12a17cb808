----------------------------- MODULE MergeRank -----------------------------
(***************************************************************************)
(* merge_local_and_web: the local and the web results become one list,     *)
(* each page is scored, and the list is dropped from, boosted, sorted,     *)
(* calibrated and capped.                                                  *)
(*                                                                         *)
(* Data: x is what is known of the request: query, kept and excluded (its  *)
(* words outside and inside a negation), intent, weights, c (constraints), *)
(* place, explicit, cos (page id -> cosine, where one was computed), today *)
(* and traits (what the code's patterns find in the query).  A page in the *)
(* list has sources (sequence), local, score, authority, quality, cap.     *)
(***************************************************************************)
EXTENDS QueryTerms

NoCap == -1

Mentions(page, w) == \E text \in {page.title, page.body, page.urlWords} : Has(text, w)
InText(page, w) == Has(page.title, w) \/ Has(page.body, w)
MentionsAny(page, ws) == \E i \in DOMAIN ws : Mentions(page, ws[i])
Engine(page) ==
  LET up == SelectSeq(page.sources, LAMBDA s : s # "local" /\ s # "instance") IN
  IF up # <<>> THEN Head(up) ELSE IF page.sources # <<>> THEN Head(page.sources) ELSE "local"

\* A web result with the URL of a page already listed joins it: every one of
\* them multiplies the score by 1.5.
Join(old, new) ==
  [old EXCEPT
     !.sources = FoldLeft(Append1, @, new.sources),
     !.score = If(@ > 0, Pct(@, 150), @),
     !.body = IF Len(new.body) > Len(@) THEN new.body ELSE @,
     !.published = IF old.dated THEN @ ELSE new.published,
     !.dated = @ \/ new.dated,
     !.price = Or(@, NoPrice, new.price),
     !.currency = Or(@, NoCurrency, new.currency)]

\* Local pages come first and are not compared among themselves.
MergeLists(local, web) ==
  LET add(acc, r) ==
        LET same == {i \in DOMAIN acc : acc[i].id = r.id} IN
        IF same # {} THEN [acc EXCEPT ![Max(same)] = Join(@, r)]
        ELSE Append(acc, [r EXCEPT !.authority = DomainAuthority(r), !.quality = One, !.sources = <<Head(@)>>])
  IN FoldLeft(add, local, web)

\* An engine without any date on a fresh query, while another has one.
EngineTrust(list, intent) ==
  LET engines == {Engine(list[i]) : i \in DOMAIN list} \ {"local"}
      dated == {Engine(list[i]) : i \in {j \in DOMAIN list : ItemDate(list[j]) # NoDate}} \ {"local"}
  IN [e \in engines |-> If(intent = "fresh" /\ dated # {} /\ e \notin dated, 1500, One)]

---------------------------------------------------------------------------
\* Relevance of one page.

Semantic(page, x) ==
  LET lexical == SemanticRelevance(x.kept, page) IN
  IF page.id \in DOMAIN x.cos THEN Pct(lexical, 60) + Pct(x.cos[page.id], 40) ELSE lexical

Overlap(page, x) ==
  LET core == CoreTopic(x.kept)
      terms == Distinctive(x.kept)
      found(w) == Mentions(page, w) \/ Mentions(page, Bare[w])
      present == Cardinality({i \in DOMAIN terms : Mentions(page, terms[i])})
  IN CASE \E i \in DOMAIN core : ~found(core[i]) -> 0
       [] terms = <<>> -> One
       [] OTHER -> (present * One) \div Len(terms)

Phrased(page, x, rel) ==
  LET phrases == PhraseEntities(x.kept)
      hits == {f \in phrases : \E text \in {page.title, page.body, page.urlWords} : Phrase(text, f)}
  IN CASE phrases = {} -> rel
       [] phrases # {} /\ hits = {} -> Pct(rel, 10)
       [] OTHER -> Pct(rel, 45 + ((55 * Cardinality(hits)) \div Cardinality(phrases)))

\* Half the topic is not the topic.
Partial(x, overlap, rel) ==
  LET n == Len(Distinctive(x.kept))
      partial == If(n >= 2 /\ overlap \in 1..(One - 1), Mul(rel, 2500 + Pct(overlap, 75)), rel)
  IN If(n >= 3 /\ overlap > 0 /\ overlap * n <= One, Pct(partial, 35), partial)

Topical(page, x, overlap) ==
  LET cos == IF overlap = 0 THEN 0 ELSE IF page.id \in DOMAIN x.cos THEN x.cos[page.id] ELSE overlap
      strong == Strong(x.kept)
      blended == Pct(overlap, 40) + Pct(cos, 60)
      named == If(strong # <<>> /\ ~MentionsAny(page, strong), Pct(blended, 12), blended)
  IN If("definition" \in page.marks, Clamp(Pct(named, 10), 100, 600), named)

\* Partial coverage and scattered phrases cost.
LexicalRelevance(page, x) ==
  Phrased(page, x, Partial(x, Overlap(page, x), Topical(page, x, Overlap(page, x))))

\* Pages of another kind than the one asked for.
KindRelevance(page, x, rel) ==
  LET unasked(kind) == \E w \in Words(page.title \o page.urlWords) : Is(kind, w) /\ ~Has(x.kept, w)
      map == If("sitemap" \in page.marks /\ "sitemap" \notin x.traits, Pct(rel, 5), rel)
      meta == If("wikiMeta" \in page.marks /\ "wikiMeta" \notin x.traits, Pct(map, 2), map)
      sales == CASE ~unasked("category") -> meta
                 [] unasked("category") /\ "explanatory" \in x.traits ->
                      If("explains" \in page.marks, meta, Pct(meta, 15))
                 [] OTHER -> Pct(meta, 35)
      core == CoreTopic(x.kept)
      hollow == /\ Of("superlative", x.kept) # {} /\ core # <<>>
                /\ Of("superlative", page.title) # {}
                /\ ~\E i \in DOMAIN core : Has(page.title, core[i]) \/ Has(page.title, Bare[core[i]])
  IN If(hollow, Pct(sales, 55), sales)

\* A local page of low quality has to name the topic.
LocalRelevance(page, x, rel) ==
  LET anchors == SelectSeq(Strong(x.kept), LAMBDA w : Kind[w] \cap {"structureWord", "action"} = {})
      named == \/ anchors = <<>>
               \/ \E i \in DOMAIN anchors : InText(page, anchors[i]) \/ InText(page, Bare[anchors[i]])
      subject == SelectSeq(Distinctive(x.kept), LAMBDA w : Kind[w] \cap {"structureWord", "comparator"} = {})
  IN CASE ~page.local -> rel
       [] page.local /\ page.quality < 5500 /\ ~named -> Pct(rel, 5)
       [] page.local /\ page.quality \in 5500..7499 /\ ~named -> Pct(rel, 50)
       [] OTHER ->
          If(/\ x.intent \in {"comparison", "technical"} /\ "versus" \in page.marks
             /\ subject # <<>> /\ ~\E i \in DOMAIN subject : InText(page, subject[i]), Pct(rel, 30), rel)

\* priced: some web result carries a price
PriceRelevance(page, x, priced, rel) ==
  CASE ~HasPriceBound(x.c) -> rel
    [] HasPriceBound(x.c) /\ PriceOf(page) # NoCost -> Pct(rel, If(Beyond(PriceOf(page), x.c), 12, 110))
    [] OTHER -> If("priceSignal" \notin page.marks /\ priced, Pct(rel, 45), rel)

MeaningRelevance(page, x, rel) ==
  If("meansListicle" \in page.marks /\ "definition" \notin x.traits, Least(rel, 1200), rel)

\* A seller's guide that names fewer than half the specific words of the query.
VendorSuppressed(page, x) ==
  LET strong == Strong(x.kept)
      vendor == "official_vendor" \in ToSet(page.sources)
      specific == SelectSeq(strong, LAMBDA w : ~Is("commerce", w))
      matches == Cardinality({i \in DOMAIN specific : Mentions(page, specific[i])})
  IN /\ strong # <<>>
     /\ vendor \/ page.marks \cap {"buyersGuide", "warrantySales"} # {}
     /\ ~(vendor /\ Of("vendorBrand", x.kept) # {})
     /\ specific # <<>>
     /\ matches < If(Len(specific) = 1, 1, (Len(specific) + 1) \div 2)

OffTopic(page, x) ==
  LET strong == Strong(x.kept) IN
  strong # <<>> /\ ~MentionsAny(page, strong) /\ GeoRelevance(page, x.place) = 0

\* On a fresh query: neither the topic nor a date.
FreshOffTopic(page, x) ==
  /\ x.intent = "fresh" /\ Strong(x.kept) # <<>>
  /\ ~MentionsAny(page, Strong(x.kept)) /\ ItemDate(page) = NoDate

FreshRelevance(page, x, rel) ==
  LET terms == Distinctive(x.kept)
      portal == /\ x.intent = "fresh" /\ "portalHome" \in page.shape /\ terms # <<>>
                /\ ~\E i \in DOMAIN terms : Has(page.title, terms[i])
      off == If(FreshOffTopic(page, x), Pct(rel, 12), rel)
  IN If(portal, Pct(off, 12), off)

\* Quality after the senses of the query; a claim adds what debunks it.
SenseQuality(page, x) ==
  LET sense == SenseClass(x.kept)
      guarded == Mul(Mul(ContentQuality(page), SensePenalty(sense, page)),
                     IF sense = "claim" THEN ConspiracyGuard(page)[1] ELSE One)
  IN If(page.local /\ Semantic(page, x) < 1200, Pct(guarded, 5), guarded)

Coherent(page, x, rel) ==
  LET strong == Strong(x.kept)
      excluded == UNION {Words(t) : t \in ExpandNegatives(x.c.negative)}
      says == \E w \in excluded : InText(page, w)
      cost(local, web) == Pct(rel, If(page.local, local, web))
  IN CASE SenseQuality(page, x) <= 100 -> rel
       [] SenseQuality(page, x) > 100 /\ strong # <<>> /\ ~\E i \in DOMAIN strong : InText(page, strong[i]) ->
            IF excluded = {} THEN cost(10, 25) ELSE IF says THEN cost(20, 35) ELSE cost(10, 20)
       [] OTHER -> IF strong = <<>> /\ excluded # {} /\ ~says THEN cost(20, 35) ELSE rel

DictionarySite(page) ==
  \/ page.marks \cap {"dictUrl", "dictTitle", "calculator"} # {}
  \/ page.marks \cap {"phonetic", "partOfSpeech"} # {} /\ Len(page.title) <= 3
  \/ "partOfSpeech" \in page.marks /\ "shortText" \in page.marks

AcademicUnwanted(page, x) == "academic" \in page.marks /\ "academic" \notin x.traits
Acting(x) == x.intent \in {"navigational", "transactional"} \/ "acquires" \in x.traits

\* <<relevance, quality>> after the sites that answer another question
SiteAdjusted(page, x, rel, quality) ==
  LET crushed == \/ DictionarySite(page) /\ "asksDefinition" \notin x.traits
                 \/ AcademicUnwanted(page, x) /\ Acting(x)
      lexicon(n, on) == If(on, Pct(n, 1), n)
      q1 == lexicon(quality, DictionarySite(page) /\ "asksDefinition" \notin x.traits)
      q2 == lexicon(q1, AcademicUnwanted(page, x) /\ Acting(x))
      q3 == If("wikidata" \in page.marks, Pct(q2, 5), q2)
      q4 == If(x.c.negative # <<>> /\ page.marks \cap {"wikidata", "wikipedia"} # {}, Pct(q3, 15), q3)
      r1 == If(crushed, 10, rel)
  IN <<If(AcademicUnwanted(page, x) /\ ~Acting(x), Pct(r1, 30), r1), q4>>

---------------------------------------------------------------------------
\* What is added and multiplied into the score.

NavigationBoost(page, x) ==
  LET name == x.kept
      named == x.intent = "navigational" /\ Len(name) \in 1..2
  IN CASE ~named -> 0
       [] named /\ page.hostWords = name -> If("home" \in page.shape, 4000, 2500)
       [] OTHER -> If(\A w \in Words(name) : Has(page.hostWords, w), 1000, 0)

\* The two lists of compared words differ: one counts, the other is looked for.
NamesCompared(page, x) == Cardinality({w \in OpposedEntities(x.query) : InText(page, w)})

LocalBonus(page, x, rel) ==
  LET gate == ~ComparisonQuery(x.kept) \/ OpposedEntities(x.query) = {} \/ NamesCompared(page, x) > 0 IN
  IF page.local /\ rel >= 3500 /\ gate THEN Least(Pct(rel, 45), 4500) ELSE 0

ComparedRelevance(page, x, rel) ==
  LET n == Len(ComparedTerms(x.kept)) IN
  If(ComparisonQuery(x.kept) /\ n >= 2 /\ 2 * NamesCompared(page, x) >= n, Pct(rel, 112), rel)

OneSided(page, x, rel) ==
  LET sides == OpposedEntities(x.query)
      named == {w \in sides : Mentions(page, w)}
      one == If(named # sides, Pct(rel, 35), rel)
  IN IF Cardinality(sides) < 2 THEN rel ELSE If("imagePage" \in page.marks, Pct(one, 20), one)

EffectiveAuthority(page, x) ==
  LET data == If("wikidata" \in page.marks, Pct(page.authority, 10), page.authority)
      wiki == If(x.c.negative # <<>> /\ page.marks \cap {"wikidata", "wikipedia"} # {}, Pct(data, 20), data)
  IN If(OffTopic(page, x), Pct(wiki, 30), wiki)

GenericPenalty(page, x) ==
  LET wiki == x.c.negative # <<>> /\ page.marks \cap {"wikidata", "wikipedia"} # {}
      pay == If(wiki, <<2000, 800, 400, 200>>[Least(Most(Len(x.c.negative), 1), 4)], One)
  IN If("wikidata" \in page.marks, Pct(pay, 10), pay)

MediaFactor(page, x) ==
  Mul(If(ToSet(page.sources) \cap {"invidious", "video"} # {} /\ ~VideoIntent(x.query), 800, One),
      If("audioHost" \in page.shape /\ "audio" \notin x.traits, 2500, One))

LanguageMatch(page, x) == If("latin" \in x.traits /\ "foreign" \in page.marks, 500, One)

ExclusionFactor(page, x) ==
  FoldLeft(LAMBDA acc, w : If(Mentions(page, w), Pct(acc, 30), acc), One, x.excluded)

TopicalRelevance(page, x, priced) ==
  MeaningRelevance(page, x,
    PriceRelevance(page, x, priced, LocalRelevance(page, x, KindRelevance(page, x, LexicalRelevance(page, x)))))

Suppressed(page, x, rel) == FreshRelevance(page, x, If(VendorSuppressed(page, x), Pct(rel, 30), rel))

FinalRelevance(page, x, priced) ==
  SiteAdjusted(page, x, Coherent(page, x, Suppressed(page, x, TopicalRelevance(page, x, priced))), SenseQuality(page, x))

BaseScore(page, x, rel, quality) ==
  LET silent == VendorSuppressed(page, x) \/ OffTopic(page, x) \/ FreshOffTopic(page, x)
      value == [rrf |-> page.score, semantic |-> Semantic(page, x),
                intent |-> If(silent, 0, IntentBoost(page, x.kept, x.intent)),
                freshness |-> If(silent, 0, Freshness(page, x.intent, x.today)),
                authority |-> EffectiveAuthority(page, x), quality |-> quality,
                consensus |-> Consensus(ToSet(page.sources)), local |-> LocalBonus(page, x, rel)]
  IN MapThenSumSet(LAMBDA s : Pct(value[s], x.weights[s]), DOMAIN value)
     + NavigationBoost(page, x) + GeoRelevance(page, x.place)
     + (IF SenseClass(x.kept) = "claim" THEN ConspiracyGuard(page)[2] ELSE 0)

\* An explicit page is marked with the score -1 and left in the list.
Explicit(page, x) == "explicit" \in page.marks /\ "adult" \notin x.traits

Factors(page, x, rel, trust) ==
  LET elsewhere == If(x.explicit /\ ~InferredLocation(x.query, x.place), CrossLocation(page, x.place), One) IN
  <<ConstraintScore(page, x.c), GenericPenalty(page, x), Clamp(rel, 50, One),
    MediaFactor(page, x), LanguageMatch(page, x), elsewhere,
    IF Engine(page) \in DOMAIN trust THEN trust[Engine(page)] ELSE One,
    If(VendorSuppressed(page, x), 2000, One), ExclusionFactor(page, x)>>

\* at: <<relevance, quality>>; rel: the relevance after the comparison
ScoreAt(page, x, at, rel, trust) ==
  <<FoldLeft(Mul, BaseScore(page, x, at[1], at[2]), Factors(page, x, rel, trust)), rel>>

ScoreFrom(page, x, at, trust) ==
  ScoreAt(page, x, at, OneSided(page, x, ComparedRelevance(page, x, at[1])), trust)

\* <<score, relevance>> of one page; trust: engine -> factor
Scored(page, x, priced, trust) == ScoreFrom(page, x, FinalRelevance(page, x, priced), trust)

\* The list with its scores and the relevances, in the order of the pages that have one.
ScoreAll(list, x, priced) ==
  LET trust == EngineTrust(list, x.intent)
      scored(acc, r, s) ==
        [list |-> Append(acc.list, [r EXCEPT !.score = s[1]]),
         rels |-> Append(acc.rels, s[2]),
         best |-> Most(acc.best, Semantic(r, x))]
      step(acc, r) ==
        IF Explicit(r, x) THEN [acc EXCEPT !.list = Append(@, [r EXCEPT !.score = -One])]
        ELSE scored(acc, r, Scored(r, x, priced, trust))
  IN FoldLeft(step, [list |-> <<>>, rels |-> <<>>, best |-> 0], list)
=============================================================================
