------------------------------ MODULE Exclusions ------------------------------
(***************************************************************************)
(* The constraints of a query: how they are sanitized, what one page makes *)
(* of an excluded term, the score a page gets from them and the pages they *)
(* drop outright.                                                          *)
(*                                                                         *)
(* Data: a term is a sequence of words.  Of two words one of which occurs  *)
(* in the other, it begins it.  A constraint record has the fields of      *)
(* NoConstraints.  page.alt is [title, url, body]: how strongly the title  *)
(* announces a comparison and how many such patterns URL and body show.    *)
(* page.price is the price a source gives beside the text; a word of Cost  *)
(* is a price in the text.  Prices are numbers in their currency, Rate[c]  *)
(* its worth in hundredths.                                                *)
(***************************************************************************)
EXTENDS PageScores

CONSTANTS
  NoPrice, NoCurrency, NoLanguage, NoHost,
  Size,        \* word -> number of letters
  Synonyms,    \* term -> the terms excluded with it
  Similar,     \* host -> the hosts known to be like it
  Rate,        \* currency -> hundredths of a dollar
  Cost         \* word that is a price -> [price, currency]

NoConstraints ==
  [positive |-> <<>>, negative |-> <<>>, soft |-> <<>>, hard |-> {}, entities |-> {},
   language |-> NoLanguage, types |-> {}, sites |-> {}, notTypes |-> {}, notSites |-> {},
   phrases |-> {}, after |-> NoDate, before |-> NoDate, intitle |-> {}, inurl |-> {}, intext |-> {},
   related |-> {}, min |-> NoPrice, max |-> NoPrice, lt |-> NoPrice, gt |-> NoPrice,
   currency |-> NoCurrency]

NegativeTermMatchesToken(t, w) ==
  \/ t = w
  \/ /\ Size[t] >= 3
     /\ t \in Within[w] \/ w \in Within[t]
     /\ 4 * Least(Size[t], Size[w]) >= 3 * Most(Size[t], Size[w])

TextMatchesNegative(text, term) ==
  IF Len(term) > 1 THEN Phrase(text, term)
  ELSE term # <<>> /\ \E w \in Words(text) : NegativeTermMatchesToken(term[1], w)

\* A segment of the URL is the term, is its site, or begins with most of it.
UrlMatchesNegative(page, term) ==
  IF Len(term) > 1 THEN Phrase(page.urlWords, term)
  ELSE \E w \in Words(page.urlWords) :
         \/ w = term[1]
         \/ Size[term[1]] >= 3 /\ term[1] \in Within[w] /\ 10 * Size[term[1]] >= 6 * Size[w]

ExpandNegatives(terms) == UNION {Synonyms[terms[i]] : i \in DOMAIN terms}

Negators == {"without", "no", "not", "never", "avoid", "avoiding", "zero", "minus", "absent", "non"}
NegatorPairs == {<<"with", "no">>, <<"free", "of">>, <<"free", "from">>, <<"instead", "of">>, <<"rather", "than">>}

\* One of the three words before the term negates it: the page does without it.
InNegatingContext(term, text) ==
  \E i \in DOMAIN text, t \in Words(term) :
    LET before == SubSeq(text, Most(i - 3, 1), i - 1) IN
    /\ \/ text[i] = t
       \/ t \in Within[text[i]] /\ 2 * (Size[text[i]] - Size[t]) <= Size[t]
    /\ \/ Words(before) \cap Negators # {}
       \/ \E p \in NegatorPairs : Phrase(before, p)

AltScore(page) ==
  Pct(page.alt.title, 70) + Pct(Least(3500 * page.alt.url, 7000), 20) + Pct(Least(600 * page.alt.body, 2500), 10)

IsAltPage(page) == AltScore(page) > 3000

---------------------------------------------------------------------------
Spoils(page, term) == TextMatchesNegative(page.title, term) \/ UrlMatchesNegative(page, term)
SpoilsBody(page, term) == ~Spoils(page, term) /\ TextMatchesNegative(page.body, term)
Framed(page, term) == InNegatingContext(term, page.title) \/ InNegatingContext(term, page.body)

\* What one excluded term does to the score of a page that is no comparison.
Penalty(page, term, n) ==
  CASE Spoils(page, term) -> If(Framed(page, term), 11800, Clamp(200 + (n - 1) * 600, 200, 2000))
    [] SpoilsBody(page, term) ->
         If(InNegatingContext(term, page.body), 11500, Clamp(2500 + (n - 1) * 500, 2500, 5000))
    [] OTHER -> One

SoftFactor(page, terms) ==
  FoldSet(LAMBDA t, acc : If((Spoils(page, t) \/ SpoilsBody(page, t)) /\ ~Framed(page, t), Pct(acc, 10), acc),
          One, ExpandNegatives(terms))

\* A comparison pays once for all the terms it mentions.
AltPenalty(page, terms) ==
  LET n == Len(terms) IN
  Least(If(n >= 4, 2500, If(n >= 2, 2000, 1500)) + Pct(AltScore(page), 25), 5000)

NegativeFactor(page, terms) ==
  LET all == ExpandNegatives(terms)
      n == Cardinality(all)
      alt == IsAltPage(page)
      unresolved == {t \in all : Penalty(page, t, n) < One}
      factor == FoldSet(LAMBDA t, acc : If(alt /\ t \in unresolved, acc, Mul(acc, Penalty(page, t, n))), One, all)
  IN If(alt /\ unresolved # {}, Mul(factor, AltPenalty(page, terms)), factor)

\* The page is about the excluded term: half its title, or one word of a short one.
Dominated(page, terms) ==
  LET all == {t \in ExpandNegatives(terms) : ~InNegatingContext(t, page.title)}
      topic == SelectSeq(page.title, LAMBDA w : "titleStop" \notin Kind[w])
      exact(w) == <<w>> \in all
      sub(w) == \E t \in all : /\ Len(t) = 1 /\ t[1] \in Within[w]
                               /\ 10 * (Size[w] - Size[t[1]]) <= 6 * Size[t[1]]
      hits == Cardinality({i \in DOMAIN topic : sub(topic[i])})
  IN /\ AltScore(page) <= 5000
     /\ topic # <<>>
     /\ \/ 2 * hits >= Len(topic)
        \/ Len(topic) <= 4 /\ \E i \in DOMAIN topic : exact(topic[i])

Matches(page, term) ==
  \A i \in DOMAIN term : \E text \in {page.title, page.body, page.urlWords} :
    term[i] \in Words(text) \/ (Size[term[i]] >= 3 /\ Has(text, term[i]))

\* Without a match the page is compared with its own URL, which lends it 0.0006.
PositiveFactor(page, terms) ==
  LET n == Len(terms)
      matched == Cardinality({i \in DOMAIN terms : Matches(page, terms[i])})
      coverage == (matched * One) \div n
      width == If(n > 1, Sqrt(coverage * One), coverage)
  IN IF n = 0 THEN One ELSE 6000 + Pct(Pct(Most(coverage, 6), 70) + Pct(Most(width, 6), 30), 130)

LanguageFactor(page, language) ==
  CASE language # NoLanguage /\ language \in page.langs -> 13000
    [] language # NoLanguage /\ language \notin page.langs /\ page.langs # {} -> 6000
    [] OTHER -> One

ConstraintScore(page, c) ==
  LET penalised == Mul(NegativeFactor(page, c.negative), SoftFactor(page, c.soft)) IN
  CASE c.positive = <<>> /\ c.negative = <<>> /\ c.soft = <<>> -> One
    [] ~(c.positive = <<>> /\ c.negative = <<>> /\ c.soft = <<>>)
       /\ c.negative # <<>> /\ Dominated(page, c.negative) -> 0
    [] OTHER -> Clamp(Mul(Mul(Most(penalised, 1200), PositiveFactor(page, c.positive)),
                          LanguageFactor(page, c.language)), 0, 20000)

---------------------------------------------------------------------------
\* text: [op, lo, hi]; a range keeps both ends, a lone number is an upper bound.
PriceRange(text) ==
  CASE text.op = "range" -> [min |-> text.lo, max |-> text.hi, lt |-> NoPrice, gt |-> NoPrice]
    [] text.op \in {">", ">="} -> [min |-> text.lo, max |-> NoPrice, lt |-> NoPrice, gt |-> text.lo]
    [] OTHER -> [min |-> NoPrice, max |-> text.lo, lt |-> text.lo, gt |-> NoPrice]

Or(x, none, y) == IF x # none THEN x ELSE y

\* Subjective words and the grammar of negation exclude nothing.
Excludable(term) == Len(term) \in 1..2 /\ \A i \in DOMAIN term : Kind[term[i]] \cap {"subjective", "grammar"} = {}

Append1(s, x) == IF \E i \in DOMAIN s : s[i] = x THEN s ELSE Append(s, x)

\* A positive item is [op, term] or an operator with its value.
TakeItem(c, item) ==
  CASE item.op = "minus" -> IF Excludable(item.term) THEN [c EXCEPT !.negative = Append1(@, item.term)] ELSE c
    [] item.op \in {"types", "sites", "intitle", "inurl", "intext", "related"} -> [c EXCEPT ![item.op] = @ \cup {item.value}]
    [] item.op \in {"after", "before"} -> [c EXCEPT ![item.op] = item.value]
    [] item.op = "price" ->
         LET p == PriceRange(item.value) IN
         [c EXCEPT !.min = Or(p.min, NoPrice, @), !.max = Or(p.max, NoPrice, @),
                   !.lt = Or(p.lt, NoPrice, @), !.gt = Or(p.gt, NoPrice, @)]
    [] OTHER -> c

\* A requirement is topical, not part of an exclusion, and not within another one.
Requirable(c, term) ==
  /\ term # <<>>
  /\ ~\E i \in DOMAIN term : Len(term) = 1 /\ Kind[term[i]] \cap {"currency", "scaffold", "grammar", "number"} # {}
  /\ \A i \in DOMAIN c.negative : ~(Words(term) \subseteq Words(c.negative[i]))
  /\ \A i \in DOMAIN c.positive :
       LET kept == Words(c.positive[i]) IN ~(kept \subseteq Words(term)) /\ ~(Words(term) \subseteq kept)

\* c with its negatives as raw terms and its positives as items
SanitizeConstraints(c) ==
  LET negatives == FoldLeft(LAMBDA acc, t : IF Excludable(t) THEN Append1(acc, t) ELSE acc, <<>>, c.negative)
      start == [c EXCEPT !.negative = negatives, !.positive = <<>>, !.soft = <<>>]
      take(acc, item) ==
        IF item.op = "plain"
        THEN IF Requirable(acc, item.term) THEN [acc EXCEPT !.positive = Append(@, item.term)] ELSE acc
        ELSE TakeItem(acc, item)
  IN FoldLeft(take, start, c.positive)

---------------------------------------------------------------------------
Usd(amount, currency) == IF currency = NoCurrency THEN amount ELSE Pct(amount, Rate[currency])

\* The price a text tells, the title before the body; the first one counts.
NoCost == [price |-> NoPrice, currency |-> NoCurrency]
CostIn(text) ==
  LET at == {i \in DOMAIN text : text[i] \in DOMAIN Cost} IN IF at = {} THEN NoCost ELSE Cost[text[Min(at)]]
Told(page) == IF CostIn(page.title) # NoCost THEN CostIn(page.title) ELSE CostIn(page.body)

\* get_price: the price given beside the text goes before what the text tells.
PriceOf(page) == IF page.price # NoPrice THEN [price |-> page.price, currency |-> page.currency] ELSE Told(page)

HasPriceBound(c) == {c.min, c.max, c.lt, c.gt} # {NoPrice}

Beyond(cost, c) ==
  LET p == Usd(cost.price, cost.currency) IN
  \/ \E b \in {c.max, c.lt} : b # NoPrice /\ p > Usd(b, c.currency)
  \/ \E b \in {c.min, c.gt} : b # NoPrice /\ p < Usd(b, c.currency)

\* Mutant: the bound is compared as the number the user typed.
PriceOutsideRaw(page, c) ==
  IF Told(page) = NoCost THEN "priceSignal" \notin page.marks
  ELSE \E b \in {c.max, c.lt} : b # NoPrice /\ Usd(Told(page).price, Told(page).currency) > b

\* The filter looks at the text alone: a text without a price must at least talk of one.
PriceOutside(page, c) ==
  IF Told(page) = NoCost THEN "priceSignal" \notin page.marks ELSE Beyond(Told(page), c)

DateOutside(page, c) ==
  LET d == ItemDate(page) IN
  /\ d # NoDate
  /\ \/ c.after # NoDate /\ ~DateGte(d, c.after)
     \/ c.before # NoDate /\ ~DateLte(d, c.before)

PhraseMissing(page, phrase) ==
  \E i \in DOMAIN phrase : \A text \in {page.title, page.body, page.urlWords} : ~Has(text, phrase[i])

\* hosts a page belongs to: its own and the ones it is a subdomain of
RelatedOnly(page, c) == c.related # {} /\ \E h \in page.hosts : \E r \in c.related : h \in Similar[r]

ShouldFilter(page, c) ==
  \/ c.types # {} /\ page.type # "none" /\ page.type \notin c.types
  \/ page.hosts \cap c.notSites # {}
  \/ page.type \in c.notTypes
  \/ /\ AltScore(page) <= 3000
     /\ \E w \in c.hard : \E text \in {page.title, page.body, page.urlWords} : Has(text, w)
  \/ c.sites # {} /\ page.hosts \cap c.sites = {}
  \/ DateOutside(page, c)
  \/ \E p \in c.phrases : PhraseMissing(page, p)
  \/ page.hosts \cap c.related # {}
  \/ HasPriceBound(c) /\ ~RelatedOnly(page, c) /\ PriceOutside(page, c)

ConstraintBoost(page, c) ==
  Least(500 * (Cardinality({w \in c.intitle : Has(page.title, w)})
               + Cardinality({w \in c.inurl : Has(page.urlWords, w)})
               + Cardinality({w \in c.intext : Has(page.body, w)})), 1500)
=============================================================================
