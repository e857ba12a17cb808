---------------------------- MODULE QueryReading ----------------------------
(***************************************************************************)
(* What handle_search takes a query to ask for: the operators the gateway  *)
(* reads itself, a price bound in plain words, the terms it falls back on  *)
(* when the intent engine is silent, and the intent after the contract and *)
(* the rules that override it.                                             *)
(*                                                                         *)
(* Data: an operator is one word of the query, Operator[w] its [op, value, *)
(* negated].  Amount[w] is the number a word of digits stands for and      *)
(* CurrencyOf[w] the currency a word names.  signals is the set of the     *)
(* word lists that the text of the query matches.                          *)
(***************************************************************************)
EXTENDS Negation

CONSTANTS Operator, Amount, CurrencyOf

Operators(q) == Keep(q, LAMBDA w : Is("operator", w))

TopDomains == {"edu", "gov", "org", "com", "net", "io", "dev", "ai", "co"}

\* One operator of the query; an exclusion of a type or a site is a negative term.
ReadOperator(c, w) ==
  LET o == Operator[w] IN
  CASE o.op \in {"types", "sites"} /\ o.negated -> [c EXCEPT !.negative = Append(@, <<w>>)]
    [] o.op = "types" /\ ~o.negated -> [c EXCEPT !.types = @ \cup {o.value}]
    [] o.op = "sites" /\ ~o.negated ->
         IF Is("host", o.value) \/ o.value \in TopDomains THEN [c EXCEPT !.sites = @ \cup {o.value}] ELSE c
    [] o.op = "not" -> [c EXCEPT !.hard = @ \cup {o.value}]
    [] o.op = "lang" -> [c EXCEPT !.language = o.value]
    [] OTHER -> TakeItem(c, o)

\* Without an operator the words of five languages are counted, English otherwise.
SpokenLanguage(q) ==
  LET speaks(lang) == Of(lang, q) # {} IN
  CASE speaks("fr") -> "fr"
    [] ~speaks("fr") /\ speaks("de") -> "de"
    [] ~speaks("fr") /\ ~speaks("de") /\ speaks("es") -> "es"
    [] OTHER -> IF ~speaks("fr") /\ ~speaks("de") /\ speaks("nl") THEN "nl" ELSE "en"

\* quotes: the phrases between quotation marks
GatewayConstraints(q, quotes) ==
  LET read == FoldLeft(ReadOperator, [NoConstraints EXCEPT !.phrases = quotes], Operators(q)) IN
  [read EXCEPT !.language = Or(@, NoLanguage, SpokenLanguage(q))]

---------------------------------------------------------------------------
\* Whatever marks an upper bound, in the order in which it is tried.
UpperMarkers ==
  << <<"under">>, <<"below">>, <<"less", "than">>, <<"cheaper", "than">>, <<"max">>, <<"maximum">>,
     <<"at", "most">>, <<"no", "more", "than">>, <<"within">>, <<"up", "to">>, <<"around">>, <<"about">>, <<"budget">> >>

NoBound == [amount |-> NoPrice, currency |-> NoCurrency]
Times(w) == IF Is("lakh", w) THEN 100000 ELSE If(Is("crore", w), 10000000, 1)
Currencies(q, positions) == {CurrencyOf[q[k]] : k \in positions} \ {NoCurrency}

\* The first amount after the marker, unless it measures something else or no
\* currency stands before it or close behind it.
BoundAfter(q, marker) ==
  LET starts == {i \in DOMAIN q : At(q, i, marker)}
      from == Min(starts) + Len(marker)
      amounts == {k \in from..Len(q) : Is("digits", q[k])}
      k == Min(amounts)
      before == Currencies(q, from..(k - 1))
      behind == Currencies(q, (k + 1)..Least(k + 3, Len(q)))
      factor == If(k < Len(q), Times(q[k + 1]), 1)
  IN IF starts = {} \/ amounts = {} THEN NoBound
     ELSE IF (k < Len(q) /\ Is("measure", q[k + 1])) \/ before \cup behind = {} THEN NoBound
     ELSE [amount |-> Amount[q[k]] * factor, currency |-> CHOOSE c \in IF before # {} THEN before ELSE behind : TRUE]

\* Currency and amount, or amount and currency, in front of a marker.
BoundBefore(q) ==
  LET marked(i) == \E m \in ToSet(UpperMarkers) : At(q, i, m)
      amount(i) == i \in DOMAIN q /\ Is("digits", q[i])
      money(i) == i \in DOMAIN q /\ CurrencyOf[q[i]] # NoCurrency
      first == {i \in DOMAIN q : money(i) /\ amount(i + 1) /\ marked(i + 2)}
      second == {i \in DOMAIN q : amount(i) /\ money(i + 1) /\ marked(i + 2) /\ ~Is("measure", q[i + 1])}
  IN CASE first # {} -> [amount |-> Amount[q[Min(first) + 1]], currency |-> CurrencyOf[q[Min(first)]]]
       [] first = {} /\ second # {} -> [amount |-> Amount[q[Min(second)]], currency |-> CurrencyOf[q[Min(second) + 1]]]
       [] OTHER -> NoBound

PriceInWords(q) ==
  LET after == SelectSeq(UpperMarkers, LAMBDA m : BoundAfter(q, m) # NoBound) IN
  IF after # <<>> THEN BoundAfter(q, Head(after)) ELSE BoundBefore(q)

---------------------------------------------------------------------------
\* The engine's constraints and the gateway's.  Of the gateway's negatives,
\* language and title, URL and text operators nothing is taken.
MergeConstraints(c, own) ==
  [c EXCEPT !.types = @ \cup own.types, !.sites = @ \cup own.sites, !.phrases = @ \cup own.phrases,
            !.hard = @ \cup own.hard,
            !.after = Or(@, NoDate, own.after), !.before = Or(@, NoDate, own.before),
            !.lt = Or(own.lt, NoPrice, @), !.gt = Or(own.gt, NoPrice, @),
            !.max = Or(own.max, NoPrice, Or(@, NoPrice, own.lt)),
            !.min = Or(own.min, NoPrice, Or(@, NoPrice, own.gt))]

AddSpokenPrice(c, q) ==
  LET b == PriceInWords(q) IN
  IF c.lt = NoPrice /\ c.max = NoPrice /\ b # NoBound
  THEN [c EXCEPT !.lt = b.amount, !.max = b.amount, !.currency = b.currency] ELSE c

Plain(c) == [c EXCEPT !.positive = [i \in DOMAIN @ |-> [op |-> "plain", term |-> @[i]]]]

\* Only a place the query itself names becomes a requirement; the country is
\* only noted.
AddLocation(c, q, place) ==
  LET noted(p) == \E e \in c.entities : e.text = <<p>>
      new == {p \in {place.city, place.code} \ {NoPlace} : ~noted(p)}
  IN IF InferredLocation(q, place) THEN c
     ELSE [c EXCEPT !.entities = @ \cup {[text |-> <<p>>, role |-> "target"] : p \in new},
                    !.positive = IF place.city \in new THEN Append1(@, <<place.city>>) ELSE @]

---------------------------------------------------------------------------
\* For the degraded answer: runs of topical words, paired from their ends.
Pairs(run) ==
  LET n == Len(run)
      pair(k) == SubSeq(run, Most(n - 2 * k + 1, 1), n - 2 * k + 2)
  IN [k \in 1..((n + 1) \div 2) |-> pair(k)]

FallbackTerms(q, negative) ==
  LET topical(w) == /\ Kind[w] \cap {"letter", "operator", "dashed", "digits", "stop", "nonTopical", "noise"} = {}
                    /\ \A i \in DOMAIN negative : w \notin Words(negative[i])
      step(acc, w) == IF topical(w) THEN [acc EXCEPT !.run = Append(@, w)]
                      ELSE [terms |-> FoldLeft(Append1, acc.terms, Pairs(acc.run)), run |-> <<>>]
      end == FoldLeft(step, [terms |-> <<>>, run |-> <<>>], q)
      terms == FoldLeft(Append1, end.terms, Pairs(end.run))
      within(t) == \E i \in DOMAIN terms : Len(terms[i]) > 1 /\ t[1] \in Words(terms[i])
  IN Keep(terms, LAMBDA t : Len(t) > 1 \/ ~within(t))

\* Only the dashed words are excluded here, and the terms have no operators.
FallbackIntent(q, quotes) ==
  LET dashed == Keep(q, LAMBDA w : Is("dashed", w))
      negative == [i \in DOMAIN dashed |-> <<Bare[dashed[i]]>>]
      own == GatewayConstraints(q, quotes)
  IN [intent |-> "informational", conf |-> 3000, dist |-> <<>>,
      c |-> [own EXCEPT !.negative = negative,
                        !.positive = [i \in DOMAIN FallbackTerms(q, negative) |->
                                        [op |-> "plain", term |-> FallbackTerms(q, negative)[i]]]]]

\* Without numbers and their signal words, when two words are left; <<>> when not.
RelaxNumbers(q) ==
  LET kept == SelectSeq(q, LAMBDA w : Kind[w] \cap {"digits", "number", "numericSignal"} = {})
      operated == \E w \in Words(Operators(q)) : Operator[w].op \in {"sites", "types", "price"}
  IN IF Of("digits", q) \cup Of("number", q) = {} \/ operated \/ Len(kept) < 2 \/ kept = q THEN <<>> ELSE kept

---------------------------------------------------------------------------
\* The intent r = [intent, conf, dist, c].

Supported == <<"navigational", "informational", "technical", "how-to", "comparison", "fresh", "transactional", "local">>

Prob(r, label) == IF label \in DOMAIN r.dist THEN r.dist[label] ELSE 0
TopProb(r) == Max({0} \cup {r.dist[l] : l \in DOMAIN r.dist})
Put(r, label, p) == [r EXCEPT !.dist = [l \in DOMAIN @ \cup {label} |-> IF l = label THEN p ELSE @[l]]]
Damp(r, label, percent) ==
  IF label \in DOMAIN r.dist THEN Put(r, label, Least(Pct(r.dist[label], percent), 3000)) ELSE r
Become(r, label, conf, p) == Put([r EXCEPT !.intent = label, !.conf = Most(@, conf)], label, p)

\* Half of the leading probability is added, up to a limit.
Lead50(r, label, limit) == Least(Prob(r, label) + TopProb(r) \div 2, limit)

\* A label outside the contract gives way to the likeliest one within it.
IntentContract(r) ==
  LET known == Keep(Supported, LAMBDA l : l \in DOMAIN r.dist)
      best == FoldLeft(LAMBDA acc, l : IF r.dist[l] >= r.dist[acc] THEN l ELSE acc, Head(known), known)
  IN CASE r.intent \in ToSet(Supported) -> r
       [] r.intent \notin ToSet(Supported) /\ known # <<>> -> [r EXCEPT !.intent = best, !.conf = r.dist[best]]
       [] OTHER -> [r EXCEPT !.intent = "informational", !.conf = 3500]

Explaining(q) == \E v \in {"does", "is", "are"} : Begins(q, <<"how", v>>)
Instructing(q) == \E v \in {<<"to">>, <<"do", "i">>, <<"can", "i">>} : Begins(q, <<"how">> \o v)

\* Freshness needs a window; how something works is no instruction.
CorrectIntent(r, q, window) ==
  LET shaped == CASE r.intent # "fresh" \/ window # NoDate -> r.intent
                  [] r.intent = "fresh" /\ window = NoDate /\ Instructing(q) -> "how-to"
                  [] OTHER -> IF Explaining(q) \/ Begins(q, <<"why">>) \/ Begins(q, <<"what", "causes">>)
                              THEN "informational" ELSE r.intent
  IN [r EXCEPT !.intent = IF shaped = "how-to" /\ Explaining(q) THEN "informational" ELSE shaped]

OnlyNegative(c) == c.negative # <<>> /\ c.positive = <<>>
Unsure(r) == r.intent = "navigational" \/ r.conf < 4000

OverrideOnlyNegative(r) ==
  LET nav == Prob(r, "navigational") IN
  IF OnlyNegative(r.c) /\ r.intent # "informational" /\ r.conf < 3000
  THEN Put(Become(r, "informational", 3500, Prob(r, "informational") + nav \div 2), "navigational", nav \div 2) ELSE r

OverrideFresh(r, s) ==
  LET fresh == Become(r, "fresh", 4500, Lead50(r, "fresh", 8500)) IN
  CASE r.intent = "fresh" -> r
    [] r.intent # "fresh" /\ {"news", "newsTopic"} \subseteq s ->
         Put(fresh, "informational", Prob(fresh, "informational") + 1500)
    [] OTHER -> IF "year" \in s /\ Prob(r, "fresh") + 1500 > Prob(r, r.intent)
                THEN Put(r, "fresh", Prob(r, "fresh") + 1500) ELSE r

OverrideOtherThan(r, s) ==
  IF "otherThan" \in s /\ r.conf < 2000
  THEN Put(Put(r, "comparison", Prob(r, "comparison") + 1000), "technical", Prob(r, "technical") + 1000) ELSE r

HasLocal(q, s) == LocalIntent(q) /\ "explains" \notin s

OverrideLocal(r, q, s) ==
  IF HasLocal(q, s) /\ r.intent # "local"
  THEN Become(r, "local", 7500, Least(Prob(r, "local") + TopProb(r) \div 2 + 4000, 9000)) ELSE r

OverrideComparison(r, s) ==
  LET compared == Become(r, "comparison", 8500, 8500) IN
  IF "compares" \notin s THEN r
  ELSE IF Prob(r, "informational") > 4000 THEN Put(compared, "informational", 1500) ELSE compared

Purchase(r) == Become(r, "transactional", 8000, Least(Prob(r, "transactional") + 5000, 8800))

\* A price bound turns even a comparison into a purchase, but not a local search.
OverridePurchase(r, q, s) ==
  LET bound == HasPriceBound(r.c)
      asked == ("purchase" \in s /\ "informs" \notin s) \/ "howMuch" \in s
  IN IF /\ asked \/ bound
        /\ ~HasLocal(q, s)
        /\ r.intent # "comparison" \/ bound
        /\ r.intent # "transactional" \/ r.conf < 6000
     THEN Purchase(IF bound /\ r.intent = "comparison" THEN Damp(r, "comparison", 40) ELSE r) ELSE r

OverrideCareer(r, s) ==
  IF {"career", "job"} \subseteq s /\ r.intent = "technical"
  THEN Damp(Become(r, "informational", 7500, Least(Prob(r, "informational") + 5000, 8800)), "technical", 40) ELSE r

OverrideModel(r, s) ==
  IF "modelPrice" \in s /\ (r.intent # "transactional" \/ r.conf < 6000) THEN Purchase(r) ELSE r

OverrideDownload(r, s) ==
  IF "download" \notin s THEN r
  ELSE Put(Become(r, "navigational", 8800, Least(Prob(r, "navigational") + 6000, 9500)), "download", 9000)

OverrideWeather(r, s) ==
  IF "weather" \in s /\ "framing" \notin s
     /\ r.intent \notin {"fresh", "local", "comparison", "transactional", "how-to", "technical", "navigational"}
  THEN Become(r, "fresh", 4500, Lead50(r, "fresh", 8500)) ELSE r

OverrideBuild(r, s) ==
  IF {"howToStart", "builds"} \subseteq s /\ Unsure(r) /\ r.intent # "technical"
  THEN Damp(Become(r, "technical", 4500, Lead50(r, "technical", 8500)), "how-to", 50) ELSE r

OverrideHowTo(r, s) ==
  IF s \cap {"howToStart", "howTo"} # {} /\ Unsure(r) /\ r.intent # "how-to"
  THEN Put(Become(r, "how-to", 4500, Lead50(r, "how-to", 8500)), "technical", Prob(r, "technical") + 1500) ELSE r

OverrideResearch(r, s) ==
  IF "research" \in s /\ Unsure(r) /\ r.intent \notin {"informational", "fresh"}
  THEN Put(Become(r, "informational", 4500, Lead50(r, "informational", 8500)), "technical", Prob(r, "technical") + 1000)
  ELSE r

\* One after the other, each on what the others have left.
OverrideIntent(r, q, s) ==
  LET topic == OverrideLocal(OverrideOtherThan(OverrideFresh(OverrideOnlyNegative(r), s), s), q, s)
      trade == OverrideModel(OverrideCareer(OverridePurchase(OverrideComparison(topic, s), q, s), s), s)
  IN OverrideResearch(OverrideHowTo(OverrideBuild(OverrideWeather(OverrideDownload(trade, s), s), s), s), s)
=============================================================================
