----------------------------- MODULE PageScores -----------------------------
(***************************************************************************)
(* The signals the gateway's ranking takes from one page: authority of its *)
(* URL, freshness, intent boost, quality of its text, lexical relevance,   *)
(* conflicting senses, and the calibration of the final scores.            *)
(*                                                                         *)
(* Data: a text is a sequence of words; Within[w] are the words whose      *)
(* letters occur in w (w itself among them), so that a substring test can  *)
(* differ from a whole-word test.  page.shape is what the patterns of the  *)
(* code find in a URL, page.marks what they find in its text.  Numbers are *)
(* ten-thousandths.                                                        *)
(***************************************************************************)
EXTENDS FiniteSets, FiniteSetsExt, Lists, Calendar

CONSTANTS
  Within,    \* word -> the words whose letters occur in it
  Stem,      \* word -> its stem
  Kind       \* word -> the word lists of the code it is in

One == 10000
Mul(a, b) == (a * b) \div One
Pct(a, p) == (a * p) \div 100
Clamp(x, lo, hi) == IF x < lo THEN lo ELSE IF x > hi THEN hi ELSE x
If(b, x, y) == IF b THEN x ELSE y
Least(a, b) == IF a < b THEN a ELSE b
Most(a, b) == IF a > b THEN a ELSE b

Words(text) == ToSet(text)
Has(text, w) == \E x \in Words(text) : w \in Within[x]
Phrase(text, ws) == \E i \in 0..(Len(text) - Len(ws)) : \A k \in 1..Len(ws) : text[i + k] = ws[k]
Of(kind, text) == {w \in Words(text) : kind \in Kind[w]}

\* floor of the square root, bit by bit
Sqrt(n) == FoldLeft(LAMBDA r, b : If((r + b) * (r + b) <= n, r + b, r), 0,
                    <<16384, 8192, 4096, 2048, 1024, 512, 256, 128, 64, 32, 16, 8, 4, 2, 1>>)

\* e^(-n/d), as the reciprocal of the Taylor polynomial in hundredths
Decay(n, d) ==
  LET x == Least((n * 100) \div d, 1000)
      h == FoldLeft(LAMBDA acc, k : 100 + ((x * acc) \div (100 * k)), 100, <<6, 5, 4, 3, 2, 1>>)
  IN (One * 100) \div h

---------------------------------------------------------------------------
DomainTrust(shape) ==
  CASE shape \cap {"edu", "gov"} # {} -> 3000
    [] shape \cap {"edu", "gov"} = {} /\ "org" \in shape -> 1000
    [] OTHER -> If("country" \in shape, 500, 0)

\* "report": three long segments with hyphens; "numbered": a segment of digits
StructureTrust(score, shape) ==
  LET a == score + If("report" \in shape, 3500, 0)
      b == If("numbered" \in shape, Most(a, 7500), a)
  IN b + If("longSegments" \in shape, 2000, 0)

DomainAuthority(page) ==
  LET shape == page.shape
      sig == [docHost |-> 2500, docPath |-> 2000, repo |-> 1000, version |-> 1000, bareHost |-> 1000,
              manyHosts |-> -1000, manyParams |-> -1000, spam |-> -2000, thread |-> 500]
  IN Clamp(StructureTrust(5000, shape) + DomainTrust(shape)
             + MapThenSumSet(LAMBDA s : sig[s], shape \cap DOMAIN sig), 0, One)

HalfLife(intent) ==
  CASE intent = "fresh" -> 6
    [] intent \in {"technical", "transactional"} -> 720
    [] intent = "navigational" -> 2160
    [] intent = "comparison" -> 336
    [] OTHER -> 168

\* Without a date the URL is asked: its year, then news, documentation and reports.
GuessedAge(shape) ==
  LET year == If("thisYear" \in shape, 24, 168)
      news == If(shape \cap {"news", "thread"} # {}, Least(year, 48), year)
      docs == If("docPath" \in shape, Most(news, 168), news)
  IN If(shape \cap {"report", "numbered"} # {}, Least(docs, 1), docs)

Freshness(page, intent, today) ==
  LET date == IF page.dated THEN Comparable(page.published) ELSE DateInText(page.mentions)
      age == IF date = NoDate THEN GuessedAge(page.shape)
             ELSE 24 * Most(DaysOf(today) - DaysOf(date), 0)
  IN Decay(Least(age, 24 * 365 * 20), HalfLife(intent))

IntentSignals(page, query, intent) ==
  LET shape == page.shape IN
  CASE intent = "navigational" ->
         Cardinality({i \in DOMAIN query : Has(page.hostWords, query[i])}) * If("home" \in shape, One, 5000)
         + If(shape \cap {"docPath"} # {} \/ "official" \in page.marks, 6000, 0)
    [] intent = "technical" ->
         If(shape \cap {"docPath", "package"} # {}, 5000, 0) + If("thread" \in shape, 3000, 0)
    [] intent \in {"how-to", "informational", "comparison", "fresh"} ->
         If(shape \cap {"news", "thread", "guide"} # {}, 4000, 0)
         + If(intent = "comparison" /\ "versus" \in page.marks, 3000, 0)
    [] intent = "transactional" ->
         If("shop" \in shape, 5000, 0) + If("offer" \in page.marks, 4000, 0)
    [] OTHER -> 0

\* A word that names the relation asked for is no topic; an unrequested list is demoted.
IntentBoost(page, query, intent) ==
  LET topical == {i \in DOMAIN query : "relation" \notin Kind[query[i]] /\ Has(page.title, query[i])}
      boost == One + IntentSignals(page, query, intent) + 1000 * Cardinality(topical)
  IN If("listicle" \in page.marks /\ Of("asksList", query) = {}, Pct(boost, 70), boost)

\* The measures of the text are marks: its entropy, share of letters, length of words.
ContentQuality(page) ==
  LET m == page.marks
      entropy == CASE "repeats" \in m -> 2000
                   [] "repeats" \notin m /\ "monotone" \in m -> 5000
                   [] OTHER -> If("random" \in m, 3000, One)
      alpha == If("symbols" \in m, Pct(entropy, 30), entropy)
      long == If("glued" \in m, Pct(alpha, 20), alpha)
  IN IF "tiny" \in m THEN 1000 ELSE If("clickbait" \in m, Pct(long, 40), long)

---------------------------------------------------------------------------
Tokens(text) ==
  LET kept == SelectSeq(text, LAMBDA w : "filler" \notin Kind[w])
  IN [i \in DOMAIN kept |-> Stem[kept[i]]]

Count(text, w) == Cardinality({i \in DOMAIN text : text[i] = w})

Cosine(terms, title, body) ==
  LET tf(w) == 3 * Count(title, w) + Count(body, w)
      set == ToSet(terms)
      dot == MapThenSumSet(LAMBDA w : Count(terms, w) * tf(w), set)
      q2 == MapThenSumSet(LAMBDA w : Count(terms, w) * Count(terms, w), set)
      d2 == MapThenSumSet(LAMBDA w : tf(w) * tf(w), set)
  IN IF d2 = 0 THEN 0 ELSE Least((dot * One * 10) \div Sqrt(q2 * d2 * 100), One)

Bigrams(terms, title, body) ==
  LET n == Len(terms) - 1
      in(text, i) == Phrase(text, <<terms[i], terms[i + 1]>>)
      hits == MapThenSumSet(LAMBDA i : If(in(title, i), 3, If(in(body, i), 1, 0)), 1..n)
  IN IF n < 1 THEN 0 ELSE Least((hits * One) \div (3 * n), One)

MinCoverage(n) ==
  CASE n = 1 -> One [] n = 2 -> 4500 [] n = 3 -> 3000 [] n \in {6, 7} -> 2000 [] OTHER -> 2500

\* A page without a body is judged by its title, at one half at the most.
TitleOnly(query, title) ==
  LET hits == Cardinality({i \in DOMAIN query : Has(title, query[i])})
  IN IF hits = 0 THEN 100 ELSE Clamp((hits * One) \div Most(Len(query), 1), 100, 5000)

\* One word of a pair the query has, without the other, is another sense.
SplitPair(query, terms, text) ==
  \E i \in 1..(Len(terms) - 1) :
    /\ Phrase(query, <<terms[i], terms[i + 1]>>)
    /\ ~Phrase(text, <<terms[i], terms[i + 1]>>)
    /\ Has(text, terms[i]) # Has(text, terms[i + 1])

Blend(terms, title, body, coverage) ==
  Pct(Pct(Cosine(terms, title, body), 70) + Pct(coverage, 30), 80) + Pct(Bigrams(terms, title, body), 20)

\* combined: cosine, coverage and bigrams as one
ByCoverage(query, page, terms, coverage, combined) ==
  LET n == Len(terms) IN
  CASE coverage < MinCoverage(n) ->
         If(coverage < 1000, 100, Clamp(Pct(Mul(combined, coverage), 60), 0, Least(combined, 1800)))
    [] coverage >= MinCoverage(n) /\ "definition" \in page.marks /\ (n > 1 \/ Of("explains", query) # {}) ->
         Clamp(Pct(combined, 10), 100, 500)
    [] OTHER -> Clamp(If(SplitPair(query, terms, page.title \o page.body), Pct(combined, 25), combined), 0, One)

\* found: how many of the terms the page has
Covered(query, page, terms, title, body, found) ==
  LET coverage == (found * One) \div Len(terms) IN
  CASE page.body = <<>> -> IF page.title = <<>> THEN 100 ELSE TitleOnly(query, page.title)
    [] page.body # <<>> /\ terms = <<>> -> 5000
    [] page.body # <<>> /\ terms # <<>> /\ found = 0 -> 100
    [] OTHER -> ByCoverage(query, page, terms, coverage, Blend(terms, title, body, coverage))

TextRelevance(query, page, terms, title, body) ==
  Covered(query, page, terms, title, body, Cardinality({i \in DOMAIN terms : Has(title, terms[i]) \/ Has(body, terms[i])}))

SemanticRelevance(query, page) ==
  TextRelevance(query, page, Tokens(query), Tokens(page.title), Tokens(page.body))

---------------------------------------------------------------------------
SenseClass(query) ==
  LET has(k) == Of(k, query) # {} IN
  CASE has("relational") /\ has("moral") -> "moral"
    [] ~(has("relational") /\ has("moral")) /\ has("programming") /\ has("problem") -> "programming"
    [] OTHER -> If(Cardinality(Of("claim", query)) >= 2, "claim", "none")

\* The deeper penalty for further markers never takes effect: 2 - markers saturates at 0.
SensePenalty(sense, page) ==
  LET markers == Cardinality(page.marks \cap {"apiTitle", "codeOpens", "ide", "apiSymbol"})
      grade(two, one, dict) == IF markers >= 2 THEN two ELSE IF markers = 1 THEN one
                               ELSE If("dictionaryOpens" \in page.marks, dict, One)
  IN CASE sense = "moral" -> grade(4500, 8000, 8500)
       [] sense = "programming" -> grade(7000, 8500, 8000)
       [] OTHER -> One

\* <<factor, addition>> for a claim that is echoed or debunked
ConspiracyGuard(page) ==
  <<If(page.echoes - page.debunks >= 2, 7000, One), Least(500 * page.debunks, 1500)>>

\* 0.2 + 0.3 ln n for one, two, three and more sources
Consensus(sources) ==
  LET n == Cardinality(sources) IN
  IF n <= 1 THEN 2000 ELSE <<2000, 4079, 5296, 6159, 6828>>[Least(n, 5)]

---------------------------------------------------------------------------
Signals == <<"rrf", "intent", "freshness", "authority", "local", "quality", "semantic", "consensus", "constraint">>
Labels == <<"informational", "technical", "navigational", "comparison", "how-to", "fresh", "transactional", "local">>

\* in hundredths, in the order of Signals
WeightRow(intent) ==
  CASE intent = "fresh" -> <<6, 4, 16, 10, 2, 8, 20, 18, 16>>
    [] intent = "technical" -> <<7, 8, 3, 16, 4, 6, 22, 14, 20>>
    [] intent = "navigational" -> <<3, 18, 2, 15, 2, 4, 22, 12, 22>>
    [] intent = "comparison" -> <<8, 6, 6, 5, 2, 8, 22, 18, 25>>
    [] intent = "how-to" -> <<6, 6, 4, 5, 4, 6, 26, 18, 25>>
    [] intent = "transactional" -> <<6, 10, 3, 10, 2, 8, 22, 18, 21>>
    [] intent = "local" -> <<5, 6, 14, 4, 14, 5, 20, 16, 16>>
    [] OTHER -> <<6, 5, 5, 6, 3, 7, 24, 20, 24>>

\* dist: label -> probability.  A clear winner takes all, otherwise the rows are mixed.
Weights(dist) ==
  LET total == MapThenSumSet(LAMBDA l : dist[l], DOMAIN dist)
      best == Max({dist[l] : l \in DOMAIN dist})
      rest == Max({0} \cup {dist[l] : l \in {m \in DOMAIN dist : dist[m] < best}})
      tied == Cardinality({l \in DOMAIN dist : dist[l] = best}) > 1
      winner == CHOOSE l \in DOMAIN dist : dist[l] = best
      mixed(i) == MapThenSumSet(LAMBDA l : WeightRow(l)[i] * dist[l], DOMAIN dist) \div total
      row == CASE total < 100 -> WeightRow("informational")
               [] total >= 100 /\ ~tied /\ best - rest > 1500 -> WeightRow(winner)
               [] OTHER -> [i \in 1..9 |-> mixed(i)]
  IN [s \in ToSet(Signals) |-> row[CHOOSE i \in 1..9 : Signals[i] = s]]

\* The scores of a set to their calibrated values: onto [0.05, best], and a weak
\* set (best below 0.10) onto [0.05, 0.12].
Calibrate(scores) ==
  LET lo == Min(scores)
      hi == Max(scores)
      top == If(hi < 1000, 1200, Clamp(hi, 500, One))
  IN [x \in scores |-> If(hi = lo, x, 500 + (((x - lo) * (top - 500)) \div (hi - lo)))]
=============================================================================
