------------------------------ MODULE CrawlPage ------------------------------
(***************************************************************************)
(* What the crawler computes from a page it has fetched: the text it keeps *)
(* of it, the gate in front of the index, the scores it sends with the     *)
(* document, its publication date and its price.                           *)
(*                                                                         *)
(* Data: a URL is the set of signals the code looks for in it, a page a    *)
(* record of the measurements taken of it.  Scores are in hundredths (a    *)
(* product of scores in ten-thousandths), entropies in tenths of a bit.    *)
(***************************************************************************)
EXTENDS Integers, Sequences, FiniteSetsExt, SequencesExt

CONSTANTS NoDate, NoPrice, Unparsable

-------------------------------------------------------------------------------
(* The URL.                                                                *)

Clamp(x, low, high) == IF x < low THEN low ELSE IF x > high THEN high ELSE x

TopLevelTrust(signals) ==
  IF "edu_gov" \in signals THEN 30
  ELSE IF "org_net" \in signals THEN 10
  ELSE IF "two_letter" \in signals THEN 5 ELSE 0

SignalWeight ==
  [docs_host |-> 25, docs_path |-> 20, repo_path |-> 10, version_path |-> 10,
   two_labels |-> 10, five_labels |-> -10, many_params |-> -10, spam |-> -20, ugc |-> 5]

DomainAuthority(signals) ==
  Clamp(50 + TopLevelTrust(signals)
           + FoldSet(LAMBDA s, sum : sum + SignalWeight[s], 0,
                     signals \cap DOMAIN SignalWeight), 0, 100)

-------------------------------------------------------------------------------
(* The text: len is its length, entropy and alpha its Shannon entropy and  *)
(* its share of letters, word the mean length of its words; ascii says     *)
(* whether its first 2000 characters have an ASCII one.                    *)

\* p.blocks: the lengths of the texts the selectors find, from "main" to "body".
\* The first of more than enough characters is taken, or else the last; what is
\* beyond the cap is cut.
Extract(p, enough, cap) ==
  LET long == SelectSeq(p.blocks, LAMBDA b : b > enough)
      text == IF long # <<>> THEN Head(long) ELSE IF p.blocks # <<>> THEN Last(p.blocks) ELSE 0
  IN [p EXCEPT !.len = IF text < cap THEN text ELSE cap]

IsIndexworthy(p) ==
  /\ p.title >= 5
  /\ p.len >= 200
  /\ p.ascii /\ p.entropy \in 25..65
  /\ p.alpha >= 30

\* The factors multiply, the bonus for the length is added after them.
ContentQuality(p) ==
  LET byEntropy == IF p.entropy < 20 THEN 20 ELSE IF p.entropy < 30 THEN 50
                   ELSE IF p.entropy > 65 THEN 30 ELSE 100
      byAlpha   == IF p.alpha < 40 THEN 40 ELSE 100
      byWord    == IF p.word > 20 THEN 20 ELSE IF p.word > 15 THEN 50 ELSE 100
      bonus     == (IF p.len < 5000 THEN p.len ELSE 5000) \div 500
  IN IF p.len < 100 THEN 20
     ELSE IF ~p.ascii THEN 10
     ELSE Clamp((byEntropy * byAlpha * byWord) \div 10000 + bonus, 0, 100)

-------------------------------------------------------------------------------
(* The publication date: the first date of the meta tags, the time element *)
(* and the URL that is valid, in days counted with months of 30.           *)

ValidDate(d) == d.year \in 2000..2030 /\ d.month \in 1..12 /\ d.day \in 1..31

\* Mutant: months of 31 days.
DayStampLongMonths(d) == (d.year - 1970) * 365 + (d.month - 1) * 31 + d.day

DayStamp(d) == (d.year - 1970) * 365 + (d.month - 1) * 30 + d.day

Valid(dates) == {i \in DOMAIN dates : ValidDate(dates[i])}

PublicationDate(dates) ==
  IF Valid(dates) = {} THEN NoDate ELSE DayStamp(dates[Min(Valid(dates))])

-------------------------------------------------------------------------------
(* The price: the offers of the JSON-LD in the order the search visits     *)
(* them, then the microdata.  lowPrice is looked at only without a price.  *)

NormalizeCurrency(marks) ==
  CASE "dollar" \in marks -> IF "canada" \in marks THEN "CAD"
                             ELSE IF "australia" \in marks THEN "AUD" ELSE "USD"
    [] "euro" \in marks   -> "EUR"
    [] "pound" \in marks  -> "GBP"
    [] "rupee" \in marks  -> "INR"
    [] "yen" \in marks    -> "JPY"
    [] OTHER              -> "USD"

Amount(offer) == IF offer.price # NoPrice THEN offer.price ELSE offer.lowPrice

PriceAndCurrency(offers) ==
  LET priced == SelectSeq(offers, LAMBDA o : Amount(o) \notin {NoPrice, Unparsable}) IN
  IF priced = <<>> THEN {}
  ELSE {[amount |-> Amount(Head(priced)), currency |-> NormalizeCurrency(Head(priced).marks)]}

===============================================================================
