---------------------------- MODULE ResultGates ----------------------------
(***************************************************************************)
(* handle_search around the merge: how the answers of the sources become   *)
(* one list of web results, which of them each gate lets through, and what *)
(* happens to the merged list before it is sent.                           *)
(*                                                                         *)
(* Data: page.id is the normalised address, page.host the host as written. *)
(* g is [web, rrf]: the web results and what each address has earned.      *)
(***************************************************************************)
EXTENDS MergeTail

LeadWords == 4       \* the words in the first 300 characters of a body
HostQuota == 3
FullPage == 6

Lead(page) == SubSeq(page.body, 1, Least(Len(page.body), LeadWords))
Sum(list, Op(_)) == FoldLeft(LAMBDA acc, r : acc + Op(r), 0, list)
Ids(list) == {list[i].id : i \in DOMAIN list}

---------------------------------------------------------------------------
\* The n-th page of an answer earns its address weight / (60 + n).
Earn(rrf, id, n, weight) ==
  LET worth == Pct(One, weight) \div (60 + n) IN
  [a \in DOMAIN rrf \cup {id} |-> (IF a \in DOMAIN rrf THEN rrf[a] ELSE 0) + If(a = id, worth, 0)]

Gather(g, batch, weight) ==
  [web |-> g.web \o batch,
   rrf |-> FoldLeft(LAMBDA acc, n : Earn(acc, batch[n].id, n, weight), g.rrf, [n \in DOMAIN batch |-> n])]

\* A retry adds the addresses nobody has earned anything for.
GatherNew(g, batch, weight) ==
  FoldLeft(LAMBDA acc, n : IF batch[n].id \in DOMAIN acc.rrf THEN acc
                           ELSE [web |-> Append(acc.web, batch[n]),
                                 rrf |-> Earn(acc.rrf, batch[n].id, n, weight)],
           g, [n \in DOMAIN batch |-> n])

\* The vector query adds pages and raises scores, it takes nothing away.
FuseVector(local, found) ==
  LET step(acc, r) ==
        IF r.id \in Ids(acc)
        THEN Map(acc, LAMBDA a : IF a.id = r.id THEN [a EXCEPT !.score = Most(@, r.score)] ELSE a)
        ELSE Append(acc, r)
  IN FoldLeft(step, local, found)

\* New pages only; the pages of one answer are not compared among themselves.
AddLocal(local, found) == local \o Keep(found, LAMBDA r : r.id \notin Ids(local))

\* A host that has its quota is skipped, even when the address is already listed.
DedupWeb(g) ==
  LET step(acc, r) ==
        LET engine == <<Head(r.sources)>>
            listed == Cardinality({i \in DOMAIN acc : acc[i].host = r.host}) IN
        CASE listed >= HostQuota -> acc
          [] listed < HostQuota /\ r.id \in Ids(acc) ->
               Map(acc, LAMBDA a : IF a.id = r.id THEN [a EXCEPT !.sources = FoldLeft(Append1, @, engine)] ELSE a)
          [] OTHER -> Append(acc, [r EXCEPT !.sources = engine])
  IN FoldLeft(step, <<>>, g.web)

\* What no source earned keeps the score it came with; the best becomes one.
NormaliseRank(list, rrf) ==
  LET ranked == Map(list, LAMBDA r : IF r.id \in DOMAIN rrf THEN [r EXCEPT !.score = rrf[r.id]] ELSE r)
      top == Best(ranked)
  IN IF top = 0 THEN ranked ELSE Map(ranked, LAMBDA r : [r EXCEPT !.score = (@ * One) \div top])

---------------------------------------------------------------------------
SemanticBar(n) == IF n > 30 THEN 1800 ELSE IF n > 20 THEN 1500 ELSE IF n > 10 THEN 1200 ELSE 800

\* All alike and all poor: the scorer cannot tell, so the engines are believed.
Garbage(web, query, onlyNegative) ==
  LET sem(r) == SemanticRelevance(query, r) IN
  ~onlyNegative /\ (\A i \in DOMAIN web : sem(web[i]) < 1500) /\ Sum(web, sem) < 1000 * Len(web)

SemanticKept(web, query, onlyNegative) ==
  LET sem(r) == SemanticRelevance(query, r)
      over == Keep(web, LAMBDA r : sem(r) >= SemanticBar(Len(web)))
      top == Descending(web, sem)
  IN CASE Garbage(web, query, onlyNegative) -> web
       [] ~Garbage(web, query, onlyNegative) /\ Len(over) >= 3 -> over
       [] OTHER -> SubSeq(top, 1, Least(Len(top), 3))

Superlatives == {"best", "top", "greatest", "cheapest", "finest"}
Superlative(text) == \E s \in Superlatives : Has(text, s)

\* Titles about the superlative itself go, unless nothing else would be left.
DropSuperlatives(kept, query, garbage) ==
  LET topics == SelectSeq(query, LAMBDA w : w \notin Superlatives /\ Kind[w] \cap {"stop", "digits", "short"} = {})
      plain == Keep(kept, LAMBDA r : Superlative(r.title) => \E i \in DOMAIN topics : Has(r.title, topics[i]))
  IN IF Superlative(query) /\ topics # <<>> /\ (plain # <<>> \/ garbage) THEN plain ELSE kept

SemanticFilter(web, query, onlyNegative) ==
  DropSuperlatives(SemanticKept(web, query, onlyNegative), query, Garbage(web, query, onlyNegative))

---------------------------------------------------------------------------
HasDates(c) == c.after # NoDate \/ c.before # NoDate

\* The window is dropped when no page has a date, when no page would be left,
\* or fewer than three and less than a quarter of them.
DateFailOpen(web, c) ==
  LET n == Len(web)
      dated == {i \in DOMAIN web : ItemDate(web[i]) # NoDate}
      inside == Cardinality({i \in DOMAIN web : ~DateOutside(web[i], c)})
      crushed == n > 0 /\ (inside = 0 \/ (inside < 3 /\ 4 * inside < n))
  IN IF HasDates(c) /\ (dated = {} \/ crushed) THEN [c EXCEPT !.after = NoDate, !.before = NoDate] ELSE c

Priced(list) == \E i \in DOMAIN list : PriceOf(list[i]) # NoCost

PriceFailOpen(web, c) ==
  IF HasPriceBound(c) /\ ~Priced(web)
  THEN [c EXCEPT !.min = NoPrice, !.max = NoPrice, !.lt = NoPrice, !.gt = NoPrice] ELSE c

\* Excluded terms in title, address and lead; a comparison violates nothing.
Violations(page, c) ==
  LET text == page.title \o page.urlWords \o Lead(page) IN
  IF IsAltPage(page) THEN 0
  ELSE Cardinality({i \in DOMAIN c.negative : TextMatchesNegative(text, c.negative[i])})

\* The fewest violations first.  As many are tolerated as it takes to keep half
\* of the pages, and five: of five pages or fewer none is ever removed.
NegativeFilter(web, c) ==
  LET v(r) == Violations(r, c)
      n == Len(web)
      worst == Max({v(web[i]) : i \in DOMAIN web})
      spoilt == 2 * Sum(web, v) > 3 * n /\ \A i \in DOMAIN web : v(web[i]) >= 1
      sorted == Descending(Descending(web, LAMBDA r : ConstraintScore(r, c)), LAMBDA r : -v(r))
      upTo(t) == Keep(sorted, LAMBDA r : v(r) <= t)
      enough == Least(Most(n \div 2, 5), n)
      start == If(spoilt, Most(worst \div 2, 1), 0)
  IN IF c.negative = <<>> \/ web = <<>> THEN web
     ELSE upTo(Min({t \in start..worst : Len(upTo(t)) >= enough}))

Boosted(list, c) == Map(list, LAMBDA r : [r EXCEPT !.score = @ + ConstraintBoost(r, c)])

\* Hard exclusions, excluded sites and types and bare price bounds do not count.
Constrained(c) ==
  \/ c.negative # <<>> \/ HasDates(c) \/ c.min # NoPrice \/ c.max # NoPrice
  \/ UNION {c.types, c.sites, c.intitle, c.inurl, c.intext, c.related} # {} \/ c.phrases # {}

\* Mutant: the gate has no way back.
PreFilterStrict(web, c) == Keep(web, LAMBDA r : ~ShouldFilter(r, c))

PreFilter(web, c) ==
  LET kept == Keep(web, LAMBDA r : ~ShouldFilter(r, c)) IN
  IF Constrained(c) /\ kept # <<>> THEN kept ELSE web

\* A price operator drops the unpriced pages when a full page of others is left.
PriceNarrow(web, c, operator) ==
  LET usd(r) == Usd(PriceOf(r).price, PriceOf(r).currency)
      inRange(r) == /\ PriceOf(r) # NoCost
                    /\ c.min # NoPrice => usd(r) >= Usd(c.min, c.currency)
                    /\ c.max # NoPrice => usd(r) <= Usd(c.max, c.currency)
      kept == Keep(web, inRange)
  IN IF operator /\ (c.min # NoPrice \/ c.max # NoPrice) /\ Len(kept) >= FullPage THEN kept ELSE web

LocalGate(local, query) ==
  Keep(local, LAMBDA r : /\ "bareTitle" \notin r.marks /\ "errorPath" \notin r.shape
                         /\ SemanticRelevance(query, r) >= 1200)

\* For a query of exclusions alone: the site that bears the name of the term.
OfficialSite(page, term) ==
  /\ Len(term) = 1 /\ Size[term[1]] >= 3
  /\ \E i \in DOMAIN page.hostWords :
       page.hostWords[i] = term[1] \/ (i > 1 /\ term[1] \in Within[page.hostWords[i]])

DropOfficial(web, c) ==
  IF c.positive # <<>> \/ c.negative = <<>> THEN web
  ELSE Keep(web, LAMBDA r : ~\E t \in ExpandNegatives(c.negative) : OfficialSite(r, t))

---------------------------------------------------------------------------
\* After the merge.
TitleSays(page, terms) == \E t \in terms : TextMatchesNegative(page.title, t)

TitlePenalty(list, c) ==
  LET cost(r) == IF AltScore(r) > 6000 THEN 100 ELSE If(AltScore(r) > 3000, 50, 1) IN
  Map(list, LAMBDA r : If(TitleSays(r, ExpandNegatives(c.negative)), Scale(r, cost(r)), r))

GenuineAlternative(page) == AltScore(page) >= 7000 \/ "altTitle" \in page.marks

NamesExcluded(page, c) ==
  /\ ~GenuineAlternative(page)
  /\ \E t \in ExpandNegatives(c.negative) : TextMatchesNegative(page.title \o page.urlWords, t)

HardNegative(list, c) ==
  LET kept == Keep(list, LAMBDA r : ~NamesExcluded(r, c)) IN
  IF c.positive = <<>> \/ c.negative = <<>> \/ kept = <<>> THEN list ELSE kept

\* Clean titles gain 0.03; when alternatives are asked for, the listings that
\* name the term do.
Nudge(list, c, contrastive) ==
  LET begins(r, t) == IF Len(t) > 1 THEN Phrase(r.title, t) ELSE Has(r.title, t[1])
      says(r) == \E i \in DOMAIN c.negative : begins(r, c.negative[i])
      gains(r) == IF contrastive THEN says(r) /\ IsAltPage(r) ELSE ~says(r)
  IN IF c.negative = <<>> THEN list
     ELSE ByScore(Map(list, LAMBDA r : IF gains(r) THEN [r EXCEPT !.score = @ + 300] ELSE r))

\* The gate of PreFilter once more, on all pages: it gives way only to an exclusion.
FinalFilter(list, c) ==
  LET kept == Keep(list, LAMBDA r : ~ShouldFilter(r, c)) IN
  IF kept = <<>> /\ c.negative # <<>> THEN ByScore(Map(list, LAMBDA r : Scale(r, 25))) ELSE kept

BoostAndSort(list, c) ==
  IF UNION {c.intitle, c.inurl, c.intext} = {} THEN list ELSE ByScore(Boosted(list, c))

\* Mutant: the clamp comes last and lifts the capped pages to the others' floor.
ClampOnly(list) == Map(list, LAMBDA r : [r EXCEPT !.score = Clamp(@, 500, One)])

\* Into [0.05, 1], and under the cap again; the order stays as it was.
ClampUnderCap(list) ==
  LET into(r) == Clamp(r.score, 500, One) IN
  Map(list, LAMBDA r : [r EXCEPT !.score = IF r.cap # NoCap THEN Least(into(r), r.cap) ELSE into(r)])

DropJunk(list) ==
  LET kept == Keep(list, LAMBDA r : "junk" \notin r.marks) IN IF kept = <<>> THEN list ELSE kept

---------------------------------------------------------------------------
\* Mutant: the report shows the bounds as the gates left them.
RestoreNothing(c, asked) == c

\* The price bound asked for is put back for the report.
Restore(c, asked) ==
  LET lt == Or(c.lt, NoPrice, asked.lt)
      gt == Or(c.gt, NoPrice, asked.gt)
      max1 == IF c.lt = NoPrice THEN Or(c.max, NoPrice, asked.lt) ELSE c.max
      min1 == IF c.gt = NoPrice THEN Or(c.min, NoPrice, asked.gt) ELSE c.min
  IN [c EXCEPT !.lt = lt, !.gt = gt, !.max = Or(max1, NoPrice, asked.max), !.min = Or(min1, NoPrice, asked.min)]

\* What the response says it applied: the kinds of constraints and the terms excluded.
Applied(c) ==
  [kinds |-> {kind \in {"sites", "types", "phrases", "intitle", "inurl", "intext", "related"} : c[kind] # {}}
             \cup {kind \in {"after", "before"} : c[kind] # NoDate}
             \cup (IF HasPriceBound(c) THEN {"price"} ELSE {}),
   not |-> ToSet(c.negative) \cup {<<w>> : w \in c.hard}]

Ignored(c, dated, priced) ==
  (IF HasDates(c) /\ ~dated THEN {"after", "before"} ELSE {})
  \cup (IF HasPriceBound(c) /\ ~priced THEN {"price"} ELSE {})
  \cup (IF c.related # {} THEN {"related"} ELSE {})
=============================================================================
