-------------------------- MODULE MCSearchPipeline --------------------------
(***************************************************************************)
(* Ten queries with the pages their sources have: a price bound in words,  *)
(* the same as an operator, an exclusion, one with a price bound, one      *)
(* alone, a recency window, instructions with a manner, a matter of taste, *)
(* a phrase in quotation marks and a superlative nobody writes about.      *)
(***************************************************************************)
EXTENDS SearchPipeline

Vocabulary ==
  {"laptop", "under", "40000", "rupees", "price:", "after:", "python", "framework", "not", "django", "djangocms", "flask",
   "rust", "news", "release", "how", "to", "fix", "sink", "without", "plumber", "boring", "best", "review",
   "guide", "price", "alternatives", "vs", "dashed", "shop", "$100", "$300", "$600"}

MCWithin == [w \in Vocabulary |-> {w} \cup (IF w = "djangocms" THEN {"django"} ELSE {})]
MCStem == [w \in Vocabulary |-> w]
MCBare == [w \in Vocabulary |-> w]
MCSize == [w \in Vocabulary |-> IF w = "djangocms" THEN 9 ELSE 6]
MCKind ==
  [w \in Vocabulary |->
     CASE w \in {"how", "to"} -> {"stop", "filler", "negStop", "nlStop", "nonTopical"}
       [] w \in {"under", "not", "without"} -> {"stop", "nlStop", "filler", "negator", "nonTopical", "numericSignal", "grammar"}
       [] w = "40000" -> {"digits", "number", "filler"}
       [] w = "rupees" -> {"currency", "stop", "filler", "numericSignal", "measured"}
       [] w \in {"price:", "after:"} -> {"operator", "stop", "filler"}
       [] w = "boring" -> {"subjective", "titleStop", "stop"}
       [] w = "price" -> {"nlStop"}
       [] w = "best" -> {"superlative", "generic", "titleStop"}
       [] w = "django" -> {"protected"}
       [] OTHER -> {}]
MCSynonyms == [t \in (UNION {[1..n -> Vocabulary] : n \in 0..1}) \cup {<<"django", "framework">>} |-> {t}]
MCSimilar == <<>>
MCRate == [cur \in {"usd", "inr"} |-> IF cur = "usd" THEN 100 ELSE 1]
MCCost ==
  [w \in {"$100", "$300", "$600"} |->
     [price |-> CASE w = "$100" -> 100 [] w = "$300" -> 300 [] OTHER -> 600, currency |-> "usd"]]
MCCountryName == [code \in {"fr"} |-> "france"]
MCGazetteer == <<>>
MCOperator ==
  [w \in {"price:", "after:"} |->
     IF w = "price:" THEN [op |-> "price", value |-> [op |-> "<", lo |-> 400, hi |-> "none"], negated |-> FALSE]
     ELSE [op |-> "after", value |-> <<2026, 6, 1>>, negated |-> FALSE]]
MCAmount == [w \in {"40000"} |-> 40000]
MCCurrencyOf == [w \in Vocabulary |-> IF w = "rupees" THEN "inr" ELSE NoCurrency]

---------------------------------------------------------------------------
NoText == [p \in Patterns |-> NoDate]
On(date) == [NoText EXCEPT !["numeric"] = date]
Page(id, title, body) ==
  [id |-> id, host |-> id, hosts |-> {id}, hostWords |-> <<id>>, tlds |-> {}, title |-> title, body |-> body,
   urlWords |-> title, shape |-> {}, marks |-> {}, alt |-> [title |-> 0, url |-> 0, body |-> 0], langs |-> {},
   type |-> "none", price |-> NoPrice, currency |-> NoCurrency, dated |-> FALSE, published |-> NoText,
   mentions |-> NoText, urlYear |-> NoDate, echoes |-> 0, debunks |-> 0, sources |-> <<"engine">>, local |-> FALSE,
   score |-> 0, authority |-> 5000, quality |-> 10000, cap |-> NoCap]
Local(page) == [page EXCEPT !.local = TRUE, !.sources = <<"local">>, !.score = 6000]
At1(page, amount) == [page EXCEPT !.price = amount, !.currency = "usd"]
Talking(page) == [page EXCEPT !.marks = {"priceSignal"}]
Dated(page, date) == [page EXCEPT !.dated = TRUE, !.published = On(date)]

cheap == Page("cheap", <<"laptop", "review">>, <<"laptop", "$300", "review">>)
dear == Page("dear", <<"laptop", "shop">>, <<"laptop", "$600">>)
tagged == Talking(At1(Page("tagged", <<"laptop", "best">>, <<"laptop", "price">>), 600))
silent == At1(Page("silent", <<"laptop", "news">>, <<"laptop", "review">>), 300)
talk == Talking(Page("talk", <<"laptop", "guide">>, <<"laptop", "price", "guide">>))
clip == [Page("clip", <<"best", "laptop">>, <<"laptop", "review">>) EXCEPT !.shape = {"videoHost"}]
stock == [i \in 1..8 |->
  LET title == <<"laptop", <<"shop", "review", "guide", "price", "best", "vs", "news", "release">>[i]>>
      page == Page(<<"s1", "s2", "s3", "s4", "s5", "s6", "s7", "s8">>[i], title, <<"laptop", "price">>)
  IN CASE i <= 3 -> [page EXCEPT !.body = <<"laptop", "$100">>]
       [] i \in 4..6 -> Talking(At1(page, 50 * i))
       [] i = 7 -> [At1(page, 100) EXCEPT !.title = Append(title, "$600")]
       [] OTHER -> Talking(At1(page, 700))]
flask == Page("flask", <<"flask", "framework">>, <<"python", "framework", "flask">>)
django == Page("django", <<"django", "framework">>, <<"python", "framework", "django">>)
cms == Page("cms", <<"djangocms", "guide">>, <<"python", "framework">>)
rivals == [Page("rivals", <<"django", "alternatives">>, <<"python", "framework", "django", "flask">>)
             EXCEPT !.alt = [title |-> 10000, url |-> 1, body |-> 2], !.marks = {"altTitle"}]
fresh == Dated(Page("fresh", <<"rust", "release">>, <<"rust", "news", "release">>), <<2026, 6, 10>>)
stale == Dated(Page("stale", <<"rust", "news">>, <<"rust", "news">>), <<2025, 3, 2>>)
old == Dated(Page("old", <<"rust", "guide">>, <<"rust", "release", "news">>), <<2024, 1, 9>>)
undated == Page("undated", <<"rust", "review">>, <<"rust", "release">>)
sink == Page("sink", <<"fix", "sink">>, <<"how", "to", "fix", "sink", "without", "plumber">>)
trade == Page("trade", <<"plumber", "guide">>, <<"sink", "plumber", "fix">>)
brand == Page("brand", <<"best", "shop">>, <<"laptop", "shop">>)
dull == Page("dull", <<"boring", "sink", "guide">>, <<"fix", "sink", "boring">>)

NoPool == [local |-> <<>>, vector |-> <<>>, web |-> <<>>, retry |-> <<>>, expanded |-> <<>>, media |-> <<>>]
Plainly(term) == [op |-> "plain", term |-> term]
Engine1(intent, conf, cons) ==
  [intent |-> intent, conf |-> conf, c |-> cons, dist |-> [l \in {intent, "informational"} |-> IF l = intent THEN conf ELSE 3000]]
Ask(query, engine, pool) ==
  [query |-> query, quotes |-> {}, signals |-> {}, says |-> {}, span |-> <<>>, home |-> Nowhere,
   today |-> <<2026, 6, 15>>, traits |-> {}, operator |-> FALSE, engine |-> engine, pool |-> pool, cos |-> <<>>]

Budget ==
  [Ask(<<"best", "laptop", "under", "40000", "rupees">>,
       Engine1("comparison", 5000, [NoConstraints EXCEPT !.positive = <<Plainly(<<"laptop">>)>>]),
       [NoPool EXCEPT !.web = << <<dear, cheap, silent>>, <<talk, cheap, tagged>> >>, !.retry = <<clip>>, !.expanded = <<clip, talk>>,
                      !.local = <<Local(dear)>>])
     EXCEPT !.signals = {"compares", "purchase"}]
Operated ==
  [Ask(<<"laptop", "price:">>,
       Engine1("shopping", 5000, [NoConstraints EXCEPT !.positive = <<Plainly(<<"laptop">>)>>]),
       [NoPool EXCEPT !.web = <<stock>>, !.media = <<clip>>]) EXCEPT !.operator = TRUE]
Excluding ==
  Ask(<<"python", "framework", "not", "django">>,
      Engine1("technical", 6000, [NoConstraints EXCEPT !.positive = <<Plainly(<<"python">>)>>, !.negative = << <<"django">> >>]),
      [NoPool EXCEPT !.web = << <<django, flask>>, <<rivals, cms>> >>, !.local = <<Local(flask)>>, !.vector = <<Local(cms)>>])
Exacting ==
  Ask(<<"laptop", "under", "40000", "rupees", "not", "review">>,
      Engine1("technical", 6000, [NoConstraints EXCEPT !.positive = <<Plainly(<<"laptop">>)>>]),
      [NoPool EXCEPT !.web = << <<dear>>, <<cheap>> >>, !.local = <<Local(dear)>>, !.retry = <<tagged>>])
OnlyExcluding ==
  Ask(<<"not", "django">>, Engine1("navigational", 2400, [NoConstraints EXCEPT !.negative = << <<"django">> >>]),
      [NoPool EXCEPT !.web = << <<django>>, <<rivals, cms>> >>, !.retry = <<flask>>])
Recent ==
  [Ask(<<"rust", "news", "after:">>,
       Engine1("fresh", 6000, [NoConstraints EXCEPT !.positive = <<Plainly(<<"rust">>), [op |-> "after", value |-> <<2026, 6, 1>>]>>]),
       [NoPool EXCEPT !.web = << <<stale, undated>>, <<fresh, old>> >>, !.media = <<fresh>>, !.local = <<Local(old)>>])
     EXCEPT !.says = {"news", "fresh"}, !.signals = {"news", "newsTopic"}]
Instructed ==
  [Ask(<<"how", "to", "fix", "sink", "without", "plumber">>,
       Engine1("how-to", 7000, [NoConstraints EXCEPT !.positive = <<Plainly(<<"sink">>)>>, !.negative = << <<"plumber">> >>]),
       [NoPool EXCEPT !.web = << <<trade, sink>>, <<dull>> >>, !.local = <<Local(sink)>>]) EXCEPT !.signals = {"howToStart"}]
Tasteful ==
  Ask(<<"sink", "guide", "not", "boring">>,
      Engine1("informational", 6000, [NoConstraints EXCEPT !.positive = <<Plainly(<<"sink">>)>>]),
      [NoPool EXCEPT !.web = << <<dull, sink>>, <<trade>> >>, !.local = <<Local(sink)>>])
Quoted ==
  [Ask(<<"rust", "news", "guide">>,
       Engine1("informational", 6000, [NoConstraints EXCEPT !.positive = <<Plainly(<<"rust">>)>>]),
       [NoPool EXCEPT !.web = << <<fresh>>, <<stale>> >>, !.retry = <<old>>]) EXCEPT !.quotes = {<<"news", "guide">>}]
Superficial ==
  Ask(<<"best", "rust", "news">>, Engine1("informational", 6000, [NoConstraints EXCEPT !.positive = <<Plainly(<<"rust">>)>>]),
      [NoPool EXCEPT !.web = << <<brand>> >>, !.local = <<Local(fresh)>>])

MCRequests == {Budget, Operated, Excluding, Exacting, OnlyExcluding, Recent, Instructed, Tasteful, Quoted, Superficial}
=============================================================================
