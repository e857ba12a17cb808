----------------------------- MODULE QueryTerms -----------------------------
(***************************************************************************)
(* What the merge reads off the query once, before it looks at a page: the *)
(* words outside a negation, the words that carry the topic, the phrases,  *)
(* the two sides of a comparison, and the place the query names.           *)
(*                                                                         *)
(* Data: a query is a sequence of words.  Kind[w] holds the word lists of  *)
(* the code that w is in; a place is [country, code, region, city], each a *)
(* word or NoPlace.  Bare[w] is w without a plural s.                      *)
(***************************************************************************)
EXTENDS Exclusions

CONSTANTS
  Bare,         \* word -> the word without trailing s
  NoPlace,
  CountryName,  \* country code -> name
  Gazetteer     \* the known places in order: sequence of [name, code]

Is(kind, w) == kind \in Kind[w]

---------------------------------------------------------------------------
\* Words after a negation are taken out up to the next clause; a preserved
\* word stays but does not end the negation.
StripNegation(query) ==
  LET step(acc, w) ==
        CASE Is("negator", w) -> [acc EXCEPT !.negating = TRUE]
          [] ~Is("negator", w) /\ ~acc.negating -> [acc EXCEPT !.kept = Append(@, w)]
          [] ~Is("negator", w) /\ acc.negating /\ w \in {"how", "to"} ->
               [acc EXCEPT !.negating = FALSE, !.kept = Append(@, w)]
          [] ~Is("negator", w) /\ acc.negating /\ w \notin {"how", "to"} /\ Is("clause", w) ->
               [acc EXCEPT !.negating = FALSE]
          [] OTHER -> IF Is("preserved", w) THEN [acc EXCEPT !.kept = Append(@, w)]
                      ELSE [acc EXCEPT !.excluded = Append(@, w)]
      end == FoldLeft(step, [kept |-> <<>>, excluded |-> <<>>, negating |-> FALSE], query)
  IN IF end.kept = <<>> \/ end.kept = query THEN [kept |-> query, excluded |-> <<>>]
     ELSE [kept |-> end.kept, excluded |-> end.excluded]

---------------------------------------------------------------------------
Filler == {"stop", "generic", "unit", "role", "weakDiscriminative", "temporal", "framing", "digits", "short"}

Distinctive(q) == SelectSeq(q, LAMBDA w : Kind[w] \cap Filler = {})
Strong(q) == SelectSeq(Distinctive(q), LAMBDA w : ~Is("weakAnchor", w))
CoreTopic(q) == SelectSeq(q, LAMBDA w : Kind[w] \cap (Filler \cup {"action"}) = {})

\* Runs of two content words or more.
PhraseEntities(q) ==
  LET content(w) == Kind[w] \cap {"stop", "action", "digits", "letter"} = {}
      step(acc, w) ==
        IF content(w) THEN [acc EXCEPT !.run = Append(@, w)]
        ELSE [phrases |-> IF Len(acc.run) >= 2 THEN acc.phrases \cup {acc.run} ELSE acc.phrases, run |-> <<>>]
      end == FoldLeft(step, [phrases |-> {}, run |-> <<>>], q)
  IN IF Len(end.run) >= 2 THEN end.phrases \cup {end.run} ELSE end.phrases

ComparisonQuery(q) ==
  \E i \in DOMAIN q :
    \/ q[i] \in {"compare", "comparison", "versus", "vs", "v", "between", "or"}
    \/ q[i] = "and" /\ Len(q) >= 5

ComparedTerms(q) ==
  SelectSeq(Strong(q), LAMBDA w : Kind[w] \cap {"structure", "attribute"} = {})

\* The nearest word that means something on each side of the marker.
Principals(q) ==
  LET marks == {i \in DOMAIN q : q[i] \in {"versus", "vs", "compare", "comparison"}}
      solid(i) == Kind[q[i]] \cap {"stop", "structure", "digits"} = {}
      left(m) == {i \in 1..(m - 1) : solid(i)}
      right(m) == {i \in (m + 1)..Len(q) : solid(i)}
  IN IF marks = {} THEN {}
     ELSE LET m == Min(marks) IN
          {q[Max(s)] : s \in {left(m)} \ {{}}} \cup {q[Min(s)] : s \in {right(m)} \ {{}}}

AnchorTerms(q) == IF Principals(q) = {} THEN ToSet(ComparedTerms(q)) ELSE Principals(q)

\* The last content word of each side, the query split at vs, else at versus, else at or.
OpposedEntities(query) ==
  LET at(w) == {i \in 2..(Len(query) - 1) : query[i] = w}
      cuts == IF at("vs") # {} THEN at("vs") ELSE IF at("versus") # {} THEN at("versus") ELSE at("or")
      ends == {c - 1 : c \in cuts} \cup {Len(query)}
      start(e) == Max({0} \cup {c \in cuts : c <= e})
      content(e) == {i \in (start(e) + 1)..e : Kind[query[i]] \cap {"stop", "short"} = {}}
  IN IF cuts = {} THEN {} ELSE {query[Max(s)] : s \in {content(e) : e \in ends} \ {{}}}

---------------------------------------------------------------------------
Nowhere == [country |-> NoPlace, code |-> NoPlace, region |-> NoPlace, city |-> NoPlace]

\* A gazetteer entry among the words, else what follows a preposition of place.
ExplicitLocation(query) ==
  LET known == SelectSeq(Gazetteer, LAMBDA g : g.name \in ToSet(query))
      named == {i \in 2..Len(query) : Is("placePreposition", query[i - 1]) /\ Kind[query[i]] \cap {"proper", "placeSuffix"} # {}}
      entry(g) == [Nowhere EXCEPT !.code = g.code, !.country = CountryName[g.code],
                                  !.city = IF Is("city", g.name) THEN g.name ELSE NoPlace]
  IN CASE known # <<>> -> entry(Head(known))
       [] known = <<>> /\ named # {} -> [Nowhere EXCEPT !.city = query[Min(named)]]
       [] OTHER -> Nowhere

InferredLocation(query, place) == ToSet(query) \cap ({place.city, place.country} \ {NoPlace}) = {}

GeoRelevance(page, place) ==
  LET in(w) == w # NoPlace /\ (Has(page.title, w) \/ Has(page.body, w) \/ Has(page.urlWords, w))
  IN CASE in(place.city) -> 2500
       [] ~in(place.city) /\ in(place.region) -> 2000
       [] OTHER -> IF place.code # NoPlace /\ place.code \in page.tlds THEN 1200
                   ELSE If(in(place.country), 1000, 0)

\* A page about another place, unless it names the one asked for; a country
\* forgives its own places.
CrossLocation(page, place) ==
  LET says(w) == w \in Words(page.title) \cup Words(page.body)
      other == {g \in ToSet(Gazetteer) :
                  /\ g.name \notin {place.city, place.country}
                  /\ ~(place.city = NoPlace /\ g.code = place.code)
                  /\ ~Is("short", g.name)}
  IN IF place = Nowhere \/ says(place.city) \/ says(place.country) \/ ~\E g \in other : says(g.name)
     THEN One ELSE 600

LocalIntent(query) ==
  LET n == Len(query)
      in == {i \in 2..(n - 1) : query[i] = "in"}
      near == {i \in DOMAIN query : Is("nearness", query[i])}
  IN \/ near # {}
     \/ in # {} /\ Is("area", query[n])
     \/ n <= 10 /\ \E i \in (Max({0} \cup in) + 1)..n : \E g \in ToSet(Gazetteer) : g.name = query[i]
     \/ n <= 15 /\ query # <<>> /\ query[1] = "best" /\ \E i \in in : i > 2
     \/ n <= 15 /\ \E i \in 2..(n - 1) : query[i] = "local"

VideoIntent(query) ==
  \/ \E i \in DOMAIN query : query[i] \in {"video", "videos", "youtube", "animation", "tutorial", "tutorials"}
  \/ \E i \in 1..(Len(query) - 1) :
       \/ query[i] = "watch" /\ query[i + 1] \in {"video", "on", "online", "tutorial", "guide"}
       \/ i > 1 /\ query[i - 1] \in {"how", "where"} /\ query[i] = "to" /\ query[i + 1] = "watch"
=============================================================================
