----------------------------- MODULE MergeTail -----------------------------
(***************************************************************************)
(* merge_local_and_web after the scoring loop: what is dropped from the    *)
(* list and when a drop is taken back, the floor, the boost of a thin      *)
(* list, the order, the domains, the duplicates, calibration and the caps. *)
(***************************************************************************)
EXTENDS MergeRank

Scale(page, percent) == [page EXCEPT !.score = Pct(@, percent)]
Best(list) == Max({0} \cup {list[i].score : i \in DOMAIN list})
OnTopic(page, x) == MentionsAny(page, Strong(x.kept))

ByScore(list) == Descending(list, LAMBDA r : r.score)

---------------------------------------------------------------------------
AdultAddress(page) == page.marks \cap {"adultHost", "adultPath", "adultTitle"} # {}
Clean(list) == Keep(list, LAMBDA r : ~AdultAddress(r))

\* When every page is off the topic they all come back, except the adult ones.
DropOffTopic(list, x) ==
  LET stays(r) == \/ "adult" \in x.traits /\ AdultAddress(r)
                  \/ OnTopic(r, x) \/ GeoRelevance(r, x.place) > 0
      kept == Keep(list, stays)
  IN CASE Strong(x.kept) = <<>> -> list
       [] Strong(x.kept) # <<>> /\ kept = <<>> -> Clean(list)
       [] OTHER -> kept

DropCrossLingual(list, x) ==
  LET kept == Keep(list, LAMBDA r : "foreign" \notin r.marks) IN
  CASE "latin" \notin x.traits -> list
    [] "latin" \in x.traits /\ kept = <<>> -> Clean(list)
    [] OTHER -> kept

DropAdult(list, x) == IF "adult" \in x.traits THEN list ELSE Clean(list)

---------------------------------------------------------------------------
\* The value at 60% of the sorted relevances gives the floor.
Floor(rels) ==
  LET sorted == SortSeq(rels, LAMBDA a, b : a < b)
      p60 == sorted[Least((Len(rels) * 6) \div 10, Len(rels) - 1) + 1]
  IN Clamp(Pct(p60, 35), 500, 5000)

\* The relevances are those of the list before anything was dropped.
RelAt(rels, i) == IF i \in DOMAIN rels THEN rels[i] ELSE 0

ApplyFloor(list, rels) ==
  IF rels = <<>> THEN list
  ELSE [i \in DOMAIN list |-> If(RelAt(rels, i) < Floor(rels), Scale(list[i], 15), list[i])]

ThinBoost(list, rels, best, x) ==
  LET top == Best(list)
      at == {i \in DOMAIN list : \A j \in DOMAIN list :
               list[j].score < list[i].score \/ (list[j].score = list[i].score /\ i <= j)}
      terms == SelectSeq(x.query, LAMBDA w : ~Is("letter", w))
      need == Most(Least(Len(terms), 5) \div 2, 2)
      good == \E i \in DOMAIN list :
                /\ Cardinality({k \in DOMAIN terms : InText(list[i], terms[k])}) >= need
                /\ RelAt(rels, i) >= 2000
      onTopic == \E i \in at : RelAt(rels, i) >= 3500
      factor == Least((3000 * One) \div Most(top, 100), 25000)
  IN IF Len(list) \in 1..14 /\ top < 3000 /\ best > 500 /\ good /\ onTopic
     THEN Map(list, LAMBDA r : [r EXCEPT !.score = Mul(@, factor)]) ELSE list

\* The k-th page of a host is worth 0.7^(k-1).
Diversify(list) ==
  LET rank(i) == Cardinality({j \in 1..(i - 1) : list[j].host = list[i].host})
      worn(score, n) == FoldLeft(LAMBDA acc, k : Pct(acc, 70), score, [k \in 1..n |-> k])
  IN ByScore([i \in DOMAIN list |-> [list[i] EXCEPT !.score = worn(@, rank(i))]])

\* A host with three fifths of the list and no page on the topic.
Desaturate(list, x) ==
  LET of(h) == {i \in DOMAIN list : list[i].host = h}
      floods(h) == /\ h # NoHost /\ 10 * Cardinality(of(h)) >= 6 * Len(list)
                   /\ ~\E i \in of(h) : OnTopic(list[i], x)
  IN IF Strong(x.kept) = <<>> \/ Len(list) < 3 THEN list
     ELSE ByScore(Map(list, LAMBDA r : If(floods(r.host), Scale(r, 5), r)))

\* A source with half its share or less; the list is not sorted again.
NudgeSources(list) ==
  LET sources == UNION {ToSet(list[i].sources) : i \in DOMAIN list}
      count(s) == Cardinality({i \in DOMAIN list : s \in ToSet(list[i].sources)})
      share == (Len(list) + Cardinality(sources) - 1) \div Most(Cardinality(sources), 1)
  IN IF Cardinality(sources) <= 1 THEN list
     ELSE Map(list, LAMBDA r : If(\E s \in ToSet(r.sources) : 2 * count(s) <= share,
                                  [r EXCEPT !.score = @ + 300], r))

\* The first of the pages with one title, or of alike titles on one host, is kept.
DropSameTitle(list) ==
  LET alike(a, b) == 10 * Cardinality(a \cap b) > 7 * Cardinality(a \cup b)
      step(acc, r) ==
        LET words == Words(r.title) IN
        CASE r.title = <<>> -> [acc EXCEPT !.kept = Append(@, r)]
          [] r.title # <<>> /\ r.title \in acc.titles -> acc
          [] OTHER ->
             IF r.host # NoHost /\ \E t \in acc.onHost : t[1] = r.host /\ alike(words, t[2])
             THEN [acc EXCEPT !.titles = @ \cup {r.title}]
             ELSE [kept |-> Append(acc.kept, r), titles |-> acc.titles \cup {r.title},
                   onHost |-> acc.onHost \cup {<<r.host, words>>}]
  IN FoldLeft(step, [kept |-> <<>>, titles |-> {}, onHost |-> {}], list).kept

CalibrateList(list) ==
  IF list = <<>> THEN list
  ELSE LET f == Calibrate({list[i].score : i \in DOMAIN list}) IN
       Map(list, LAMBDA r : [r EXCEPT !.score = f[@]])

---------------------------------------------------------------------------

Cap(page, bound) == If(page.score > bound, [page EXCEPT !.score = bound, !.cap = bound], page)

\* A weak page keeps its place among the weak ones: at most 0.04, graded by its score.
Graded(page, top) == Mul(400, Most((page.score * One) \div Most(top, 1), 3000))

DefinitionPage(page) ==
  \/ page.marks \cap {"dictPath", "dictTitle", "disambiguation"} # {}
  \/ page.marks \cap {"phonetic", "partOfSpeech"} # {} /\ Len(page.title) <= 3
  \/ {"partOfSpeech", "shortText"} \subseteq page.marks

VideoPage(page) == ToSet(page.sources) \cap {"invidious", "video"} # {} \/ "videoHost" \in page.shape

\* rare: words the dictionary has no frequency for
CapPage(page, x, top) ==
  LET strong == Strong(x.kept)
      rare == SelectSeq(strong, LAMBDA w : Is("rare", w))
      named(ws) == Cardinality({i \in DOMAIN ws : Mentions(page, ws[i])})
      need == If(Len(rare) >= 3, (Len(rare) + 1) \div 2, 1)
      weak(p, off) == IF off /\ p.score > 400 THEN Cap(p, Graded(p, top)) ELSE p
      video == IF VideoPage(page) /\ ~VideoIntent(x.query) THEN Cap(page, 400) ELSE page
      audio == IF "audioHost" \in page.shape /\ "audio" \notin x.traits THEN Cap(video, 200) ELSE video
      topics == weak(audio, Len(strong) >= 3 /\ named(strong) < 2)
      anchors == weak(topics, rare # <<>> /\ named(rare) < need)
      compared == AnchorTerms(x.kept)
  IN IF "asksDefinition" \notin x.traits /\ DefinitionPage(page) THEN Cap(page, 300)
     ELSE IF ComparisonQuery(x.kept) /\ compared # {} /\ ~\E w \in compared : Mentions(page, w)
          THEN Cap(anchors, Graded(anchors, top)) ELSE anchors

ApplyCaps(list, x) == ByScore(Map(list, LAMBDA r : CapPage(r, x, Best(list))))
=============================================================================
