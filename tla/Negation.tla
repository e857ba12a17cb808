------------------------------ MODULE Negation ------------------------------
(***************************************************************************)
(* Which terms a query excludes: the two readings of its negations, the    *)
(* test that tells an exclusion from a manner of doing, and the gate that  *)
(* sorts the candidates of all sources into hard and soft exclusions.      *)
(*                                                                         *)
(* Data: a query is a sequence of words, a term likewise.  A word written  *)
(* with a leading minus has the kind "dashed", one followed by a comma     *)
(* "comma", one that carries an operator (site:...) "operator".            *)
(***************************************************************************)
EXTENDS QueryTerms

NegMarkers == {"not", "no", "without", "except", "excluding", "minus"}
MarkerPairs == {<<"other", "than">>, <<"rather", "than">>, <<"alternative", "to">>, <<"instead", "of">>}

At(q, i, ws) == i + Len(ws) - 1 <= Len(q) /\ SubSeq(q, i, i + Len(ws) - 1) = ws
Begins(q, ws) == At(q, 1, ws)
AnyOf(kinds, t) == \E i \in DOMAIN t : Kind[t[i]] \cap kinds # {}
AllOf(kind, t) == \A i \in DOMAIN t : Is(kind, t[i])

MannerPhrase(t) == AnyOf({"mannerPronoun", "mannerVerb"}, t)

HeadFrames ==
  {<<"how", "to">>, <<"how", "do">>, <<"how", "can">>, <<"how", "should">>, <<"how", "would">>, <<"how", "i">>,
   <<"ways", "to">>, <<"ways", "of">>, <<"best", "way">>, <<"best", "ways">>, <<"tips", "for">>, <<"tip", "for">>,
   <<"guide", "to">>, <<"guide", "for">>, <<"trick", "to">>, <<"tricks", "for">>}

\* Without the term in instructions is a manner; so is a term about the asker.
MannerFrame(q, t) ==
  \/ /\ \E lead \in {<<"without">>, <<"without", "a">>, <<"without", "an">>, <<"without", "the">>,
                     <<"with", "no">>, <<"with", "no", "a">>} : Phrase(q, lead \o t)
     /\ \E head \in HeadFrames : Begins(q, head)
  \/ AnyOf({"mannerPronoun"}, t)

Procedural(q) ==
  \E frame \in {<<"how", "to">>, <<"how", "do">>, <<"how", "can">>, <<"ways", "to">>, <<"best", "way">>,
                <<"tips", "for">>, <<"guide", "to">>} : Phrase(q, frame)

Subjective(t) == t # <<>> /\ AllOf("subjective", t)
GrammarNoise(t) == AnyOf({"subjective"}, t) \/ AllOf("grammar", t)
VerbAttribute(t) == t = <<>> \/ Kind[t[1]] \cap {"mannerVerb", "verbHead", "attributeNoun", "mannerPronoun"} # {}

\* One marker of contrast, or two negations.
Contrastive(q) ==
  \/ AnyOf({"contrast"}, q) \/ Phrase(q, <<"rather", "than">>) \/ Phrase(q, <<"other", "than">>)
  \/ Cardinality({i \in 1..(Len(q) - 1) :
       \/ q[i] \in NegMarkers \cup {"besides"}
       \/ i < Len(q) - 1 /\ <<q[i], q[i + 1]>> \in MarkerPairs \ {<<"rather", "than">>}}) >= 2

\* "not", no predicate before it, and the term's own word after it.
BareNot(q, t) ==
  \E i \in DOMAIN q :
    LET next == {k \in (i + 1)..Len(q) : ~Is("determiner", q[k])} IN
    /\ q[i] = "not" /\ (i > 1 => ~Is("auxiliary", q[i - 1]))
    /\ t # <<>> /\ next # {} /\ q[Min(next)] = t[1]
    /\ ~GrammarNoise(<<t[1]>>) /\ ~Is("participle", t[1])

RealExclusion(t, q) ==
  IF MannerPhrase(t) THEN FALSE
  ELSE IF t \in {<<"pay">>, <<"paying">>} THEN AnyOf({"money"}, q)
  ELSE IF AnyOf({"protected", "demonym"}, t) THEN TRUE
  ELSE IF \E w \in {"in", "about", "rated"} : Phrase(q, <<"not", w>>) THEN FALSE
  ELSE \/ /\ ~Procedural(q) /\ ~AnyOf({"attributeNoun"}, t)
          /\ ~Subjective(t) /\ ~VerbAttribute(t) /\ ~GrammarNoise(t)
       \/ \E i \in DOMAIN q : Is("capital", q[i]) /\ Has(t, q[i])
       \/ Contrastive(q) \/ BareNot(q, t)

---------------------------------------------------------------------------
\* The first reading: a marker, and the words after it that belong together.

Marker(w) == w \in NegMarkers \/ Is("dashed", w)

MarkerLength(q, i) ==
  IF \E p \in MarkerPairs : At(q, i, p) THEN 2 ELSE If(Marker(q[i]), 1, 0)

SkipStops(q, j, n) == Min({k \in j..(j + n) : k = j + n \/ k > Len(q) \/ ~Is("negStop", q[k])})

\* Over up to three stop words, and over a verb such as "using" with up to four more.
Target(q, i) ==
  LET at == SkipStops(q, i + MarkerLength(q, i), 3)
      past == SkipStops(q, at + 1, 4)
  IN IF at <= Len(q) /\ Is("trailer", q[at]) /\ past <= Len(q) THEN past ELSE at

\* The words before the first negation: the topic, which ends a compound.
SubjectWords(q) ==
  LET first == Min({Len(q) + 1} \cup {i \in DOMAIN q : MarkerLength(q, i) > 0}) IN
  {q[i] : i \in {k \in 1..(first - 1) : q[k] \in {"than", "calling", "prior"} \/ ~Is("negStop", q[k])}}

\* The compounds that begin at j: the finished ones and the one that is still open.
Compounds(q, j) ==
  LET flush(acc) == IF acc.run = <<>> THEN acc ELSE [acc EXCEPT !.done = Append(@, acc.run), !.run = <<>>]
      ended(acc) == [acc EXCEPT !.over = TRUE]
      take(acc, w) == [acc EXCEPT !.run = Append(@, w)]
      step(acc, w) ==
        IF acc.over THEN acc
        ELSE IF Marker(w) THEN ended(acc)
        ELSE IF Is("operator", w) THEN ended(flush(acc))
        ELSE IF w \in {"and", "or"} THEN flush(acc)
        ELSE IF Kind[w] \cap {"negStop", "genericNeg"} # {} THEN ended(acc)
        ELSE IF w \in SubjectWords(q) /\ acc.run # <<>> THEN ended(flush(acc))
        ELSE IF Is("comma", w) THEN flush(take(acc, w)) ELSE take(acc, w)
  IN FoldLeft(step, [run |-> <<q[j]>>, done |-> <<>>, over |-> FALSE], SubSeq(q, j + 1, Len(q)))

\* A term met twice, and the nothing left after a flush, count as declined.
Record(acc, t, q) ==
  IF t # <<>> /\ RealExclusion(t, q) /\ t \notin ToSet(acc.terms) THEN [acc EXCEPT !.terms = Append(@, t)]
  ELSE IF MannerPhrase(t) \/ MannerFrame(q, t) THEN acc
  ELSE [acc EXCEPT !.dropped = Append1(@, t)]

\* One round of the scan at acc.at.  A dashed word is a marker, so that its
\* target is the word after it.
ScanStep(acc, q) ==
  LET j == Target(q, acc.at)
      found == Compounds(q, j)
      recorded == FoldLeft(LAMBDA a, t : Record(a, t, q), acc, Append(found.done, found.run))
      target == ~Marker(q[j]) /\ Kind[q[j]] \cap {"letter", "genericNeg", "operator"} = {}
  IN IF MarkerLength(q, acc.at) = 0 THEN [acc EXCEPT !.at = @ + 1]
     ELSE IF j > Len(q) \/ ~target THEN [acc EXCEPT !.at = j]
     ELSE [recorded EXCEPT !.at = j + Len(found.run)]

QueryNegatives(q) ==
  FoldLeft(LAMBDA acc, w : IF acc.at > Len(q) THEN acc ELSE ScanStep(acc, q),
           [at |-> 1, terms |-> <<>>, dropped |-> <<>>], q)

---------------------------------------------------------------------------
\* The second reading: what follows an unambiguous lead, up to five words.

Leads == << <<"not", "from">>, <<"except", "for">>, <<"except">>, <<"excluding">>, <<"without">>,
            <<"other", "than">>, <<"anything", "but">>, <<"alternative", "to">>, <<"besides">>, <<"no">> >>

Entities(q, from) ==
  LET start == Min({Len(q) + 1} \cup {k \in from..Len(q) : ~Is("nlStop", q[k])})
      step(acc, w) ==
        IF acc.over \/ Len(acc.run) = 5 \/ Is("digits", w) THEN [acc EXCEPT !.over = TRUE]
        ELSE IF acc.run # <<>> /\ w \in {"and", "or"} THEN [acc EXCEPT !.found = Append(@, acc.run), !.run = <<>>]
        ELSE IF Is("nlStop", w) THEN [acc EXCEPT !.over = TRUE]
        ELSE [acc EXCEPT !.run = Append(@, w)]
      end == FoldLeft(step, [run |-> <<>>, found |-> <<>>, over |-> FALSE], SubSeq(q, start, Len(q)))
  IN IF end.run = <<>> THEN end.found ELSE Append(end.found, end.run)

ExplicitNegatives(q) ==
  LET of(lead) == FoldLeft(LAMBDA acc, i : IF At(q, i, lead) THEN acc \o Entities(q, i + Len(lead)) ELSE acc,
                           <<>>, [i \in DOMAIN q |-> i])
  IN FoldLeft(LAMBDA acc, lead : FoldLeft(Append1, acc, of(lead)), <<>>, Leads)

EngineExclusions(q, entities) ==
  {e.text : e \in {f \in entities : /\ f.role = "exclusion" /\ ~GrammarNoise(f.text) /\ ~Subjective(f.text)
                                    /\ ~MannerFrame(q, f.text) /\ ~VerbAttribute(f.text) /\ RealExclusion(f.text, q)}}

---------------------------------------------------------------------------
\* Every candidate for an exclusion, of the engine and of both readings.
RawNegatives(q, c) ==
  FoldLeft(Append1, c.negative, QueryNegatives(q).terms \o ExplicitNegatives(q) \o SetToSeq(EngineExclusions(q, c.entities)))

\* A directive is hard unless it is a manner; another candidate is hard when it
\* passes the test, soft when it is no manner.  What the first reading declined
\* is soft, whatever else it is.
Sorted(q, c, raw, explicit) ==
  LET hard == Keep(raw, LAMBDA t : t \notin explicit /\ RealExclusion(t, q))
      soft == Keep(raw, LAMBDA t : t \notin explicit /\ ~RealExclusion(t, q)
                                   /\ ~MannerPhrase(t) /\ ~MannerFrame(q, t))
  IN [c EXCEPT !.negative = hard \o Keep(raw, LAMBDA t : t \in explicit /\ ~MannerFrame(q, t)),
               !.soft = FoldLeft(Append1, soft, QueryNegatives(q).dropped)]

\* A requirement that is excluded, or one word of what a directive excludes, goes.
Wanted(c, explicit) ==
  LET wanted(p) == /\ p \notin explicit /\ ~(Len(p) = 1 /\ \E e \in explicit : p[1] \in Words(e))
                   /\ p \notin ToSet(c.negative)
  IN [c EXCEPT !.positive = Keep(@, wanted)]

Gate(q, c) ==
  LET explicit == ToSet(ExplicitNegatives(q)) IN Wanted(Sorted(q, c, RawNegatives(q, c), explicit), explicit)

\* A long query loses the requirements that are a single common, numeric or short word.
TrimPositives(q, c) ==
  LET specific(p) == Len(p) > 1 \/ Kind[p[1]] \cap {"common", "number", "short"} = {} IN
  IF Len(q) > 15 /\ Len(c.positive) > 3 THEN [c EXCEPT !.positive = Keep(@, specific)] ELSE c
=============================================================================
