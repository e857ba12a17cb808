--------------------------- MODULE SearchPipeline ---------------------------
(***************************************************************************)
(* One search from the query to the response: what it is read to ask for,  *)
(* what the sources return, the gates before the merge, the merge and the  *)
(* gates after it.  handle_search is one task; what may differ from run to *)
(* run is who answers in time and the order a HashMap returns its values.  *)
(*                                                                         *)
(* Data: request = [query, quotes, signals, says, span, home, today,       *)
(* traits, operator, engine, pool, cos].  engine is the intent engine's    *)
(* answer, home the place of the client's address; pool holds the pages    *)
(* each source has: local, vector, web (a list per instance and one of     *)
(* shopping), retry, expanded, media (videos, news and images).            *)
(***************************************************************************)
EXTENDS QueryReading, ResultGates

CONSTANTS
  Requests,
  IntentAttempts,     \* the attempts of the retry ladder
  EnoughNegative, EnoughPlain,   \* results below which a retry is worth it
  FewResults          \* results below which the numbers are dropped from the query

ASSUME SizesAssumption == {IntentAttempts, EnoughNegative, EnoughPlain, FewResults} \subseteq Nat \ {0}

IsList(s) == s \in Seq(ToSet(s))
PageFields == {"id", "host", "hosts", "title", "body", "urlWords", "alt", "marks", "type", "published", "mentions", "urlYear",
               "sources", "price", "currency", "score", "cap"}
IsShelf(list) == IsList(list) /\ \A i \in DOMAIN list : PageFields \subseteq DOMAIN list[i]

\* What the types of the code say of a request and of what the sources return.
ASSUME RequestsAssumption ==
  \A r \in Requests :
    /\ IsList(r.query)
    /\ {"intent", "conf", "dist", "c"} \subseteq DOMAIN r.engine
    /\ DOMAIN NoConstraints \subseteq DOMAIN r.engine.c
    /\ IsList(r.engine.c.negative) /\ IsList(r.engine.c.positive) /\ IsFiniteSet(r.engine.c.entities)
    /\ \A list \in {r.pool.local, r.pool.vector, r.pool.retry, r.pool.expanded, r.pool.media} : IsShelf(list)
    /\ IsList(r.pool.web) /\ \A i \in DOMAIN r.pool.web : IsShelf(r.pool.web[i])

VARIABLES
  stage,      \* the step handle_search is at
  request,
  tries,      \* failed attempts to reach the intent engine
  reading,    \* [intent, conf, dist, c], NoReading before
  degraded,   \* the reading is the gateway's own
  found,      \* [local, web, rrf]
  asked,      \* [c, dated, priced]: what was asked and found before a gate was opened
  snapshot,   \* the constraints the merge works with
  answer,     \* the ranked list
  report      \* what the response says of the constraints

vars == <<stage, request, tries, reading, degraded, found, asked, snapshot, answer, report>>

Stages == {"intent", "gather", "vector", "retry", "relax", "media", "dedup", "semantic", "open", "negative", "filter",
           "narrow", "gate", "merge", "exclude", "nudge", "final", "polish", "report", "done", "failed"}
NoReading == [intent |-> "none", conf |-> 0, dist |-> <<>>, c |-> NoConstraints]
NoReport == [c |-> NoConstraints, applied |-> Applied(NoConstraints), ignored |-> {}, warnings |-> {}]

q == request.query
c == reading.c
Place == IF ExplicitLocation(q) # Nowhere THEN ExplicitLocation(q) ELSE request.home

Init ==
  /\ request \in Requests
  /\ stage = "intent" /\ tries = 0 /\ degraded = FALSE /\ reading = NoReading
  /\ found = [local |-> <<>>, web |-> <<>>, rrf |-> <<>>]
  /\ asked = [c |-> NoConstraints, dated |-> FALSE, priced |-> FALSE] /\ snapshot = NoConstraints /\ answer = <<>> /\ report = NoReport

Goto(from, to) == stage = from /\ stage' = to

---------------------------------------------------------------------------
\* The engine's answer, or the gateway's own, made into what is asked for.
Understand(r) ==
  LET own == GatewayConstraints(q, request.quotes)
      clean == SanitizeConstraints(r.c)
      merged == AddSpokenPrice(MergeConstraints(clean, own), q)
      full == AddLocation(SanitizeConstraints(Plain(merged)), q, Place)
      shaped == CorrectIntent(r, q, RecencyWindow(request.says, request.span, request.today))
  IN OverrideIntent(IntentContract([shaped EXCEPT !.c = full]), q, request.signals)

ReadAs(r) == reading' = Understand(r) /\ stage' = "gather"

\* Mutant: the ladder has no last rung.
AskForever ==
  /\ stage = "intent"
  /\ UNCHANGED <<request, found, asked, snapshot, answer, report, degraded>>
  /\ \/ ReadAs(request.engine) /\ UNCHANGED tries
     \/ tries' = (tries + 1) % IntentAttempts /\ UNCHANGED <<stage, reading>>

\* An attempt answers, or fails and is followed by the next; after the last the
\* gateway reads the query itself.
AskIntent ==
  /\ stage = "intent"
  /\ UNCHANGED <<request, found, asked, snapshot, answer, report>>
  /\ \/ ReadAs(request.engine) /\ UNCHANGED <<tries, degraded>>
     \/ /\ tries' = tries + 1
        /\ IF tries' < IntentAttempts THEN UNCHANGED <<stage, reading, degraded>>
           ELSE ReadAs(FallbackIntent(q, request.quotes)) /\ degraded' = TRUE

\* Every instance answers or does not, and so does the index.
GatherAnswers ==
  /\ Goto("gather", "vector")
  /\ \E up \in SUBSET DOMAIN request.pool.web, local \in {<<>>, request.pool.local} :
       LET lists == [i \in DOMAIN request.pool.web |-> IF i \in up THEN request.pool.web[i] ELSE <<>>]
           add(acc, batch) == Gather(acc, batch, 100)
           g == FoldLeft(add, [web |-> <<>>, rrf |-> <<>>], lists)
       IN found' = [local |-> local, web |-> g.web, rrf |-> g.rrf]
  /\ UNCHANGED <<request, tries, reading, degraded, asked, snapshot, answer, report>>

AnyOrder(list) == {[i \in DOMAIN list |-> list[p[i]]] : p \in Bijection(DOMAIN list, DOMAIN list)}

\* The query by meaning answers in time or leaves the local results alone.
AskByMeaning ==
  /\ Goto("vector", "retry")
  /\ \/ UNCHANGED found
     \/ /\ request.pool.vector # <<>>
        /\ \E local \in AnyOrder(FuseVector(found.local, request.pool.vector)) : found' = [found EXCEPT !.local = local]
  /\ UNCHANGED <<request, tries, reading, degraded, asked, snapshot, answer, report>>

\* A query that only excludes is asked again of several instances in any case.
Sparse ==
  \/ Len(found.web) < (IF OnlyNegative(c) THEN EnoughNegative ELSE EnoughPlain)
  \/ OnlyNegative(c) /\ Len(request.pool.web) > 1

\* The expanded queries, when there are few results or an alternative is asked for.
AskAgain ==
  /\ Goto("retry", "relax")
  /\ \/ UNCHANGED found
     \/ /\ Sparse \/ (c.negative # <<>> /\ Contrastive(q))
        /\ LET g == GatherNew([web |-> found.web, rrf |-> found.rrf], request.pool.retry, 100) IN
           found' = [found EXCEPT !.web = g.web, !.rrf = g.rrf]
  /\ UNCHANGED <<request, tries, reading, degraded, asked, snapshot, answer, report>>

\* The query without its numbers is asked but its answer is dropped; what the
\* expanded queries find by the way earns nothing.
AskRelaxed ==
  /\ Goto("relax", "media")
  /\ \/ UNCHANGED found
     \/ /\ Len(found.web) < FewResults /\ RelaxNumbers(q) # <<>>
        /\ found' = [found EXCEPT !.web = @ \o request.pool.expanded, !.local = AddLocal(@, request.pool.vector)]
  /\ UNCHANGED <<request, tries, reading, degraded, asked, snapshot, answer, report>>

\* Videos, news and images come last, whether or not the retries were needed.
GatherMedia ==
  /\ Goto("media", "dedup")
  /\ \E media \in {<<>>, request.pool.media} :
       LET g == Gather([web |-> found.web, rrf |-> found.rrf], media, 100) IN
       found' = [found EXCEPT !.web = g.web, !.rrf = g.rrf]
  /\ UNCHANGED <<request, tries, reading, degraded, asked, snapshot, answer, report>>

---------------------------------------------------------------------------
\* The gates before the merge.

Web(list) == found' = [found EXCEPT !.web = list]

Deduplicate ==
  /\ Goto("dedup", "semantic")
  /\ Web(NormaliseRank(DedupWeb([web |-> found.web, rrf |-> found.rrf]), found.rrf))
  /\ UNCHANGED <<request, tries, reading, degraded, asked, snapshot, answer, report>>

KeepRelevant ==
  /\ Goto("semantic", "open")
  /\ Web(IF found.web = <<>> THEN <<>> ELSE SemanticFilter(found.web, q, OnlyNegative(c)))
  /\ UNCHANGED <<request, tries, reading, degraded, asked, snapshot, answer, report>>

\* The date window and the price bounds are lifted when nothing could meet them.
OpenGates ==
  /\ Goto("open", "negative")
  /\ reading' = [reading EXCEPT !.c = PriceFailOpen(found.web, DateFailOpen(found.web, c))]
  /\ asked' = [c |-> c, priced |-> Priced(found.web),
               dated |-> \E i \in DOMAIN found.web : ItemDate(found.web[i]) # NoDate]
  /\ UNCHANGED <<request, tries, degraded, found, snapshot, answer, report>>

DemoteExcluded ==
  /\ Goto("negative", "filter")
  /\ Web(Boosted(NegativeFilter(found.web, c), c))
  /\ UNCHANGED <<request, tries, reading, degraded, asked, snapshot, answer, report>>

KeepConforming ==
  /\ Goto("filter", "narrow")
  /\ Web(PreFilter(found.web, c))
  /\ UNCHANGED <<request, tries, reading, degraded, asked, snapshot, answer, report>>

NarrowToPrice ==
  /\ Goto("narrow", "gate")
  /\ found' = [found EXCEPT !.web = PriceNarrow(@, c, request.operator), !.local = LocalGate(@, q)]
  /\ UNCHANGED <<request, tries, reading, degraded, asked, snapshot, answer, report>>

\* The constraints are copied for the merge; then the exclusions are sorted.
SortExclusions ==
  /\ Goto("gate", "merge")
  /\ snapshot' = c
  /\ reading' = [reading EXCEPT !.c = TrimPositives(q, Gate(q, @))]
  /\ Web(DropOfficial(found.web, reading'.c))
  /\ UNCHANGED <<request, tries, degraded, asked, answer, report>>

---------------------------------------------------------------------------
\* cos: the cosines of the embedding, when it answered
Context(cos) ==
  [query |-> q, kept |-> StripNegation(q).kept, excluded |-> StripNegation(q).excluded,
   intent |-> reading.intent, weights |-> Weights(reading.dist), c |-> snapshot, place |-> Place,
   explicit |-> ExplicitLocation(q) # Nowhere, cos |-> cos, today |-> request.today, traits |-> request.traits]

\* s: what ScoreAll made of the list
Lifted(s, x) ==
  ThinBoost(ApplyFloor(DropAdult(DropCrossLingual(DropOffTopic(s.list, x), x), x), s.rels), s.rels, s.best, x)

Ranked(local, web, x) ==
  ApplyCaps(CalibrateList(DropSameTitle(NudgeSources(Desaturate(Diversify(
    Lifted(ScoreAll(MergeLists(local, web), x, Priced(web)), x)), x)))), x)

\* The ranking runs on a thread of its own; when that dies the request fails.
Merge ==
  /\ stage = "merge"
  /\ \/ \E cos \in {<<>>, request.cos} : answer' = Ranked(found.local, found.web, Context(cos)) /\ stage' = "exclude"
     \/ stage' = "failed" /\ UNCHANGED answer
  /\ UNCHANGED <<request, tries, reading, degraded, found, asked, snapshot, report>>

\* Mutant: the filter reads the copy that was made for the merge.
DropExcludedStale ==
  /\ Goto("exclude", "nudge")
  /\ answer' = IF snapshot.negative = <<>> THEN answer ELSE HardNegative(TitlePenalty(answer, snapshot), snapshot)
  /\ UNCHANGED <<request, tries, reading, degraded, found, asked, snapshot, report>>

DropExcluded ==
  /\ Goto("exclude", "nudge")
  /\ answer' = IF c.negative = <<>> THEN answer ELSE HardNegative(TitlePenalty(answer, c), c)
  /\ UNCHANGED <<request, tries, reading, degraded, found, asked, snapshot, report>>

NudgeClean ==
  /\ Goto("nudge", "final")
  /\ answer' = Nudge(answer, c, Contrastive(q))
  /\ UNCHANGED <<request, tries, reading, degraded, found, asked, snapshot, report>>

ApplyConstraints ==
  /\ Goto("final", "polish")
  /\ answer' = BoostAndSort(FinalFilter(answer, c), c)
  /\ UNCHANGED <<request, tries, reading, degraded, found, asked, snapshot, report>>

Polish ==
  /\ Goto("polish", "report")
  /\ answer' = DropJunk(ClampUnderCap(answer))
  /\ UNCHANGED <<request, tries, reading, degraded, found, asked, snapshot, report>>

Warnings(stated) ==
  (IF degraded THEN {"degraded"} ELSE {})
  \cup (IF found.web # <<>> /\ answer = <<>> THEN {If(HasDates(stated), "dates", "constraints")} ELSE {})

\* The dates and prices counted are those of the web results before the gates.
Report ==
  /\ Goto("report", "done")
  /\ LET stated == Restore(c, asked.c) IN
     report' = [c |-> stated, applied |-> Applied(stated),
                ignored |-> Ignored(stated, asked.dated, asked.priced), warnings |-> Warnings(stated)]
  /\ UNCHANGED <<request, tries, reading, degraded, found, asked, snapshot, answer>>

Finished == stage \in {"done", "failed"} /\ UNCHANGED vars

Next ==
  \/ AskIntent \/ GatherAnswers \/ AskByMeaning \/ AskAgain \/ AskRelaxed \/ GatherMedia
  \/ Deduplicate \/ KeepRelevant \/ OpenGates \/ DemoteExcluded \/ KeepConforming \/ NarrowToPrice \/ SortExclusions
  \/ Merge \/ DropExcluded \/ NudgeClean \/ ApplyConstraints \/ Polish \/ Report
  \/ Finished

\* A step is enabled until the search has ended: WF_vars(Next), with its
\* ENABLED written out.
Progress == []<>(stage \in {"done", "failed"}) \/ []<><<stage' # stage \/ tries' # tries>>_vars

Spec == Init /\ [][Next]_vars /\ Progress

---------------------------------------------------------------------------
TypeOK ==
  /\ stage \in Stages /\ request \in Requests /\ tries \in 0..IntentAttempts /\ degraded \in BOOLEAN
  /\ reading.intent \in ToSet(Supported) \cup {"none"}
  /\ \A i \in DOMAIN answer : answer[i].score \in -One..(20 * One)

\* A page that the merge capped (a definition, a weak match, an unasked video) is
\* answered at its cap or below, whatever nudges, boosts and clamps came after it.
CapsHold ==
  stage \in {"report", "done"} =>
    \A i \in DOMAIN answer :
      answer[i].cap # NoCap => answer[i].score < answer[i].cap \/ answer[i].score = answer[i].cap

\* No gate between the sources and the merge takes the last web result away, but
\* two: titles about a superlative go even to zero when all pages are poor, and of
\* a query that only excludes, the official sites of what it excludes go although
\* there is nothing else.
Emptied ==
  \/ stage = "semantic" /\ Superlative(q) /\ Garbage(found.web, q, OnlyNegative(c))
  \/ /\ stage = "gate" /\ OnlyNegative(c')
     /\ \A i \in DOMAIN found.web : \E t \in ExpandNegatives(c'.negative) : OfficialSite(found.web[i], t)

GatesLeaveSomething ==
  [][/\ found.web # <<>> /\ stage \in {"dedup", "semantic", "negative", "filter", "narrow", "gate"}
     /\ ~Emptied
     => Len(found'.web) > 0]_vars

\* When a result of the web has a price, no page whose text tells a price beyond
\* the bounds is answered, compared as dollars, across merge and fail-opens; but
\* for the relatives of a site asked for, and for a query with an exclusion of
\* whose pages not one meets its constraints.
NothingBeyondTheBound ==
  stage = "done" /\ asked.priced =>
    \/ \A i \in DOMAIN answer :
         Told(answer[i]) # NoCost => ~Beyond(Told(answer[i]), asked.c) \/ RelatedOnly(answer[i], c)
    \/ c.negative # <<>> /\ \A i \in DOMAIN answer : ShouldFilter(answer[i], c)

\* The price bounds of the response are those that were asked, though the gates
\* may have been opened in between, when one upper and one lower bound were asked.
OneBound(b) == (b.lt # NoPrice => b.max = b.lt) /\ (b.gt # NoPrice => b.min = b.gt)
ReportedPriceIsAsked ==
  stage = "done" /\ OneBound(asked.c) => \A bound \in {"min", "max", "lt", "gt"} : report.c[bound] = asked.c[bound]

\* Of a query that asks for something and excludes something, the answer names no
\* excluded term in a title or an address, or does so in every page; lists of
\* alternatives may.  What is excluded is what the gate has left, found by the engine
\* or by the gateway, whatever the copy says that the merge scored with, and neither
\* the nudge, the last filter nor its fail-open brings a page back.
ExcludedStayOut ==
  stage = "done" /\ c.positive # <<>> /\ c.negative # <<>> =>
    \/ \A i \in DOMAIN answer : ~NamesExcluded(answer[i], c)
    \/ \A i \in DOMAIN answer : NamesExcluded(answer[i], c)

\* Every search ends in a response, also with a silent intent engine.
EverySearchEnds == <>(stage \in {"done", "failed"})

=============================================================================
