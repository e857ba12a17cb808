------------------------------- MODULE Shopping -------------------------------
(***************************************************************************)
(* The commerce side of one request.  handle_search, once its results are  *)
(* ranked, enriches a clone of the first ones and shows those with facts   *)
(* as a strip; handle_shopping runs it and then enriches the results.  An  *)
(* enrichment fetches pages in waves, in tasks of their own, which deliver *)
(* through a channel until the wall clock ends it; nobody stops a task.    *)
(*                                                                         *)
(* A result is a record: url, host, offer and provenance (or NoOffer), and *)
(* the affiliate link.  now counts the seconds since the request arrived.  *)
(***************************************************************************)
EXTENDS OfferFacts, Affiliate

CONSTANTS
  Ranked,       \* the results of the search, as <<url, host>>
  Content,      \* url -> what its page states
  Requests,     \* what is asked: path, label, strong, bound, exact, keyword
  Context, Env, \* the affiliate programs as loaded and the keys that are set
  SearchTimes,  \* how long the search may take
  MaxParallel, Window, TopN

Budget == 30
Headroom == 6
WallCeiling == 4
FetchCap == 3

ASSUME ShoppingAssumption ==
  /\ {MaxParallel, Window, TopN} \subseteq Nat \ {0} /\ SearchTimes \subseteq Nat
  /\ Ranked \in Seq((DOMAIN Content) \X Seq(STRING))

VARIABLES request, stage, now,
          results,   \* what is being enriched: the clone, then the results; what is answered
          pass,      \* 1 for the clone, 2 for the results
          deadline,  \* when the wall clock ends this pass
          waves,     \* the indices still to fetch, in groups
          tasks,     \* running fetches: <<pass, index>> -> when they time out
          channel,   \* indices delivered to this pass and not received yet
          due,       \* how many more the drain of this wave expects
          fetched,   \* the indices received
          strip, comparisons, searched, asked

vars == <<request, stage, now, results, pass, deadline, waves, tasks, channel, due, fetched,
          strip, comparisons, searched, asked>>
fetching == <<waves, tasks, channel, due, fetched>>

NoOffer == [source |-> "none"]
Plain == [i \in DOMAIN Ranked |->
            [url |-> Ranked[i][1], host |-> Ranked[i][2], offer |-> NoOffer, provenance |-> NoOffer, link |-> NoLink]]
Stages == {"search", "wave", "drain", "attach", "copy", "reply", "answered", "lost"}

Init ==
  /\ request \in Requests /\ stage = "search" /\ now = 0 /\ searched = 0
  /\ results = <<>> /\ pass = 0 /\ deadline = 0 /\ waves = <<>> /\ tasks = <<>>
  /\ channel = <<>> /\ due = 0 /\ fetched = <<>> /\ strip = <<>> /\ comparisons = {} /\ asked = <<{}, {}>>

-------------------------------------------------------------------------------
Least(a, b) == IF a < b THEN a ELSE b
Left(n, m) == IF n > m THEN n - m ELSE 0

\* Mutant: the enrichment has four seconds, however long the search took.
FlatWall(elapsed) == WallCeiling

\* commerce_wall_for_elapsed: the time of the search comes off the ceiling.
Wall(elapsed) == Left(Least(WallCeiling, Budget - Headroom), elapsed)

Commercial(r) == r.bound \/ r.label = "transactional" \/ r.strong \/ r.exact \/ r.keyword

Chunks(seq, n) ==
  [k \in 1..((Len(seq) + n - 1) \div n) |-> SubSeq(seq, (k - 1) * n + 1, Least(k * n, Len(seq)))]

\* The members of a finite set of numbers, the smaller first.
Ascending(S) ==
  [k \in 1..Cardinality(S) |-> CHOOSE n \in S : Cardinality({m \in S : m < n}) = k - 1]

\* The first results without an offer, as many as the window takes.
Eligible(list) ==
  LET open == Ascending({i \in DOMAIN list : list[i].offer = NoOffer})
  IN SubSeq(open, 1, Least(Len(open), Window))

\* Enrich list as the given pass.
Enrich(list, number) ==
  /\ results' = list /\ pass' = number /\ deadline' = now' + Wall(now')
  /\ waves' = Chunks(Eligible(list), Max({1, Least(MaxParallel, Len(list))}))
  /\ channel' = <<>> /\ due' = 0 /\ fetched' = <<>> /\ stage' = "wave"
  /\ UNCHANGED tasks

\* The search ends; a commercial one goes on with a clone of its first results.
Search ==
  /\ stage = "search"
  /\ now' \in SearchTimes /\ searched' = now'
  /\ UNCHANGED <<request, strip, comparisons, asked>>
  /\ \/ /\ now' < Budget /\ Commercial(request) /\ Ranked # <<>>
        /\ Enrich(SubSeq(Plain, 1, Least(Window, Len(Plain))), 1)
     \/ /\ now' < Budget /\ (~Commercial(request) \/ Ranked = <<>>)
        /\ stage' = IF request.path = "shopping" THEN "copy" ELSE "reply"
        /\ UNCHANGED <<results, pass, deadline, fetching>>
     \/ now' >= Budget /\ stage' = "lost" /\ UNCHANGED <<results, pass, deadline, fetching>>

-------------------------------------------------------------------------------
(* One enrichment *)

Quiet == UNCHANGED <<request, results, pass, deadline, strip, comparisons, searched>>

\* commerce_fetch_budget, for the one wave it is always told of
FetchBudget(remaining) == Least(remaining, FetchCap)

StartWave ==
  /\ stage = "wave" /\ waves # <<>> /\ now < deadline
  /\ LET wave == ToSet(Head(waves)) IN
     /\ tasks' = Filled([t \in {<<pass, i>> : i \in wave} |-> now + FetchBudget(deadline - now)], tasks)
     /\ asked' = [asked EXCEPT ![pass] = @ \cup {results[i].url : i \in wave}]
     /\ due' = Cardinality(wave)
  /\ waves' = Tail(waves) /\ stage' = "drain"
  /\ Quiet /\ UNCHANGED <<now, channel, fetched>>

StopWaves ==
  /\ stage = "wave" /\ (waves = <<>> \/ now >= deadline)
  /\ stage' = "attach"
  /\ Quiet /\ UNCHANGED <<now, asked, fetching>>

Ended(t) == tasks' = Restrict(tasks, DOMAIN tasks \ {t})

\* A page arrives; one for a pass that is over has no receiver any more.
Deliver(t) ==
  /\ Ended(t)
  /\ channel' = IF t[1] = pass /\ stage \in {"wave", "drain"} THEN Append(channel, t[2]) ELSE channel
  /\ Quiet /\ UNCHANGED <<stage, now, asked, waves, due, fetched>>

\* A page that cannot be had, or not in time, is not reported to anyone.
GiveUp(t) ==
  /\ Ended(t)
  /\ Quiet /\ UNCHANGED <<stage, now, asked, waves, channel, due, fetched>>

\* The drain expects as many pages as the wave has tasks.
Receive ==
  /\ stage = "drain" /\ channel # <<>>
  /\ fetched' = Append(fetched, Head(channel)) /\ channel' = Tail(channel)
  /\ due' = due - 1 /\ stage' = IF due' = 0 THEN "wave" ELSE "drain"
  /\ Quiet /\ UNCHANGED <<now, asked, waves, tasks>>

\* The wall clock ends the drain, and with it the pass.
Expire ==
  /\ stage = "drain" /\ now >= deadline
  /\ stage' = "wave"
  /\ Quiet /\ UNCHANGED <<now, asked, fetching>>

\* Time passes while the drain waits; the layer around the router ends it all.
Tick ==
  /\ stage = "drain" /\ now < deadline /\ channel = <<>>
  /\ \A t \in DOMAIN tasks : tasks[t] > now
  /\ now' = now + 1
  /\ stage' = IF now' >= Budget THEN "lost" ELSE stage
  /\ Quiet /\ UNCHANGED <<asked, fetching>>

-------------------------------------------------------------------------------
(* What becomes of the pages *)

\* enrich_single_commerce: without a fact there is no offer and no source.
Attach(r, offer) ==
  [r EXCEPT !.offer = IF offer.hasFact THEN offer ELSE @,
            !.provenance = [url |-> r.url, observed |-> offer.observed,
                            source |-> IF offer.hasFact THEN offer.source ELSE "none"]]

\* Every other result says where it was (not) looked up as well.
Enriched ==
  [i \in DOMAIN results |->
     LET r == results[i] IN
     CASE i \in ToSet(fetched) -> Attach(r, Extract(Content[r.url], r.host, now))
       [] i \notin ToSet(fetched) /\ r.provenance = NoOffer ->
            [r EXCEPT !.provenance = [url |-> r.url, observed |-> now, source |-> "none"]]
       [] OTHER -> r]

\* The strip, and the results of /shopping, are decorated for exact models only.
Linked(list) == IF request.exact THEN Decorate(list, Context, Env) ELSE list
WithOffer(list) ==
  LET found == Ascending({i \in DOMAIN list : list[i].offer # NoOffer})
  IN [k \in DOMAIN found |-> list[found[k]]]
Offers(list) == [i \in DOMAIN WithOffer(list) |-> WithOffer(list)[i].offer]

\* select_shopping_strip
Strip(list) ==
  Linked(SubSeq(WithOffer(list), 1, Least(Len(WithOffer(list)), TopN)))

AttachFacts ==
  /\ stage = "attach"
  /\ \/ /\ pass = 1
        /\ strip' = Strip(Enriched) /\ comparisons' = Comparisons(Offers(strip'))
        /\ stage' = IF request.path = "shopping" THEN "copy" ELSE "reply"
        /\ UNCHANGED results
     \/ /\ pass = 2
        /\ results' = Linked(Enriched) /\ comparisons' = Comparisons(Offers(results'))
        /\ stage' = "reply" /\ UNCHANGED strip
  /\ UNCHANGED <<request, now, pass, deadline, fetching, searched, asked>>

\* Mutant: the facts of the strip are not used again.
ReplayNothing(list) == list

\* Mutant: the facts come without their provenance.
ReplayFactsOnly(list) ==
  [i \in DOMAIN list |->
     LET same == {s \in ToSet(strip) : s.url = list[i].url} IN
     IF same = {} THEN list[i] ELSE [list[i] EXCEPT !.offer = (CHOOSE s \in same : TRUE).offer]]

\* copy_commerce_facts_from_shopping_block
Replay(list) ==
  [i \in DOMAIN list |->
     LET same == {s \in ToSet(strip) : s.url = list[i].url}
         shown == CHOOSE s \in same : TRUE
     IN IF same = {} THEN list[i]
        ELSE [list[i] EXCEPT !.offer = shown.offer, !.provenance = shown.provenance]]

\* handle_search decorates the results of every commercial query on their way out.
Returned == IF Commercial(request) THEN Decorate(Plain, Context, Env) ELSE Plain

\* handle_shopping has the response of the search and enriches its results.
CopyFacts ==
  /\ stage = "copy"
  /\ UNCHANGED now
  /\ Enrich(Replay(Returned), 2)
  /\ UNCHANGED <<request, strip, comparisons, searched, asked>>

\* Decorating, serialising and sending take less than the headroom.
Reply ==
  /\ stage = "reply"
  /\ \E d \in 0..(Headroom - 1) :
       /\ now' = now + d
       /\ stage' = IF now' >= Budget THEN "lost" ELSE "answered"
  /\ results' = IF pass = 2 THEN results ELSE Returned
  /\ UNCHANGED <<request, pass, deadline, fetching, strip, comparisons, searched, asked>>

\* Nothing is left to do but for the tasks.
Answered == stage \in {"answered", "lost"} /\ UNCHANGED vars

Next ==
  \/ Search \/ StartWave \/ StopWaves \/ Receive \/ Expire \/ Tick \/ AttachFacts \/ CopyFacts \/ Reply
  \/ \E t \in DOMAIN tasks : Deliver(t) \/ GiveUp(t)
  \/ Answered

Spec == Init /\ [][Next]_vars

-------------------------------------------------------------------------------
TypeOK ==
  /\ request \in Requests /\ stage \in Stages /\ now \in Nat /\ pass \in 0..2 /\ deadline \in Nat
  /\ due \in 0..MaxParallel /\ DOMAIN tasks \subseteq (1..2) \X DOMAIN Ranked
  /\ Len(strip) <= TopN /\ Len(channel) <= MaxParallel

\* Enriching never costs a request its answer: one that the timeout layer ends had
\* already used up all but the headroom when its search was over.
AnswerNotLost == stage = "lost" => searched > Budget - Headroom

\* A result of /shopping or of the strip says where it was looked up, and names
\* the source of its facts exactly if it has any, whichever pass they are from.
ProvenanceHonest ==
  stage = "answered" =>
    \A r \in ToSet(strip) \cup (IF pass = 2 THEN ToSet(results) ELSE {}) :
      /\ r.provenance # NoOffer
      /\ (r.provenance.source # "none") = (r.offer # NoOffer)
      /\ r.offer # NoOffer => r.provenance.source = r.offer.source /\ r.provenance.observed = r.offer.observed

\* A page whose facts the strip shows is not fetched again for the results.
NoFactFetchedAgain == asked[2] \cap {s.url : s \in ToSet(strip)} = {}

Signals(page) ==
  <<FromNodes(CommerceNodes(page.nodes)).facts, OpenGraph(page.meta), Microdata(page.micro), HProduct(page.hproduct)>>

Prices == {"price", "low", "high"}

\* The signal is the first to state a price or a range, the last one if none does.
AsStated(facts, page) ==
  LET signals == Signals(page)
      first == signals[Min({k \in DOMAIN signals : DOMAIN signals[k] \cap Prices # {}} \cup {Len(signals)})]
      container == IF Priced(first) THEN NoFacts ELSE ContainerPrice(page.containers)
  IN Only(facts, Prices) = Filled(Only(container, Prices), Only(first, Prices))

\* The price and the range of an offer are those of one signal of its page, the
\* first that states a price or a range; no other signal fills the gaps.  Only where
\* that one states neither a price nor the start of a range is there the price of a
\* container as well: beside the upper end, if that is all the signal states.
PricesAsStated ==
  \A r \in ToSet(strip) \cup ToSet(results) : r.offer # NoOffer => AsStated(r.offer.facts, Content[r.url])
===============================================================================
