------------------------------ MODULE Affiliate ------------------------------
(***************************************************************************)
(* The affiliate engine: which network or merchant program applies to a    *)
(* result and the link it gets.  A host and the suffix of a program are    *)
(* sequences of labels; the environment is the set of keys that are set.   *)
(***************************************************************************)
EXTENDS Integers, Sequences, SequencesExt, FiniteSetsExt

ReservedLabels == {"example", "test", "invalid", "localhost"}
ReservedPrefixed == {"example-merchant", "example_shop"}

\* is_reserved_placeholder_url, also of what has no host.
Placeholder(host) ==
  host = <<>> \/ ToSet(host) \cap (ReservedLabels \cup ReservedPrefixed) # {}

\* A fallback nobody can own is dropped, its network stays; the highest
\* priority comes first, in the order of the file among equals.
Load(file) ==
  LET clean(n) == IF n.fallback = "none" \/ Placeholder(n.fallbackHost)
                  THEN [n EXCEPT !.fallback = "none"] ELSE n
      before(i, j) == \/ file[i].priority > file[j].priority
                      \/ file[i].priority = file[j].priority /\ i < j
      order == SetToSortSeq(DOMAIN file, before)
  IN [k \in DOMAIN file |-> clean(file[order[k]])]

Usable(network, env) == network.enabled /\ network.key \in env

\* A suffix of several labels only matches the host it equals.
Matches(program, host) ==
  /\ program.suffix # <<>>
  /\ \/ program.suffix = host
     \/ Len(program.suffix) = 1 /\ program.suffix[1] \in ToSet(host)

NoNetwork == [id |-> "none"]
FirstOr(seq, default) == IF seq = <<>> THEN default ELSE Head(seq)

\* match_program, then first_usable: the merchant's own program before any other.
NetworkFor(ctx, host, env) ==
  LET own   == SelectSeq(ctx.programs, LAMBDA p : Usable(p, env) /\ Matches(p, host))
      catch == SelectSeq(ctx.networks, LAMBDA n : Usable(n, env))
  IN IF host = <<>> THEN FirstOr(catch, NoNetwork) ELSE FirstOr(own, FirstOr(catch, NoNetwork))

\* The host of the merchant is all a link says of the click, unless the policy
\* of the network is to say nothing; parameters without a value are left out.
Subid(network, host) == IF network.policy = "none" THEN <<>> ELSE host

Link(network, url, host, env) ==
  LET value(p) == CASE p.from = "subid" -> Subid(network, host)
                    [] p.from = "env" /\ p.key \in env -> <<p.key>>
                    [] p.from = "env" /\ p.key \notin env -> <<>>
                    [] OTHER -> <<p.key>>
  IN [network |-> network.id, to |-> url,
      params |-> {<<p.name, value(p)>> : p \in {x \in network.params : value(x) # <<>>}},
      fallback |-> network.fallback, disclosed |-> TRUE]

\* decorate_affiliate: a result that has its link keeps it.
NoLink == [network |-> "none"]
Decorate(results, ctx, env) ==
  [i \in DOMAIN results |->
     LET r == results[i]
         network == NetworkFor(ctx, r.host, env)
     IN IF r.link # NoLink \/ network = NoNetwork THEN r
        ELSE [r EXCEPT !.link = Link(network, r.url, r.host, env)]]
===============================================================================
