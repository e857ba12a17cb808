-------------------------------- MODULE Lists --------------------------------
(***************************************************************************)
(* Vec::iter with filter, map and sort_by: the elements of a list at some  *)
(* of its positions, those that pass a test, every element changed, and a  *)
(* stable descending sort.  All of them are folds over positions.          *)
(***************************************************************************)
EXTENDS Integers, Sequences, SequencesExt

Positions(list) == [i \in DOMAIN list |-> i]

\* The elements at the positions S, in the order they had.
Those(list, S) == FoldLeft(LAMBDA acc, i : IF i \in S THEN Append(acc, list[i]) ELSE acc, <<>>, Positions(list))

Keep(list, Test(_)) == Those(list, {i \in DOMAIN list : Test(list[i])})

Map(list, Op(_)) == [i \in DOMAIN list |-> Op(list[i])]

\* The positions of the keys, the largest first: the next one goes behind all
\* that are not smaller.
Insert(order, keys, i) ==
  LET larger == {k \in DOMAIN order : keys[order[k]] >= keys[i]} IN
  Append(Those(order, larger), i) \o Those(order, (DOMAIN order) \ larger)
Order(keys) == FoldLeft(LAMBDA acc, i : Insert(acc, keys, i), <<>>, Positions(keys))

\* Descending, equals in the order they had.
Descending(list, Op(_)) == LET order == Order(Map(list, Op)) IN [k \in DOMAIN order |-> list[order[k]]]
==============================================================================
