------------------------------- MODULE SeenSet -------------------------------
(***************************************************************************)
(* The crawler's bounded set of seen URLs (SeenSet): two generations, the  *)
(* older of which is forgotten when the younger has filled half of the     *)
(* capacity.  A set is a record of its generations; the operators are pure *)
(* and module SeenSetMachine gives them their life.                        *)
(***************************************************************************)
EXTENDS Naturals, FiniteSets

CONSTANTS
  Urls,      \* normalized URLs
  Capacity   \* argument of with_capacity (MAX_SEEN_URLS)

ASSUME CapacityAssumption == Capacity \in Nat

Cap == IF Capacity > 2 THEN Capacity ELSE 2
Half == Cap \div 2

SeenSets == [old : SUBSET Urls, cur : SUBSET Urls]

EmptySeen == [old |-> {}, cur |-> {}]

Contains(s, u) == u \in s.cur \/ u \in s.old

Members(s) == s.old \cup s.cur

\* len() adds the sizes of the generations.
Size(s) == Cardinality(s.old) + Cardinality(s.cur)

\* Mutant: a rotation clears both generations.
InsertForgetful(s, u) ==
  IF Contains(s, u) THEN s
  ELSE IF Cardinality(s.cur) >= Half
       THEN [old |-> {}, cur |-> {u}]
       ELSE [s EXCEPT !.cur = @ \cup {u}]

Insert(s, u) ==
  IF Contains(s, u) THEN s
  ELSE IF Cardinality(s.cur) >= Half
       THEN [old |-> s.cur, cur |-> {u}]
       ELSE [s EXCEPT !.cur = @ \cup {u}]
===============================================================================
