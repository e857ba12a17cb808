---------------------------- MODULE SeenSetMachine ----------------------------
(***************************************************************************)
(* The life of a SeenSet: URLs are inserted, and a restart of the crawler  *)
(* rebuilds the set from the array a snapshot kept (to_vec, then one       *)
(* insert per element in CrawlQueueManager::load, before anything else     *)
(* may insert).                                                            *)
(***************************************************************************)
EXTENDS SeenSet, Sequences, Functions

CONSTANTS MaxInserts    \* bound: accepted inserts

VARIABLES
  set,    \* the set
  mode,    \* "running", or "loading" a snapshot
  vec,     \* while loading, the elements not inserted yet
  origin,   \* history: the set the snapshot was taken of
  log      \* history: the URLs insert accepted, in order

machineVars == <<set, mode, vec, origin, log>>

\* The orders in which a HashSet may yield its elements.
Orders(S) == Injection(1..Cardinality(S), S)

\* Mutant: the younger generation is written first.
VectorsYoungFirst(s) == {c \o o : o \in Orders(s.old), c \in Orders(s.cur)}

\* to_vec: the older generation first, each in any order.
Vectors(s) == {o \o c : o \in Orders(s.old), c \in Orders(s.cur)}

MachineInit ==
  /\ set = EmptySeen
  /\ mode = "running"
  /\ vec = <<>>
  /\ origin = EmptySeen
  /\ log = <<>>

\* insert returns false, and does nothing, for a URL already present.
Add(u) ==
  /\ mode = "running"
  /\ Len(log) < MaxInserts
  /\ set' = Insert(set, u)
  /\ log' = IF Contains(set, u) THEN log ELSE Append(log, u)
  /\ UNCHANGED <<mode, vec, origin>>

Rebuild ==
  /\ mode = "running"
  /\ mode' = "loading"
  /\ vec' \in Vectors(set)
  /\ origin' = set
  /\ set' = EmptySeen
  /\ UNCHANGED log

LoadOne ==
  /\ mode = "loading"
  /\ vec # <<>>
  /\ set' = Insert(set, Head(vec))
  /\ vec' = Tail(vec)
  /\ UNCHANGED <<mode, origin, log>>

LoadDone ==
  /\ mode = "loading"
  /\ vec = <<>>
  /\ mode' = "running"
  /\ UNCHANGED <<set, vec, origin, log>>

MachineNext == (\E u \in Urls : Add(u)) \/ Rebuild \/ LoadOne \/ LoadDone

MachineSpec == MachineInit /\ [][MachineNext]_machineVars

-------------------------------------------------------------------------------
\* Types, and that the array is read to its end before anything else happens.
MachineTypeOK ==
  /\ set \in SeenSets
  /\ mode \in {"running", "loading"}
  /\ vec \in Seq(Urls)
  /\ origin \in SeenSets
  /\ log \in Seq(Urls)
  /\ mode = "running" => vec = <<>>

\* The total over both generations never exceeds the capacity, at any moment of
\* a rotation or of a reload: this is what bounds memory and snapshots.
Bounded == Size(set) <= Cap

\* The generations never share a URL, so that len() counts each URL once.
Disjoint == set.old \cap set.cur = {}

\* A rotation never forgets what was seen lately: the last Half URLs accepted
\* are all present, across rotations and restarts.
RemembersRecent ==
  mode = "running" =>
    \A i \in DOMAIN log : i > Len(log) - Half => Contains(set, log[i])

\* Reloading the array rebuilds the same generations, whatever order the hash
\* sets are written in, so that a restart keeps the ages of the URLs.
ReloadFaithful == mode = "loading" /\ vec = <<>> => set = origin
===============================================================================
