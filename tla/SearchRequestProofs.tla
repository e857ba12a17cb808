------------------------- MODULE SearchRequestProofs -------------------------
(***************************************************************************)
(* Proofs about SearchRequest, for every set of requests and keys and any  *)
(* number of permits: its invariants, and that it implements the abstract  *)
(* service.                                                                *)
(***************************************************************************)
EXTENDS SearchRequest, FiniteSetTheorems, TLAPS

\* A handler that is about to notify holds the body it built itself.
OwnBody == \A r \in Requests : pc[r] = "notify" => body[r].by = r

\* Only bodies with results are cached.
CacheHoldsResults == \A k \in Keys : cache[k] # NoBody => cache[k].kind = "results"

IInv ==
  /\ TypeOK
  /\ PermitsAccounted
  /\ EntryHasOwner
  /\ WaiterHasWaker
  /\ OwnBody
  /\ CacheHoldsResults
  /\ NoInheritedFailure

-------------------------------------------------------------------------------
\* Exactly the handlers in Holding hold a permit; the lemmas below say how a
\* change of one pc moves the set.
LEMMA HoldersFinite == IsFiniteSet(Holders)
  BY RequestsAssumption, FS_Subset DEF Holders

LEMMA HoldersStay ==
  ASSUME NEW r \in Requests, pc \in [Requests -> PCs],
         NEW p, pc' = [pc EXCEPT ![r] = p], pc[r] \in Holding <=> p \in Holding
  PROVE  Holders' = Holders
  BY DEF Holders

LEMMA HoldersGrow ==
  ASSUME NEW r \in Requests, pc \in [Requests -> PCs],
         NEW p, pc' = [pc EXCEPT ![r] = p], pc[r] \notin Holding, p \in Holding
  PROVE  Cardinality(Holders') = Cardinality(Holders) + 1
  <1>1. Holders' = Holders \cup {r} /\ r \notin Holders
    BY DEF Holders
  <1> QED BY <1>1, HoldersFinite, FS_AddElement

LEMMA HoldersShrink ==
  ASSUME NEW r \in Requests, pc \in [Requests -> PCs],
         NEW p, pc' = [pc EXCEPT ![r] = p], pc[r] \in Holding, p \notin Holding
  PROVE  /\ Cardinality(Holders) \in Nat \ {0}
         /\ Cardinality(Holders') = Cardinality(Holders) - 1
  <1>1. Holders' = Holders \ {r} /\ r \in Holders
    BY DEF Holders
  <1>2. Cardinality(Holders) \in Nat /\ Holders # {}
    BY <1>1, HoldersFinite, FS_CardinalityType
  <1> QED BY <1>1, <1>2, HoldersFinite, FS_RemoveElement, FS_EmptySet

\* The account of the semaphore, the part of TypeOK that needs it included.
PermitsInv == permits \in Nat /\ PermitsAccounted

LEMMA ReturnAccounted ==
  ASSUME NEW r \in Requests, NEW b, pc \in [Requests -> PCs], PermitsInv, Return(r, b)
  PROVE  PermitsInv'
  <1>1. CASE pc[r] \in Holding
    <2>1. Cardinality(Holders') = Cardinality(Holders) - 1 /\ Cardinality(Holders) \in Nat \ {0}
      BY <1>1, HoldersShrink DEF Return, Holding, Working
    <2> QED BY <1>1, <2>1, PermitsAssumption DEF Return, PermitsInv, PermitsAccounted
  <1>2. CASE pc[r] \notin Holding
    <2>1. Holders' = Holders
      BY <1>2, HoldersStay DEF Return, Holding, Working
    <2> QED BY <1>2, <2>1 DEF Return, PermitsInv, PermitsAccounted
  <1> QED BY <1>1, <1>2

LEMMA StayAccounted ==
  ASSUME NEW r \in Requests, NEW p, pc \in [Requests -> PCs], PermitsInv,
         pc' = [pc EXCEPT ![r] = p], pc[r] \in Holding <=> p \in Holding,
         permits' = permits
  PROVE  PermitsInv'
  BY HoldersStay DEF PermitsInv, PermitsAccounted

-------------------------------------------------------------------------------
\* TypeOK without the bound on the permits, which needs their account.
Types ==
  /\ key \in [Requests -> Keys]
  /\ pc \in [Requests -> PCs]
  /\ cache \in [Keys -> Body \cup {NoBody}]
  /\ inFlight \subseteq Keys
  /\ senders \in [Keys -> SUBSET Requests]
  /\ rx \in [Requests -> Channel]
  /\ body \in [Requests -> Body \cup {NoBody}]
  /\ guard \subseteq Requests
  /\ blocking \subseteq Requests
  /\ reply \in [Requests -> Reply \cup {NoBody}]

LEMMA InitIInv == Init => IInv
  <1> SUFFICES ASSUME Init PROVE IInv
    OBVIOUS
  <1>1. Holders = {}
    BY DEF Init, Holders, Holding, Working
  <1>2. PermitsAccounted
    BY <1>1, FS_EmptySet, PermitsAssumption DEF Init, PermitsAccounted
  <1>3. TypeOK
    BY PermitsAssumption DEF Init, TypeOK, PCs, Channel
  <1> QED
    BY <1>2, <1>3 DEF Init, IInv, EntryHasOwner, WaiterHasWaker, OwnBody,
       CacheHoldsResults, NoInheritedFailure

\* Every step keeps the account of the semaphore.
LEMMA PermitsStep ==
  ASSUME TypeOK, PermitsAccounted, [Next]_vars
  PROVE  PermitsInv'
  <1> USE DEF PCs, Holding, Working
  <1>0. PermitsInv /\ pc \in [Requests -> PCs]
    BY DEF TypeOK, PermitsInv
  <1>1. ASSUME NEW r \in Requests, Reject(r) PROVE PermitsInv'
    BY <1>0, <1>1, ReturnAccounted DEF Reject
  <1>2. ASSUME NEW r \in Requests, CacheHit(r) PROVE PermitsInv'
    BY <1>0, <1>2, ReturnAccounted DEF CacheHit
  <1>3. ASSUME NEW r \in Requests, CacheMiss(r) PROVE PermitsInv'
    BY <1>0, <1>3, StayAccounted DEF CacheMiss
  <1>4. ASSUME NEW r \in Requests, Acquire(r) PROVE PermitsInv'
    <2>1. Cardinality(Holders') = Cardinality(Holders) + 1
      BY <1>0, <1>4, HoldersGrow DEF Acquire
    <2>2. Cardinality(Holders) \in Nat
      BY HoldersFinite, FS_CardinalityType
    <2> QED BY <1>0, <1>4, <2>1, <2>2, PermitsAssumption DEF Acquire, PermitsInv, PermitsAccounted
  <1>5. ASSUME NEW r \in Requests, Subscribe(r) PROVE PermitsInv'
    BY <1>0, <1>5, StayAccounted DEF Subscribe
  <1>6. ASSUME NEW r \in Requests, Lead(r) PROVE PermitsInv'
    BY <1>0, <1>6, StayAccounted DEF Lead
  <1>7. ASSUME NEW r \in Requests, TakeShared(r) PROVE PermitsInv'
    BY <1>0, <1>7, ReturnAccounted DEF TakeShared
  <1>8. ASSUME NEW r \in Requests, FallThrough(r) PROVE PermitsInv'
    BY <1>0, <1>8, StayAccounted DEF FallThrough
  <1>9. ASSUME NEW r \in Requests, StartMerge(r) PROVE PermitsInv'
    BY <1>0, <1>9, StayAccounted DEF StartMerge
  <1>10. ASSUME NEW r \in Requests, MergeEnds(r) PROVE PermitsInv'
    <2>1. PICK p : pc' = [pc EXCEPT ![r] = p] /\ (pc[r] \in Holding <=> p \in Holding)
      BY <1>0, <1>10 DEF MergeEnds
    <2> QED BY <1>0, <1>10, <2>1, StayAccounted DEF MergeEnds
  <1>11. ASSUME NEW r \in Requests, NEW kind \in Outcomes, BuildResponse(r, kind)
         PROVE PermitsInv'
    BY <1>0, <1>11, StayAccounted DEF BuildResponse
  <1>12. ASSUME NEW r \in Requests, Notify(r) PROVE PermitsInv'
    BY <1>0, <1>12, ReturnAccounted DEF Notify
  <1>13. ASSUME NEW r \in Requests, Busy(r) PROVE PermitsInv'
    BY <1>0, <1>13, ReturnAccounted DEF Busy
  <1>14. ASSUME NEW r \in Requests, RankingFailed(r) PROVE PermitsInv'
    BY <1>0, <1>14, ReturnAccounted DEF RankingFailed
  <1>15. ASSUME NEW r \in Requests, Cancel(r) PROVE PermitsInv'
    BY <1>0, <1>15, ReturnAccounted DEF Cancel
  <1>16. ASSUME NEW k \in Keys, Forget(k) PROVE PermitsInv'
    BY <1>0, <1>16 DEF Forget, PermitsInv, PermitsAccounted, Holders
  <1>17. CASE UNCHANGED vars
    BY <1>0, <1>17 DEF vars, PermitsInv, PermitsAccounted, Holders
  <1> QED
    BY <1>1, <1>2, <1>3, <1>4, <1>5, <1>6, <1>7, <1>8, <1>9, <1>10, <1>11, <1>12,
       <1>13, <1>14, <1>15, <1>16, <1>17 DEF Next, Arrive, Handler

\* Every step keeps the types, the bound on the permits apart.
LEMMA TypeStep ==
  ASSUME TypeOK, [Next]_vars
  PROVE  Types'
  <1> USE DEF TypeOK, Types, PCs, Holding, Working, Channel, Body, Reply, Outcomes, Errors
  <1>1. ASSUME NEW r \in Requests, Reject(r)
        PROVE  Types'
    BY <1>1 DEF Reject, Return, Error
  <1>2. ASSUME NEW r \in Requests, CacheHit(r)
        PROVE  Types'
    BY <1>2 DEF CacheHit, Return
  <1>3. ASSUME NEW r \in Requests, CacheMiss(r)
        PROVE  Types'
    BY <1>3 DEF CacheMiss
  <1>4. ASSUME NEW r \in Requests, Acquire(r)
        PROVE  Types'
    BY <1>4 DEF Acquire
  <1>5. ASSUME NEW r \in Requests, Subscribe(r)
        PROVE  Types'
    BY <1>5 DEF Subscribe
  <1>6. ASSUME NEW r \in Requests, Lead(r)
        PROVE  Types'
    BY <1>6 DEF Lead
  <1>7. ASSUME NEW r \in Requests, TakeShared(r)
        PROVE  Types'
    BY <1>7 DEF TakeShared, Return
  <1>8. ASSUME NEW r \in Requests, FallThrough(r)
        PROVE  Types'
    BY <1>8 DEF FallThrough
  <1>9. ASSUME NEW r \in Requests, StartMerge(r)
        PROVE  Types'
    BY <1>9 DEF StartMerge
  <1>10. ASSUME NEW r \in Requests, MergeEnds(r)
         PROVE  Types'
    BY <1>10 DEF MergeEnds
  <1>11. ASSUME NEW r \in Requests, NEW kind \in Outcomes, BuildResponse(r, kind)
         PROVE  Types'
    BY <1>11 DEF BuildResponse
  <1>12. ASSUME NEW r \in Requests, Notify(r)
         PROVE  Types'
    BY <1>12 DEF Notify, Return, Wake, RemoveEntry
  <1>13. ASSUME NEW r \in Requests, Busy(r)
         PROVE  Types'
    BY <1>13 DEF Busy, Return, Error
  <1>14. ASSUME NEW r \in Requests, RankingFailed(r)
         PROVE  Types'
    BY <1>14 DEF RankingFailed, Return, Error, DropGuard, Wake, RemoveEntry
  <1>15. ASSUME NEW r \in Requests, Cancel(r)
         PROVE  Types'
    BY <1>15 DEF Cancel, Return, Error, DropGuard, Wake, RemoveEntry
  <1>16. ASSUME NEW k \in Keys, Forget(k)
         PROVE  Types'
    BY <1>16 DEF Forget
  <1>17. CASE UNCHANGED vars
    BY <1>17 DEF vars
  <1> QED
    BY <1>1, <1>2, <1>3, <1>4, <1>5, <1>6, <1>7, <1>8, <1>9, <1>10,
       <1>11, <1>12, <1>13, <1>14, <1>15, <1>16, <1>17
    DEF Next, Arrive, Handler

\* A guard that goes takes the entry of its key along.
LEMMA OwnerStep ==
  ASSUME TypeOK, EntryHasOwner, [Next]_vars
  PROVE  EntryHasOwner'
  <1> USE DEF TypeOK, EntryHasOwner, Working
  <1>1. ASSUME NEW r \in Requests, Reject(r)
        PROVE  EntryHasOwner'
    BY <1>1 DEF Reject, Return, Error
  <1>2. ASSUME NEW r \in Requests, CacheHit(r)
        PROVE  EntryHasOwner'
    BY <1>2 DEF CacheHit, Return
  <1>3. ASSUME NEW r \in Requests, CacheMiss(r)
        PROVE  EntryHasOwner'
    BY <1>3 DEF CacheMiss
  <1>4. ASSUME NEW r \in Requests, Acquire(r)
        PROVE  EntryHasOwner'
    BY <1>4 DEF Acquire
  <1>5. ASSUME NEW r \in Requests, Subscribe(r)
        PROVE  EntryHasOwner'
    BY <1>5 DEF Subscribe
  <1>6. ASSUME NEW r \in Requests, Lead(r)
        PROVE  EntryHasOwner'
    BY <1>6 DEF Lead
  <1>7. ASSUME NEW r \in Requests, TakeShared(r)
        PROVE  EntryHasOwner'
    BY <1>7 DEF TakeShared, Return
  <1>8. ASSUME NEW r \in Requests, FallThrough(r)
        PROVE  EntryHasOwner'
    BY <1>8 DEF FallThrough
  <1>9. ASSUME NEW r \in Requests, StartMerge(r)
        PROVE  EntryHasOwner'
    BY <1>9 DEF StartMerge
  <1>10. ASSUME NEW r \in Requests, MergeEnds(r)
         PROVE  EntryHasOwner'
    BY <1>10 DEF MergeEnds
  <1>11. ASSUME NEW r \in Requests, NEW kind \in Outcomes, BuildResponse(r, kind)
         PROVE  EntryHasOwner'
    BY <1>11 DEF BuildResponse
  <1>12. ASSUME NEW r \in Requests, Notify(r)
         PROVE  EntryHasOwner'
    BY <1>12 DEF Notify, Return, Wake, RemoveEntry
  <1>13. ASSUME NEW r \in Requests, Busy(r)
         PROVE  EntryHasOwner'
    BY <1>13 DEF Busy, Return, Error
  <1>14. ASSUME NEW r \in Requests, RankingFailed(r)
         PROVE  EntryHasOwner'
    BY <1>14 DEF RankingFailed, Return, Error, DropGuard, Wake, RemoveEntry
  <1>15. ASSUME NEW r \in Requests, Cancel(r)
         PROVE  EntryHasOwner'
    BY <1>15 DEF Cancel, Return, Error, DropGuard, Wake, RemoveEntry
  <1>16. ASSUME NEW k \in Keys, Forget(k)
         PROVE  EntryHasOwner'
    BY <1>16 DEF Forget
  <1>17. CASE UNCHANGED vars
    BY <1>17 DEF vars
  <1> QED
    BY <1>1, <1>2, <1>3, <1>4, <1>5, <1>6, <1>7, <1>8, <1>9, <1>10,
       <1>11, <1>12, <1>13, <1>14, <1>15, <1>16, <1>17
    DEF Next, Arrive, Handler

\* An entry that goes takes the open channels of its subscribers along.
LEMMA WakerStep ==
  ASSUME TypeOK, WaiterHasWaker, [Next]_vars
  PROVE  WaiterHasWaker'
  <1> USE DEF TypeOK, WaiterHasWaker
  <1>1. ASSUME NEW r \in Requests, Reject(r)
        PROVE  WaiterHasWaker'
    BY <1>1 DEF Reject, Return, Error
  <1>2. ASSUME NEW r \in Requests, CacheHit(r)
        PROVE  WaiterHasWaker'
    BY <1>2 DEF CacheHit, Return
  <1>3. ASSUME NEW r \in Requests, CacheMiss(r)
        PROVE  WaiterHasWaker'
    BY <1>3 DEF CacheMiss
  <1>4. ASSUME NEW r \in Requests, Acquire(r)
        PROVE  WaiterHasWaker'
    BY <1>4 DEF Acquire
  <1>5. ASSUME NEW r \in Requests, Subscribe(r)
        PROVE  WaiterHasWaker'
    BY <1>5 DEF Subscribe
  <1>6. ASSUME NEW r \in Requests, Lead(r)
        PROVE  WaiterHasWaker'
    BY <1>6 DEF Lead
  <1>7. ASSUME NEW r \in Requests, TakeShared(r)
        PROVE  WaiterHasWaker'
    BY <1>7 DEF TakeShared, Return
  <1>8. ASSUME NEW r \in Requests, FallThrough(r)
        PROVE  WaiterHasWaker'
    BY <1>8 DEF FallThrough
  <1>9. ASSUME NEW r \in Requests, StartMerge(r)
        PROVE  WaiterHasWaker'
    BY <1>9 DEF StartMerge
  <1>10. ASSUME NEW r \in Requests, MergeEnds(r)
         PROVE  WaiterHasWaker'
    BY <1>10 DEF MergeEnds
  <1>11. ASSUME NEW r \in Requests, NEW kind \in Outcomes, BuildResponse(r, kind)
         PROVE  WaiterHasWaker'
    BY <1>11 DEF BuildResponse
  <1>12. ASSUME NEW r \in Requests, Notify(r)
         PROVE  WaiterHasWaker'
    BY <1>12 DEF Notify, Return, Wake, RemoveEntry
  <1>13. ASSUME NEW r \in Requests, Busy(r)
         PROVE  WaiterHasWaker'
    BY <1>13 DEF Busy, Return, Error
  <1>14. ASSUME NEW r \in Requests, RankingFailed(r)
         PROVE  WaiterHasWaker'
    BY <1>14 DEF RankingFailed, Return, Error, DropGuard, Wake, RemoveEntry
  <1>15. ASSUME NEW r \in Requests, Cancel(r)
         PROVE  WaiterHasWaker'
    BY <1>15 DEF Cancel, Return, Error, DropGuard, Wake, RemoveEntry
  <1>16. ASSUME NEW k \in Keys, Forget(k)
         PROVE  WaiterHasWaker'
    BY <1>16 DEF Forget
  <1>17. CASE UNCHANGED vars
    BY <1>17 DEF vars
  <1> QED
    BY <1>1, <1>2, <1>3, <1>4, <1>5, <1>6, <1>7, <1>8, <1>9, <1>10,
       <1>11, <1>12, <1>13, <1>14, <1>15, <1>16, <1>17
    DEF Next, Arrive, Handler

\* Only subscribers that wait receive a body from outside.
LEMMA BodyStep ==
  ASSUME TypeOK, OwnBody, [Next]_vars
  PROVE  OwnBody'
  <1> USE DEF TypeOK, OwnBody
  <1>1. ASSUME NEW r \in Requests, Reject(r)
        PROVE  OwnBody'
    BY <1>1 DEF Reject, Return, Error
  <1>2. ASSUME NEW r \in Requests, CacheHit(r)
        PROVE  OwnBody'
    BY <1>2 DEF CacheHit, Return
  <1>3. ASSUME NEW r \in Requests, CacheMiss(r)
        PROVE  OwnBody'
    BY <1>3 DEF CacheMiss
  <1>4. ASSUME NEW r \in Requests, Acquire(r)
        PROVE  OwnBody'
    BY <1>4 DEF Acquire
  <1>5. ASSUME NEW r \in Requests, Subscribe(r)
        PROVE  OwnBody'
    BY <1>5 DEF Subscribe
  <1>6. ASSUME NEW r \in Requests, Lead(r)
        PROVE  OwnBody'
    BY <1>6 DEF Lead
  <1>7. ASSUME NEW r \in Requests, TakeShared(r)
        PROVE  OwnBody'
    BY <1>7 DEF TakeShared, Return
  <1>8. ASSUME NEW r \in Requests, FallThrough(r)
        PROVE  OwnBody'
    BY <1>8 DEF FallThrough
  <1>9. ASSUME NEW r \in Requests, StartMerge(r)
        PROVE  OwnBody'
    BY <1>9 DEF StartMerge
  <1>10. ASSUME NEW r \in Requests, MergeEnds(r)
         PROVE  OwnBody'
    BY <1>10 DEF MergeEnds
  <1>11. ASSUME NEW r \in Requests, NEW kind \in Outcomes, BuildResponse(r, kind)
         PROVE  OwnBody'
    BY <1>11 DEF BuildResponse
  <1>12. ASSUME NEW r \in Requests, Notify(r)
         PROVE  OwnBody'
    BY <1>12 DEF Notify, Return, Wake, RemoveEntry
  <1>13. ASSUME NEW r \in Requests, Busy(r)
         PROVE  OwnBody'
    BY <1>13 DEF Busy, Return, Error
  <1>14. ASSUME NEW r \in Requests, RankingFailed(r)
         PROVE  OwnBody'
    BY <1>14 DEF RankingFailed, Return, Error, DropGuard, Wake, RemoveEntry
  <1>15. ASSUME NEW r \in Requests, Cancel(r)
         PROVE  OwnBody'
    BY <1>15 DEF Cancel, Return, Error, DropGuard, Wake, RemoveEntry
  <1>16. ASSUME NEW k \in Keys, Forget(k)
         PROVE  OwnBody'
    BY <1>16 DEF Forget
  <1>17. CASE UNCHANGED vars
    BY <1>17 DEF vars
  <1> QED
    BY <1>1, <1>2, <1>3, <1>4, <1>5, <1>6, <1>7, <1>8, <1>9, <1>10,
       <1>11, <1>12, <1>13, <1>14, <1>15, <1>16, <1>17
    DEF Next, Arrive, Handler

\* Only bodies with results enter the cache.
LEMMA CacheStep ==
  ASSUME TypeOK, CacheHoldsResults, [Next]_vars
  PROVE  CacheHoldsResults'
  <1> USE DEF TypeOK, CacheHoldsResults
  <1>1. ASSUME NEW r \in Requests, Reject(r)
        PROVE  CacheHoldsResults'
    BY <1>1 DEF Reject, Return, Error
  <1>2. ASSUME NEW r \in Requests, CacheHit(r)
        PROVE  CacheHoldsResults'
    BY <1>2 DEF CacheHit, Return
  <1>3. ASSUME NEW r \in Requests, CacheMiss(r)
        PROVE  CacheHoldsResults'
    BY <1>3 DEF CacheMiss
  <1>4. ASSUME NEW r \in Requests, Acquire(r)
        PROVE  CacheHoldsResults'
    BY <1>4 DEF Acquire
  <1>5. ASSUME NEW r \in Requests, Subscribe(r)
        PROVE  CacheHoldsResults'
    BY <1>5 DEF Subscribe
  <1>6. ASSUME NEW r \in Requests, Lead(r)
        PROVE  CacheHoldsResults'
    BY <1>6 DEF Lead
  <1>7. ASSUME NEW r \in Requests, TakeShared(r)
        PROVE  CacheHoldsResults'
    BY <1>7 DEF TakeShared, Return
  <1>8. ASSUME NEW r \in Requests, FallThrough(r)
        PROVE  CacheHoldsResults'
    BY <1>8 DEF FallThrough
  <1>9. ASSUME NEW r \in Requests, StartMerge(r)
        PROVE  CacheHoldsResults'
    BY <1>9 DEF StartMerge
  <1>10. ASSUME NEW r \in Requests, MergeEnds(r)
         PROVE  CacheHoldsResults'
    BY <1>10 DEF MergeEnds
  <1>11. ASSUME NEW r \in Requests, NEW kind \in Outcomes, BuildResponse(r, kind)
         PROVE  CacheHoldsResults'
    BY <1>11 DEF BuildResponse
  <1>12. ASSUME NEW r \in Requests, Notify(r)
         PROVE  CacheHoldsResults'
    BY <1>12 DEF Notify, Return, Wake, RemoveEntry
  <1>13. ASSUME NEW r \in Requests, Busy(r)
         PROVE  CacheHoldsResults'
    BY <1>13 DEF Busy, Return, Error
  <1>14. ASSUME NEW r \in Requests, RankingFailed(r)
         PROVE  CacheHoldsResults'
    BY <1>14 DEF RankingFailed, Return, Error, DropGuard, Wake, RemoveEntry
  <1>15. ASSUME NEW r \in Requests, Cancel(r)
         PROVE  CacheHoldsResults'
    BY <1>15 DEF Cancel, Return, Error, DropGuard, Wake, RemoveEntry
  <1>16. ASSUME NEW k \in Keys, Forget(k)
         PROVE  CacheHoldsResults'
    BY <1>16 DEF Forget
  <1>17. CASE UNCHANGED vars
    BY <1>17 DEF vars
  <1> QED
    BY <1>1, <1>2, <1>3, <1>4, <1>5, <1>6, <1>7, <1>8, <1>9, <1>10,
       <1>11, <1>12, <1>13, <1>14, <1>15, <1>16, <1>17
    DEF Next, Arrive, Handler

\* A failed reply is built by its own handler.
LEMMA NoInheritedFailureStep ==
  ASSUME TypeOK, OwnBody, CacheHoldsResults, NoInheritedFailure, [Next]_vars
  PROVE  NoInheritedFailure'
  <1> USE DEF TypeOK, OwnBody, CacheHoldsResults, NoInheritedFailure
  <1>1. ASSUME NEW r \in Requests, Reject(r)
        PROVE  NoInheritedFailure'
    BY <1>1 DEF Reject, Return, Error
  <1>2. ASSUME NEW r \in Requests, CacheHit(r)
        PROVE  NoInheritedFailure'
    BY <1>2 DEF CacheHit, Return
  <1>3. ASSUME NEW r \in Requests, CacheMiss(r)
        PROVE  NoInheritedFailure'
    BY <1>3 DEF CacheMiss
  <1>4. ASSUME NEW r \in Requests, Acquire(r)
        PROVE  NoInheritedFailure'
    BY <1>4 DEF Acquire
  <1>5. ASSUME NEW r \in Requests, Subscribe(r)
        PROVE  NoInheritedFailure'
    BY <1>5 DEF Subscribe
  <1>6. ASSUME NEW r \in Requests, Lead(r)
        PROVE  NoInheritedFailure'
    BY <1>6 DEF Lead
  <1>7. ASSUME NEW r \in Requests, TakeShared(r)
        PROVE  NoInheritedFailure'
    BY <1>7 DEF TakeShared, Return
  <1>8. ASSUME NEW r \in Requests, FallThrough(r)
        PROVE  NoInheritedFailure'
    BY <1>8 DEF FallThrough
  <1>9. ASSUME NEW r \in Requests, StartMerge(r)
        PROVE  NoInheritedFailure'
    BY <1>9 DEF StartMerge
  <1>10. ASSUME NEW r \in Requests, MergeEnds(r)
         PROVE  NoInheritedFailure'
    BY <1>10 DEF MergeEnds
  <1>11. ASSUME NEW r \in Requests, NEW kind \in Outcomes, BuildResponse(r, kind)
         PROVE  NoInheritedFailure'
    BY <1>11 DEF BuildResponse
  <1>12. ASSUME NEW r \in Requests, Notify(r)
         PROVE  NoInheritedFailure'
    BY <1>12 DEF Notify, Return, Wake, RemoveEntry
  <1>13. ASSUME NEW r \in Requests, Busy(r)
         PROVE  NoInheritedFailure'
    BY <1>13 DEF Busy, Return, Error
  <1>14. ASSUME NEW r \in Requests, RankingFailed(r)
         PROVE  NoInheritedFailure'
    BY <1>14 DEF RankingFailed, Return, Error, DropGuard, Wake, RemoveEntry
  <1>15. ASSUME NEW r \in Requests, Cancel(r)
         PROVE  NoInheritedFailure'
    BY <1>15 DEF Cancel, Return, Error, DropGuard, Wake, RemoveEntry
  <1>16. ASSUME NEW k \in Keys, Forget(k)
         PROVE  NoInheritedFailure'
    BY <1>16 DEF Forget
  <1>17. CASE UNCHANGED vars
    BY <1>17 DEF vars
  <1> QED
    BY <1>1, <1>2, <1>3, <1>4, <1>5, <1>6, <1>7, <1>8, <1>9, <1>10,
       <1>11, <1>12, <1>13, <1>14, <1>15, <1>16, <1>17
    DEF Next, Arrive, Handler

-------------------------------------------------------------------------------
LEMMA Inductive == IInv /\ [Next]_vars => IInv'
  <1> SUFFICES ASSUME IInv, [Next]_vars PROVE IInv'
    OBVIOUS
  <1> USE DEF IInv
  <1>1. PermitsInv'
    BY PermitsStep
  <1>2. Types'
    BY TypeStep
  <1>3. TypeOK'
    <2>1. permits' \in 0..Permits
      <3>1. Cardinality(Holders') \in Nat
        BY RequestsAssumption, FS_Subset, FS_CardinalityType DEF Holders
      <3> QED BY <1>1, <3>1, PermitsAssumption DEF PermitsInv, PermitsAccounted
    <2> QED BY <1>2, <2>1 DEF Types, TypeOK
  <1>4. PermitsAccounted'
    BY <1>1 DEF PermitsInv
  <1> QED
    BY <1>3, <1>4, OwnerStep, WakerStep, BodyStep, CacheStep, NoInheritedFailureStep

THEOREM Invariant == Spec => []IInv
  BY InitIInv, Inductive, PTL DEF Spec

\* The state of the request path keeps its types: no slot is given back twice,
\* so the free slots never exceed the size of search_semaphore.
THEOREM TypeCorrect == Spec => []TypeOK
  BY Invariant, PTL DEF IInv

\* Every slot of search_semaphore is free or held by exactly one handler, however
\* handlers end: return, wait too long, panic of the merge, cancellation.
THEOREM PermitsNeverLeak == Spec => []PermitsAccounted
  BY Invariant, PTL DEF IInv

\* DedupGuard keeps its promise: an entry of in_flight is owned by a handler that
\* still runs and will remove it, though handlers may remove each other's.
THEOREM EntriesAreOwned == Spec => []EntryHasOwner
  BY Invariant, PTL DEF IInv

\* No wake-up is lost: a subscriber with an open channel has its sender in the
\* entry of its key.
THEOREM WakersAreKept == Spec => []WaiterHasWaker
  BY Invariant, PTL DEF IInv

\* A leader's failure is never handed to the requests that waited for it, nor
\* kept in the cache for later ones.
THEOREM FailuresAreNotShared == Spec => []NoInheritedFailure
  BY Invariant, PTL DEF IInv

\* A subscriber is never stranded: while its channel is open, a handler that
\* holds a slot and does not wait for anybody owns the entry its sender is in.
THEOREM WaitersHaveRunningOwner ==
  Spec => [](\A r \in Requests : pc[r] = "wait" /\ rx[r] = "open" =>
               \E g \in guard : key[g] = key[r] /\ pc[g] \in Working)
  <1>1. IInv => \A r \in Requests : pc[r] = "wait" /\ rx[r] = "open" =>
                  \E g \in guard : key[g] = key[r] /\ pc[g] \in Working
    BY DEF IInv, EntryHasOwner, WaiterHasWaker
  <1> QED BY <1>1, Invariant, PTL

-------------------------------------------------------------------------------
(* A reply is final: it comes with the end of the handler.                 *)

ReplyAtEnd == \A r \in Requests : reply[r] # NoBody => pc[r] = "done"

\* A handler that has ended takes no step that replies.
LEMMA ReplyStep ==
  ASSUME TypeOK, ReplyAtEnd, [Next]_vars
  PROVE  ReplyAtEnd' /\ (\A q \in Requests : reply[q] # NoBody => reply'[q] = reply[q])
  <1> USE DEF TypeOK, ReplyAtEnd
  <1>1. ASSUME NEW r \in Requests, Reject(r)
        PROVE  ReplyAtEnd' /\ (\A q \in Requests : reply[q] # NoBody => reply'[q] = reply[q])
    BY <1>1 DEF Reject, Return, Error
  <1>2. ASSUME NEW r \in Requests, CacheHit(r)
        PROVE  ReplyAtEnd' /\ (\A q \in Requests : reply[q] # NoBody => reply'[q] = reply[q])
    BY <1>2 DEF CacheHit, Return
  <1>3. ASSUME NEW r \in Requests, CacheMiss(r)
        PROVE  ReplyAtEnd' /\ (\A q \in Requests : reply[q] # NoBody => reply'[q] = reply[q])
    BY <1>3 DEF CacheMiss
  <1>4. ASSUME NEW r \in Requests, Acquire(r)
        PROVE  ReplyAtEnd' /\ (\A q \in Requests : reply[q] # NoBody => reply'[q] = reply[q])
    BY <1>4 DEF Acquire
  <1>5. ASSUME NEW r \in Requests, Subscribe(r)
        PROVE  ReplyAtEnd' /\ (\A q \in Requests : reply[q] # NoBody => reply'[q] = reply[q])
    BY <1>5 DEF Subscribe
  <1>6. ASSUME NEW r \in Requests, Lead(r)
        PROVE  ReplyAtEnd' /\ (\A q \in Requests : reply[q] # NoBody => reply'[q] = reply[q])
    BY <1>6 DEF Lead
  <1>7. ASSUME NEW r \in Requests, TakeShared(r)
        PROVE  ReplyAtEnd' /\ (\A q \in Requests : reply[q] # NoBody => reply'[q] = reply[q])
    BY <1>7 DEF TakeShared, Return
  <1>8. ASSUME NEW r \in Requests, FallThrough(r)
        PROVE  ReplyAtEnd' /\ (\A q \in Requests : reply[q] # NoBody => reply'[q] = reply[q])
    BY <1>8 DEF FallThrough
  <1>9. ASSUME NEW r \in Requests, StartMerge(r)
        PROVE  ReplyAtEnd' /\ (\A q \in Requests : reply[q] # NoBody => reply'[q] = reply[q])
    BY <1>9 DEF StartMerge
  <1>10. ASSUME NEW r \in Requests, MergeEnds(r)
         PROVE  ReplyAtEnd' /\ (\A q \in Requests : reply[q] # NoBody => reply'[q] = reply[q])
    BY <1>10 DEF MergeEnds
  <1>11. ASSUME NEW r \in Requests, NEW kind \in Outcomes, BuildResponse(r, kind)
         PROVE  ReplyAtEnd' /\ (\A q \in Requests : reply[q] # NoBody => reply'[q] = reply[q])
    BY <1>11 DEF BuildResponse
  <1>12. ASSUME NEW r \in Requests, Notify(r)
         PROVE  ReplyAtEnd' /\ (\A q \in Requests : reply[q] # NoBody => reply'[q] = reply[q])
    BY <1>12 DEF Notify, Return, Wake, RemoveEntry
  <1>13. ASSUME NEW r \in Requests, Busy(r)
         PROVE  ReplyAtEnd' /\ (\A q \in Requests : reply[q] # NoBody => reply'[q] = reply[q])
    BY <1>13 DEF Busy, Return, Error
  <1>14. ASSUME NEW r \in Requests, RankingFailed(r)
         PROVE  ReplyAtEnd' /\ (\A q \in Requests : reply[q] # NoBody => reply'[q] = reply[q])
    BY <1>14 DEF RankingFailed, Return, Error, DropGuard, Wake, RemoveEntry
  <1>15. ASSUME NEW r \in Requests, Cancel(r)
         PROVE  ReplyAtEnd' /\ (\A q \in Requests : reply[q] # NoBody => reply'[q] = reply[q])
    BY <1>15 DEF Cancel, Return, Error, DropGuard, Wake, RemoveEntry
  <1>16. ASSUME NEW k \in Keys, Forget(k)
         PROVE  ReplyAtEnd' /\ (\A q \in Requests : reply[q] # NoBody => reply'[q] = reply[q])
    BY <1>16 DEF Forget
  <1>17. CASE UNCHANGED vars
    BY <1>17 DEF vars
  <1> QED
    BY <1>1, <1>2, <1>3, <1>4, <1>5, <1>6, <1>7, <1>8, <1>9, <1>10,
       <1>11, <1>12, <1>13, <1>14, <1>15, <1>16, <1>17
    DEF Next, Arrive, Handler

\* A client is answered once: nothing a handler or the environment does changes a
\* reply that was given.
THEOREM RepliesAreFinal == Spec => ReplyIsFinal
  <1>1. Init => ReplyAtEnd
    BY DEF Init, ReplyAtEnd
  <1>2. TypeOK /\ ReplyAtEnd /\ [Next]_vars => ReplyAtEnd'
    BY ReplyStep
  <1>3. TypeOK /\ ReplyAtEnd /\ [Next]_vars =>
          [\A r \in Requests : reply[r] # NoBody => reply'[r] = reply[r]]_vars
    BY ReplyStep
  <1> QED BY <1>1, <1>2, <1>3, TypeCorrect, PTL DEF Spec, ReplyIsFinal

-------------------------------------------------------------------------------
(* SearchRequest implements SearchService: initial states map to initial   *)
(* states and every step maps to a step of the service or to a stutter.    *)

\* The senders stored under a key belong to requests of that key, whose channel
\* is still open if they wait.
SendersMatch ==
  \A k \in Keys : \A s \in senders[k] : key[s] = k /\ (pc[s] = "wait" => rx[s] = "open")

\* A handler that is about to notify has a body, and so has a full channel.
BodiesPresent ==
  \A r \in Requests :
    /\ pc[r] = "notify" => body[r] # NoBody /\ body[r].by = r
    /\ pc[r] = "wait" /\ rx[r] = "sent" => body[r] # NoBody

RInv == TypeOK /\ SendersMatch /\ BodiesPresent /\ CacheHoldsResults

\* A sender leaves the table when it is used, and none is stored twice.
LEMMA SendersStep ==
  ASSUME TypeOK, SendersMatch, [Next]_vars
  PROVE  SendersMatch'
  <1> USE DEF TypeOK, SendersMatch
  <1>1. ASSUME NEW r \in Requests, Reject(r)
        PROVE  SendersMatch'
    BY <1>1 DEF Reject, Return, Error
  <1>2. ASSUME NEW r \in Requests, CacheHit(r)
        PROVE  SendersMatch'
    BY <1>2 DEF CacheHit, Return
  <1>3. ASSUME NEW r \in Requests, CacheMiss(r)
        PROVE  SendersMatch'
    BY <1>3 DEF CacheMiss
  <1>4. ASSUME NEW r \in Requests, Acquire(r)
        PROVE  SendersMatch'
    BY <1>4 DEF Acquire
  <1>5. ASSUME NEW r \in Requests, Subscribe(r)
        PROVE  SendersMatch'
    BY <1>5 DEF Subscribe
  <1>6. ASSUME NEW r \in Requests, Lead(r)
        PROVE  SendersMatch'
    BY <1>6 DEF Lead
  <1>7. ASSUME NEW r \in Requests, TakeShared(r)
        PROVE  SendersMatch'
    BY <1>7 DEF TakeShared, Return
  <1>8. ASSUME NEW r \in Requests, FallThrough(r)
        PROVE  SendersMatch'
    BY <1>8 DEF FallThrough
  <1>9. ASSUME NEW r \in Requests, StartMerge(r)
        PROVE  SendersMatch'
    BY <1>9 DEF StartMerge
  <1>10. ASSUME NEW r \in Requests, MergeEnds(r)
         PROVE  SendersMatch'
    BY <1>10 DEF MergeEnds
  <1>11. ASSUME NEW r \in Requests, NEW kind \in Outcomes, BuildResponse(r, kind)
         PROVE  SendersMatch'
    BY <1>11 DEF BuildResponse
  <1>12. ASSUME NEW r \in Requests, Notify(r)
         PROVE  SendersMatch'
    BY <1>12 DEF Notify, Return, Wake, RemoveEntry
  <1>13. ASSUME NEW r \in Requests, Busy(r)
         PROVE  SendersMatch'
    BY <1>13 DEF Busy, Return, Error
  <1>14. ASSUME NEW r \in Requests, RankingFailed(r)
         PROVE  SendersMatch'
    BY <1>14 DEF RankingFailed, Return, Error, DropGuard, Wake, RemoveEntry
  <1>15. ASSUME NEW r \in Requests, Cancel(r)
         PROVE  SendersMatch'
    BY <1>15 DEF Cancel, Return, Error, DropGuard, Wake, RemoveEntry
  <1>16. ASSUME NEW k \in Keys, Forget(k)
         PROVE  SendersMatch'
    BY <1>16 DEF Forget
  <1>17. CASE UNCHANGED vars
    BY <1>17 DEF vars
  <1> QED
    BY <1>1, <1>2, <1>3, <1>4, <1>5, <1>6, <1>7, <1>8, <1>9, <1>10,
       <1>11, <1>12, <1>13, <1>14, <1>15, <1>16, <1>17
    DEF Next, Arrive, Handler

\* A body is built before it is sent, and sent with the channel's state.
LEMMA BodiesStep ==
  ASSUME TypeOK, BodiesPresent, [Next]_vars
  PROVE  BodiesPresent'
  <1> USE NoBodyAssumption DEF TypeOK, BodiesPresent, Body, Reply, Outcomes, Errors
  <1>1. ASSUME NEW r \in Requests, Reject(r)
        PROVE  BodiesPresent'
    BY <1>1 DEF Reject, Return, Error
  <1>2. ASSUME NEW r \in Requests, CacheHit(r)
        PROVE  BodiesPresent'
    BY <1>2 DEF CacheHit, Return
  <1>3. ASSUME NEW r \in Requests, CacheMiss(r)
        PROVE  BodiesPresent'
    BY <1>3 DEF CacheMiss
  <1>4. ASSUME NEW r \in Requests, Acquire(r)
        PROVE  BodiesPresent'
    BY <1>4 DEF Acquire
  <1>5. ASSUME NEW r \in Requests, Subscribe(r)
        PROVE  BodiesPresent'
    BY <1>5 DEF Subscribe
  <1>6. ASSUME NEW r \in Requests, Lead(r)
        PROVE  BodiesPresent'
    BY <1>6 DEF Lead
  <1>7. ASSUME NEW r \in Requests, TakeShared(r)
        PROVE  BodiesPresent'
    BY <1>7 DEF TakeShared, Return
  <1>8. ASSUME NEW r \in Requests, FallThrough(r)
        PROVE  BodiesPresent'
    BY <1>8 DEF FallThrough
  <1>9. ASSUME NEW r \in Requests, StartMerge(r)
        PROVE  BodiesPresent'
    BY <1>9 DEF StartMerge
  <1>10. ASSUME NEW r \in Requests, MergeEnds(r)
         PROVE  BodiesPresent'
    BY <1>10 DEF MergeEnds
  <1>11. ASSUME NEW r \in Requests, NEW kind \in Outcomes, BuildResponse(r, kind)
         PROVE  BodiesPresent'
    BY <1>11 DEF BuildResponse
  <1>12. ASSUME NEW r \in Requests, Notify(r)
         PROVE  BodiesPresent'
    BY <1>12 DEF Notify, Return, Wake, RemoveEntry
  <1>13. ASSUME NEW r \in Requests, Busy(r)
         PROVE  BodiesPresent'
    BY <1>13 DEF Busy, Return, Error
  <1>14. ASSUME NEW r \in Requests, RankingFailed(r)
         PROVE  BodiesPresent'
    BY <1>14 DEF RankingFailed, Return, Error, DropGuard, Wake, RemoveEntry
  <1>15. ASSUME NEW r \in Requests, Cancel(r)
         PROVE  BodiesPresent'
    BY <1>15 DEF Cancel, Return, Error, DropGuard, Wake, RemoveEntry
  <1>16. ASSUME NEW k \in Keys, Forget(k)
         PROVE  BodiesPresent'
    BY <1>16 DEF Forget
  <1>17. CASE UNCHANGED vars
    BY <1>17 DEF vars
  <1> QED
    BY <1>1, <1>2, <1>3, <1>4, <1>5, <1>6, <1>7, <1>8, <1>9, <1>10,
       <1>11, <1>12, <1>13, <1>14, <1>15, <1>16, <1>17
    DEF Next, Arrive, Handler
-------------------------------------------------------------------------------
LEMMA InitRInv == Init => RInv
  BY InitIInv DEF Init, IInv, RInv, SendersMatch, BodiesPresent

THEOREM RefinementInvariant == Spec => []RInv
  <1>1. TypeOK /\ TypeOK' /\ RInv /\ [Next]_vars => RInv'
    BY SendersStep, BodiesStep, CacheStep DEF RInv
  <1> QED BY <1>1, InitRInv, TypeCorrect, PTL DEF Spec

LEMMA InitMaps == Init => Abstract!Init
  BY DEF Init, Abstract!Init, Status, Box

\* A handler that neither is idle, nor ends, nor gets a body stutters.
LEMMA StutterMaps ==
  ASSUME TypeOK, UNCHANGED <<key, cache, reply>>, Status' = Status, Box' = Box
  PROVE  UNCHANGED Abstract!vars
  BY DEF Abstract!vars

\* An error answers its own request and leaves the boxes of the others.
LEMMA ErrorMaps ==
  ASSUME NEW r \in Requests, NEW e \in Errors, TypeOK, pc[r] # "done",
         Return(r, Error(r, e)), UNCHANGED <<key, cache>>,
         Box' = [Box EXCEPT ![r] = NoBody]
  PROVE  Abstract!AnswerError(r, e)
  <1>1. Status[r] # "answered" /\ Status' = [Status EXCEPT ![r] = "answered"]
    BY DEF Return, Status, TypeOK
  <1> QED BY <1>1 DEF Return, Error, Abstract!AnswerError, Abstract!Answer

\* Dropping a handler and its guard clears its box and no other.
LEMMA DropMaps ==
  ASSUME NEW r \in Requests, NEW b, TypeOK, SendersMatch, DropGuard(r), Return(r, b)
  PROVE  Box' = [Box EXCEPT ![r] = NoBody]
  <1>1. pc' = [pc EXCEPT ![r] = "done"]
    BY DEF Return
  <1>2. ASSUME NEW s \in Requests, s # r, pc[s] = "wait"
        PROVE  /\ rx'[s] = "sent" <=> rx[s] = "sent"
               /\ rx[s] = "sent" => body'[s] = body[s]
    <2>1. CASE r \in guard
      BY <1>2, <2>1 DEF TypeOK, SendersMatch, DropGuard, Wake
    <2>2. CASE r \notin guard
      BY <1>2, <2>2 DEF TypeOK, DropGuard
    <2> QED BY <2>1, <2>2
  <1> QED BY <1>1, <1>2 DEF TypeOK, Box

LEMMA StepMaps ==
  ASSUME RInv, [Next]_vars
  PROVE  [Abstract!Next]_(Abstract!vars)
  <1> USE DEF RInv
  <1>0. ASSUME NEW r \in Requests, NEW e \in Errors, Abstract!AnswerError(r, e)
        PROVE  Abstract!Next
    BY <1>0 DEF Abstract!Next, Abstract!Errors, Errors
  <1>1. ASSUME NEW r \in Requests, Reject(r) PROVE Abstract!Next
    <2>1. Box' = [Box EXCEPT ![r] = NoBody]
      BY <1>1 DEF Reject, Return, Box, TypeOK
    <2> QED BY <1>0, <1>1, <2>1, ErrorMaps DEF Reject, Errors
  <1>2. ASSUME NEW r \in Requests, CacheHit(r) PROVE Abstract!Next
    <2>1. Status[r] = "idle" /\ Status' = [Status EXCEPT ![r] = "answered"] /\ Box' = Box
      BY <1>2 DEF CacheHit, Return, Status, Box, TypeOK
    <2>2. Abstract!AnswerFromCache(r)
      BY <1>2, <2>1 DEF CacheHit, Return, Abstract!AnswerFromCache, Abstract!Answer
    <2> QED BY <2>2 DEF Abstract!Next
  <1>3. ASSUME NEW r \in Requests, CacheMiss(r) PROVE Abstract!Next
    <2>1. Status[r] = "idle" /\ Status' = [Status EXCEPT ![r] = "asked"] /\ Box' = Box
      BY <1>3 DEF CacheMiss, Status, Box, TypeOK
    <2>2. Abstract!Ask(r)
      BY <1>3, <2>1 DEF CacheMiss, Abstract!Ask
    <2> QED BY <2>2 DEF Abstract!Next
  <1>4. ASSUME NEW r \in Requests, Acquire(r) PROVE UNCHANGED Abstract!vars
    <2>1. Status' = Status /\ Box' = Box
      BY <1>4 DEF Acquire, Status, Box, TypeOK
    <2> QED BY <1>4, <2>1, StutterMaps DEF Acquire
  <1>5. ASSUME NEW r \in Requests, Subscribe(r) PROVE UNCHANGED Abstract!vars
    <2>1. Status' = Status /\ Box' = Box
      BY <1>5 DEF Subscribe, Status, Box, TypeOK
    <2> QED BY <1>5, <2>1, StutterMaps DEF Subscribe
  <1>6. ASSUME NEW r \in Requests, Lead(r) PROVE UNCHANGED Abstract!vars
    <2>1. Status' = Status /\ Box' = Box
      BY <1>6 DEF Lead, Status, Box, TypeOK
    <2> QED BY <1>6, <2>1, StutterMaps DEF Lead
  <1>7. ASSUME NEW r \in Requests, TakeShared(r) PROVE Abstract!Next
    <2>1. Status[r] = "asked" /\ Status' = [Status EXCEPT ![r] = "answered"]
      BY <1>7 DEF TakeShared, Return, Status, TypeOK
    <2>2. Box[r] = body[r] /\ body[r] # NoBody /\ Box' = [Box EXCEPT ![r] = NoBody]
      BY <1>7 DEF TakeShared, Return, Box, TypeOK, BodiesPresent
    <2>3. Abstract!AnswerFromBox(r)
      BY <1>7, <2>1, <2>2 DEF TakeShared, Return, Abstract!AnswerFromBox, Abstract!Answer
    <2> QED BY <2>3 DEF Abstract!Next
  <1>8. ASSUME NEW r \in Requests, FallThrough(r)
        PROVE  [Abstract!Next]_(Abstract!vars)
    <2>1. Status' = Status
      BY <1>8 DEF FallThrough, Status, TypeOK
    <2>2. CASE rx[r] = "dropped"
      <3>1. Box' = Box
        BY <1>8, <2>2 DEF FallThrough, Box, TypeOK
      <3> QED BY <1>8, <2>1, <3>1, StutterMaps DEF FallThrough
    <2>3. CASE rx[r] = "sent" /\ body[r].kind = "failed"
      <3>1. Box[r] = body[r] /\ body[r] # NoBody /\ Box' = [Box EXCEPT ![r] = NoBody]
        BY <1>8, <2>3 DEF FallThrough, Box, TypeOK, BodiesPresent
      <3>2. Abstract!DiscardFailure(r)
        BY <1>8, <2>1, <2>3, <3>1 DEF FallThrough, Abstract!DiscardFailure
      <3> QED BY <3>2 DEF Abstract!Next
    <2> QED BY <1>8, <2>2, <2>3 DEF FallThrough
  <1>9. ASSUME NEW r \in Requests, StartMerge(r) PROVE UNCHANGED Abstract!vars
    <2>1. Status' = Status /\ Box' = Box
      BY <1>9 DEF StartMerge, Status, Box, TypeOK
    <2> QED BY <1>9, <2>1, StutterMaps DEF StartMerge
  <1>10. ASSUME NEW r \in Requests, MergeEnds(r) PROVE UNCHANGED Abstract!vars
    <2>1. Status' = Status /\ Box' = Box
      BY <1>10 DEF MergeEnds, Status, Box, TypeOK
    <2> QED BY <1>10, <2>1, StutterMaps DEF MergeEnds
  <1>11. ASSUME NEW r \in Requests, NEW kind \in Outcomes, BuildResponse(r, kind)
         PROVE  [Abstract!Next]_(Abstract!vars)
    <2>1. Status[r] = "asked" /\ Status' = Status /\ Box' = Box
      BY <1>11 DEF BuildResponse, Status, Box, TypeOK
    <2>2. CASE UNCHANGED cache
      BY <1>11, <2>1, <2>2, StutterMaps DEF BuildResponse
    <2>3. CASE cache' = [cache EXCEPT ![key[r]] = [kind |-> "results", by |-> r]]
      <3>1. Abstract!Keep(r)
        BY <1>11, <2>1, <2>3 DEF BuildResponse, Abstract!Keep
      <3> QED BY <3>1 DEF Abstract!Next
    <2> QED BY <1>11, <2>2, <2>3 DEF BuildResponse
  <1>12. ASSUME NEW r \in Requests, Notify(r) PROVE Abstract!Next
    <2> DEFINE told == {o \in senders[key[r]] \ {r} : pc[o] = "wait"}
    <2>1. Status[r] = "asked" /\ Status' = [Status EXCEPT ![r] = "answered"]
      BY <1>12 DEF Notify, Return, Status, TypeOK
    <2>2. PICK kind \in Outcomes : body[r] = [kind |-> kind, by |-> r]
      BY <1>12 DEF Notify, TypeOK, BodiesPresent, Body
    <2>3. /\ told \in SUBSET Requests
          /\ \A o \in told : o # r /\ Status[o] = "asked" /\ key[o] = key[r]
      BY <1>12 DEF TypeOK, SendersMatch, Status
    <2>4. Box' = [o \in Requests |-> IF o \in told THEN body[r] ELSE Box[o]]
      BY <1>12 DEF Notify, Return, Wake, Box, TypeOK
    <2>5. Abstract!Publish(r, [kind |-> kind, by |-> r], told)
      BY <1>12, <2>1, <2>2, <2>3, <2>4 DEF Notify, Return, Abstract!Publish, Abstract!Answer
    <2> QED BY <2>3, <2>5 DEF Abstract!Next, Abstract!Outcomes, Outcomes
  <1>13. ASSUME NEW r \in Requests, Busy(r) PROVE Abstract!Next
    <2>1. Box' = [Box EXCEPT ![r] = NoBody]
      BY <1>13 DEF Busy, Return, Box, TypeOK
    <2> QED BY <1>0, <1>13, <2>1, ErrorMaps DEF Busy, Errors
  <1>14. ASSUME NEW r \in Requests, RankingFailed(r) PROVE Abstract!Next
    BY <1>0, <1>14, DropMaps, ErrorMaps DEF RankingFailed, Errors
  <1>15. ASSUME NEW r \in Requests, Cancel(r) PROVE Abstract!Next
    BY <1>0, <1>15, DropMaps, ErrorMaps DEF Cancel, Errors
  <1>16. ASSUME NEW k \in Keys, Forget(k) PROVE Abstract!Next
    <2>1. Abstract!Forget(k)
      BY <1>16 DEF Forget, Abstract!Forget, Status, Box
    <2> QED BY <2>1 DEF Abstract!Next
  <1>17. CASE UNCHANGED vars
    BY <1>17 DEF vars, Abstract!vars, Status, Box
  <1> QED
    BY <1>1, <1>2, <1>3, <1>4, <1>5, <1>6, <1>7, <1>8, <1>9, <1>10, <1>11, <1>12,
       <1>13, <1>14, <1>15, <1>16, <1>17 DEF Next, Arrive, Handler

\* The handlers of GET /search, with their semaphore, their in-flight table and
\* their cancellations, implement the service: a caller is answered once, with its
\* own error or with a body fetched for its key, by itself, while it waited, or
\* before it arrived; failures are not shared and only results are cached.
THEOREM Implementation == Spec => ImplementsService
  <1>1. RInv /\ [Next]_vars => [Abstract!Next]_(Abstract!vars)
    BY StepMaps
  <1> QED BY <1>1, InitMaps, RefinementInvariant, PTL DEF Spec, ImplementsService, Abstract!Spec
===============================================================================
