---------------------------- MODULE SearchService ----------------------------
(***************************************************************************)
(* What GET /search promises its callers, with the semaphore, the in-flight *)
(* table and the cancellation of the handler hidden: a request is asked    *)
(* once and answered once, with an error of its own or with the body of a  *)
(* fetch for the SAME key.  A body reaches a request in three ways only:   *)
(* it fetched the body itself, the fetch ended while the request was       *)
(* waiting, or the body was in the cache when the request arrived.  A      *)
(* failed body is never shared and the cache holds only non-empty results. *)
(***************************************************************************)
CONSTANTS Requests, Keys, NoBody

Outcomes == {"results", "empty", "failed"}
Errors   == {"rejected", "busy", "timeout", "ranking_failed"}
Body     == [kind : Outcomes, by : Requests]
Reply    == [kind : Outcomes \cup Errors, by : Requests]

VARIABLES key, status, cache, box, reply
vars == <<key, status, cache, box, reply>>

TypeOK ==
  /\ key \in [Requests -> Keys]
  /\ status \in [Requests -> {"idle", "asked", "answered"}]
  /\ cache \in [Keys -> Body \cup {NoBody}]
  /\ box \in [Requests -> Body \cup {NoBody}]
  /\ reply \in [Requests -> Reply \cup {NoBody}]

Init ==
  /\ key \in [Requests -> Keys]
  /\ status = [r \in Requests |-> "idle"]
  /\ cache = [k \in Keys |-> NoBody]
  /\ box = [r \in Requests |-> NoBody]
  /\ reply = [r \in Requests |-> NoBody]

Answer(r, b) ==
  /\ status' = [status EXCEPT ![r] = "answered"]
  /\ reply' = [reply EXCEPT ![r] = b]

Ask(r) ==
  /\ status[r] = "idle"
  /\ status' = [status EXCEPT ![r] = "asked"]
  /\ UNCHANGED <<key, cache, box, reply>>

AnswerFromCache(r) ==
  /\ status[r] = "idle"
  /\ cache[key[r]] # NoBody
  /\ Answer(r, cache[key[r]])
  /\ UNCHANGED <<key, cache, box>>

AnswerError(r, e) ==
  /\ status[r] # "answered"
  /\ Answer(r, [kind |-> e, by |-> r])
  /\ box' = [box EXCEPT ![r] = NoBody]
  /\ UNCHANGED <<key, cache>>

\* A non-empty body is kept before the requests that wait for it are told.
Keep(r) ==
  /\ status[r] = "asked"
  /\ cache' = [cache EXCEPT ![key[r]] = [kind |-> "results", by |-> r]]
  /\ UNCHANGED <<key, status, box, reply>>

Publish(r, b, others) ==
  /\ status[r] = "asked"
  /\ \A o \in others : o # r /\ status[o] = "asked" /\ key[o] = key[r]
  /\ Answer(r, b)
  /\ box' = [o \in Requests |-> IF o \in others THEN b ELSE box[o]]
  /\ UNCHANGED <<key, cache>>

AnswerFromBox(r) ==
  /\ status[r] = "asked"
  /\ box[r] # NoBody
  /\ box[r].kind # "failed"
  /\ Answer(r, box[r])
  /\ box' = [box EXCEPT ![r] = NoBody]
  /\ UNCHANGED <<key, cache>>

DiscardFailure(r) ==
  /\ box[r] # NoBody
  /\ box[r].kind = "failed"
  /\ box' = [box EXCEPT ![r] = NoBody]
  /\ UNCHANGED <<key, status, cache, reply>>

Forget(k) ==
  /\ cache' = [cache EXCEPT ![k] = NoBody]
  /\ UNCHANGED <<key, status, box, reply>>

Next ==
  \/ \E r \in Requests :
       \/ Ask(r)
       \/ AnswerFromCache(r)
       \/ \E e \in Errors : AnswerError(r, e)
       \/ Keep(r)
       \/ \E kind \in Outcomes, others \in SUBSET Requests :
            Publish(r, [kind |-> kind, by |-> r], others)
       \/ AnswerFromBox(r)
       \/ DiscardFailure(r)
  \/ \E k \in Keys : Forget(k)

Spec == Init /\ [][Next]_vars
===============================================================================
