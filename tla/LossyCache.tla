----------------------------- MODULE LossyCache -----------------------------
(***************************************************************************)
(* What the request handlers rely on when they use AppState.cache: a store *)
(* that answers a get with the body of the last accepted put under the key *)
(* or with nothing, and that may forget any entry at any moment (expiry,   *)
(* eviction).  Module SearchRequest uses the cache under this contract.    *)
(***************************************************************************)
CONSTANTS Keys, Bodies, NoBody

VARIABLES
  store,   \* the body a get would find under each key
  out      \* the result of the last get

vars == <<store, out>>

Init ==
  /\ store = [k \in Keys |-> NoBody]
  /\ out = NoBody

Put(k, b) ==
  /\ store' = [store EXCEPT ![k] = b]
  /\ UNCHANGED out

Get(k) ==
  /\ out' = store[k]
  /\ UNCHANGED store

Forget(ks) ==
  /\ store' = [k \in Keys |-> IF k \in ks THEN NoBody ELSE store[k]]
  /\ UNCHANGED out

Next ==
  \/ \E k \in Keys : Get(k) \/ \E b \in Bodies : Put(k, b)
  \/ \E ks \in SUBSET Keys : Forget(ks)

Spec == Init /\ [][Next]_vars
===============================================================================
