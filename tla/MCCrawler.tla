------------------------------ MODULE MCCrawler ------------------------------
(* Model-checking instance of Crawler: two pages of one domain that link to *)
(* each other, a page of another domain, and an entry without a host.      *)
EXTENDS Crawler, TLC

CONSTANTS u1, u2, u3, u4

MCDomain == (u1 :> "a") @@ (u2 :> "a") @@ (u3 :> "b") @@ (u4 :> "none")
MCLinks == (u1 :> <<u2>>) @@ (u2 :> <<>>) @@ (u3 :> <<u1, u4>>) @@ (u4 :> <<>>)
MCSeeds == <<u1, u2>>
MCPayloads == {<<u3>>}
===============================================================================
