------------------------------ MODULE MCShopping ------------------------------
(* Five results: a shop with several signals, one with a range in microdata,  *)
(* an article without facts, a page with a price container only, and one with *)
(* a container and a markup that states but the upper end of a range.         *)
EXTENDS Shopping

MCRanked == <<<<"u1", <<"www", "shop", "com">>>>, <<"u2", <<"store", "net">>>>,
              <<"u3", <<"blog", "org">>>>, <<"u4", <<"shop", "com">>>>, <<"u5", <<"mall", "com">>>>>>

Bare == [nodes |-> <<>>, meta |-> <<>>, micro |-> <<>>, hproduct |-> <<>>, containers |-> <<>>]
Tag(field, value) == [field |-> field, value |-> value]
Item(scope, prop, value) == [close |-> FALSE, name |-> "div", scope |-> scope, prop |-> prop, value |-> value]
End == [close |-> TRUE, name |-> "div"]

MCContent ==
  "u1" :> [Bare EXCEPT !.nodes = <<[type |-> "product", sku |-> "s1", price |-> 20, currency |-> "EUR"],
                                   [type |-> "article", price |-> 5]>>,
                       !.meta = <<Tag("price", 25), Tag("currency", "USD"), Tag("merchant", "Shop")>>]
  @@ "u2" :> [Bare EXCEPT !.meta = <<Tag("price", 30), Tag("price", 35), Tag("gtin", "s1")>>,
                          !.micro = <<Item("product", "none", 0), Item("offer", "price", <<<<28, "EUR">>, <<32, "EUR">>>>),
                                      Item("other", "brand", "Maker"), End, End, Item("none", "sku", "outside")>>]
  @@ "u3" :> Bare
  @@ "u4" :> [Bare EXCEPT !.hproduct = <<Tag("price", "unreadable"), Tag("sku", "s4")>>,
                          !.containers = <<[kind |-> "text", amount |-> 0, currency |-> "EUR"],
                                           [kind |-> "meta", amount |-> 18, currency |-> "EUR"]>>]
  @@ "u5" :> [Bare EXCEPT !.nodes = <<[type |-> "aggregateoffer", high |-> 50, name |-> "Five"]>>,
                          !.meta = <<Tag("price", 45), Tag("currency", "USD")>>,
                          !.containers = <<[kind |-> "data", amount |-> 12, currency |-> "EUR"]>>]

Asked(path, label, bound, exact) ==
  [path |-> path, label |-> label, strong |-> FALSE, bound |-> bound, exact |-> exact, keyword |-> FALSE]

MCRequests ==
  {Asked("search", "informational", FALSE, FALSE), Asked("search", "transactional", FALSE, TRUE),
   Asked("shopping", "informational", FALSE, FALSE), Asked("shopping", "comparison", TRUE, FALSE),
   Asked("shopping", "comparison", FALSE, TRUE)}

Network(id, key, priority, suffix) ==
  [id |-> id, enabled |-> TRUE, key |-> key, priority |-> priority, suffix |-> suffix, policy |-> "merchant_host",
   fallback |-> "home", fallbackHost |-> <<id, "example">>,
   params |-> {[name |-> "tag", from |-> "env", key |-> key], [name |-> "sub", from |-> "subid", key |-> "none"]}]

MCContext == [programs |-> Load(<<Network("p1", "K1", 1, <<"store", "net">>), Network("p2", "K2", 2, <<"shop">>)>>),
              networks |-> Load(<<Network("n1", "K3", 1, <<>>), Network("n2", "K1", 2, <<>>)>>)]
MCEnv == {"K1", "K3"}
===============================================================================
