------------------------------ MODULE MCIngest -------------------------------
EXTENDS Ingest, TLC

Base == [url |-> "a", domain |-> "x", title |-> 9, len |-> 0, blocks |-> <<300, 2400>>,
         entropy |-> 42, alpha |-> 70, word |-> 5, ascii |-> TRUE, offers |-> <<>>,
         dates |-> <<>>, lex |-> 400, sim |-> 60, inTitle |-> FALSE, overlap |-> 100,
         authority |-> DomainAuthority({"org_net", "docs_path"}), age |-> 9]

\* A page with an invalid and a valid date, one of another URL published the day
\* after, off the topic but with a strong embedding, and one that is gibberish.
MCPages ==
  { [Base EXCEPT !.dates = <<[year |-> 1999, month |-> 1, day |-> 1],
                             [year |-> 2024, month |-> 12, day |-> 31]>>],
    [Base EXCEPT !.url = "b", !.dates = <<[year |-> 2025, month |-> 1, day |-> 1]>>,
                 !.lex = 12, !.sim = 90, !.blocks = <<600>>],
    [Base EXCEPT !.entropy = 20] }

\* The old index has a document of the second page's URL and two of other domains.
Old(id, page) ==
  [id |-> id, emb |-> FALSE, page |-> [page EXCEPT !.len = 2000],
   price |-> {[amount |-> 12, currency |-> "EUR"]}, quality |-> 100, date |-> NoDate]
MCOldDocs ==
  { Old(10, [Base EXCEPT !.url = "b", !.lex = 30]),
    Old(11, [Base EXCEPT !.url = "c", !.domain = "y", !.lex = 200]),
    Old(12, [Base EXCEPT !.url = "d", !.domain = "z", !.lex = 100, !.inTitle = TRUE]) }

MCUrls == {"a", "b", "c", "d"}
===============================================================================
