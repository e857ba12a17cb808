SPECIFICATION FairSpec
CONSTANTS
  NoDate = NoDate  NoPrice = NoPrice  Unparsable = Unparsable  NoPage = NoPage
  TopLimit = 5  MinEmbedded = 1  PerDomain = 1  MaxResults = 2
  Urls <- MCUrls
  OldDocs <- MCOldDocs
  Pages <- MCPages
  Caps = {2000}
  Workers = {w1, w2}
  Ticker = Ticker
  Threshold = 2
  MaxCrawls = 2
  MaxKills = 1
INVARIANTS TakenOnce OnePerUrl EmbeddingFollows NothingStranded WordsOnlyOutranked DatesKeepOrder
PROPERTIES NoSilentLoss BecomesSearchable
