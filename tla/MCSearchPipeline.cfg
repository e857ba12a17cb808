SPECIFICATION Spec
CONSTANTS
  NoDate = NoDate
  NoPrice = NoPrice
  NoCurrency = NoCurrency
  NoLanguage = NoLanguage
  NoHost = NoHost
  NoPlace = NoPlace
  Within <- MCWithin
  Stem <- MCStem
  Kind <- MCKind
  Size <- MCSize
  Synonyms <- MCSynonyms
  Similar <- MCSimilar
  Rate <- MCRate
  Cost <- MCCost
  Bare <- MCBare
  CountryName <- MCCountryName
  Gazetteer <- MCGazetteer
  Operator <- MCOperator
  Amount <- MCAmount
  CurrencyOf <- MCCurrencyOf
  Requests <- MCRequests
  IntentAttempts = 3
  EnoughNegative = 3
  EnoughPlain = 3
  FewResults = 3
INVARIANTS CapsHold NothingBeyondTheBound ReportedPriceIsAsked ExcludedStayOut
PROPERTIES GatesLeaveSomething EverySearchEnds
