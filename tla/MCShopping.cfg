\* Five results in waves of two, a window of four, a strip of one; a search
\* of at most three seconds leaves the enrichment time, 24 s is the last moment.
CONSTANTS
  Ranked <- MCRanked
  Content <- MCContent
  Requests <- MCRequests
  Context <- MCContext
  Env <- MCEnv
  SearchTimes = {0, 1, 3, 24, 25, 30}
  MaxParallel = 2
  Window = 4
  TopN = 1

SPECIFICATION Spec
INVARIANTS AnswerNotLost ProvenanceHonest NoFactFetchedAgain PricesAsStated
