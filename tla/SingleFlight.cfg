\* Two goroutines that load three keys that need one another in a chain.
CONSTANTS
    Goroutines = {g1, g2}
    Keys <- MCKeys
    Calls = {1, 2, 3, 4, 5, 6, 7}
    Nil = Nil
    Needs <- MCNeeds
    Rank <- MCRank
SPECIFICATION FairSpec
INVARIANTS OneFlightPerKey NoLostWaiter NoDeadlock NeverEmptyResult
PROPERTIES DoReturns
