CONSTANTS
    StartRates <- MCStartRates
    MinRate = 1
    MaxRate = 3
    RateStep = 2
    AutoPause = 2
    MaxAge = 4
    MaxKeys = 5
SPECIFICATION LiveSpec
INVARIANT ErrorIsNews
PROPERTIES NoRapidRetry RefreshesAgain
CHECK_DEADLOCK FALSE
