SPECIFICATION PubFairSpec
CONSTANTS
    Talk <- MCTalk
    MaxMessages = 2
    CacheSize = 2
    MaxFaults = 1
  
CHECK_DEADLOCK FALSE
PROPERTIES OwedIsHandled
