CONSTANTS
  t1 = t1
  t2 = t2
  imsi1 = imsi1
  mac1 = mac1
  macShort = macShort
  match1 = match1
  Threads <- MCThreads
  Subscribers <- MCSubscribers
  Macs <- MCMacs
  MacLen <- MCMacLen
  Matches <- MCMatches
  Epochs <- MCEpochs
  EnabledApps <- MacAndQuota
  MacSnapshots <- OneMacSnapshot
  QuotaSnapshots <- OneQuotaSnapshot
  MaxCalls = 2
SPECIFICATION Spec
INVARIANT TypeOK
PROPERTY EveryCallReturns
CHECK_DEADLOCK FALSE
