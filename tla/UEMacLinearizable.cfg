CONSTANTS
  t1 = t1
  t2 = t2
  imsi1 = imsi1
  mac1 = mac1
  macShort = macShort
  match1 = match1
  Threads <- MCThreads
  Subscribers <- MCSubscribers
  Macs <- MCMacs
  MacLen <- MCMacLen
  Matches <- MCMatches
  Epochs <- MCEpochs
  EnabledApps <- NoLearning
  MacSnapshots <- NoSnapshots
  QuotaSnapshots <- NoSnapshots
  MaxCalls = 2
SPECIFICATION HSpec
INVARIANT Linearizable
CHECK_DEADLOCK FALSE
