CONSTANTS
  t1 = t1
  t2 = t2
  imsi1 = imsi1
  mac1 = mac1
  macShort = macShort
  match1 = match1
  Threads <- MCOneThread
  Subscribers <- MCSubscribers
  Macs <- MCMacs
  MacLen <- MCMacLen
  Matches <- MCMatches
  Epochs <- MCEpochs
  EnabledApps <- AllApps
  MacSnapshots <- MCMacSnapshots
  QuotaSnapshots <- MCQuotaSnapshots
  MaxCalls = 3
SPECIFICATION Spec
PROPERTY AtomicRPCs
CHECK_DEADLOCK FALSE
