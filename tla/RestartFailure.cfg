CONSTANTS
  t1 = t1
  t2 = t2
  imsi1 = imsi1
  s1 = s1
  d1 = d1
  ALL = ALL
  Threads <- MCThreads
  Subscribers <- MCSubscribers
  StaticRules <- MCStaticRules
  DynamicRules <- MCDynamicRules
  AllRules <- ALL
  Epochs = {1, 2}
  EnabledApps = {"enforcement", "enforcement_stats"}
  SetupType = "LTE"
  ActivateRequests <- MCNoRequests
  DeactivateRequests <- MCNoRequests
  SetupRequests <- MCFullPolicySetups
  MaxCalls = 1
  RestartOutcomes <- AnyRestartOutcome

SPECIFICATION Spec

PROPERTY SetupSuccessMeansRestored

CHECK_DEADLOCK FALSE
