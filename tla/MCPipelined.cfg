CONSTANTS
  t1 = t1
  t2 = t2
  imsi1 = imsi1
  s1 = s1
  d1 = d1
  ALL = ALL
  Threads <- MCOneThread
  Subscribers <- MCSubscribers
  StaticRules <- MCStaticRules
  DynamicRules <- MCDynamicRules
  AllRules <- ALL
  Epochs = {1}
  EnabledApps = {"enforcement", "enforcement_stats"}
  SetupType = "LTE"
  ActivateRequests <- MCActivateRequests
  DeactivateRequests <- MCDeactivateV4
  SetupRequests <- MCPolicySetups
  MaxCalls = 2
  RestartOutcomes <- AlwaysRestored

SPECIFICATION Spec

INVARIANT TypeOK
INVARIANT OutcomeCoversRequest
INVARIANT EnforcedImpliesAccounted
PROPERTY SuccessMeansInstalledInBoth
PROPERTY PolicyContract

CHECK_DEADLOCK FALSE
