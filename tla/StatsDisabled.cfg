CONSTANTS
  t1 = t1
  t2 = t2
  imsi1 = imsi1
  s1 = s1
  d1 = d1
  ALL = ALL
  Threads <- MCOneThread
  Subscribers <- MCSubscribers
  StaticRules <- MCStaticRules
  DynamicRules <- MCDynamicRules
  AllRules <- ALL
  Epochs = {1}
  EnabledApps = {"enforcement"}
  SetupType = "LTE"
  ActivateRequests <- MCActivateRequests
  DeactivateRequests <- MCDeactivateRequests
  SetupRequests <- MCPolicySetups
  MaxCalls = 2
  RestartOutcomes <- AlwaysRestored

SPECIFICATION Spec

INVARIANT OutcomeCoversRequest

CHECK_DEADLOCK FALSE
