CONSTANTS
  UserMin = 100
  Syntax <- MCSyntax
  Detectors <- MCDetectors
  DataFiles <- MCDataFiles
  PatternLimit = 60
  Files <- MCFiles
  Settings <- MCSettings
  Authored <- MCAuthored
  Probes <- MCProbes
SPECIFICATION Spec
INVARIANTS
  NeverNarrower
  ParanoiaTier
  EveryRuleAccounted
  PlanExact
  GeneratedSame
  CounterpartExact
CHECK_DEADLOCK FALSE
