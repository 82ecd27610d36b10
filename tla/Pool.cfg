SPECIFICATION PoolSpec
CONSTANTS
  g1 = g1
  g2 = g2
  t1 = t1
  t2 = t2
  small = small
  large = large
  Procs = {g1, g2}
  Plans = {small, large}
  GroupRules <- MCGroupRules
  Txs = {t1, t2}
  MaxRepeats = 1
  MaxRecords = 2
SYMMETRY Symmetry
INVARIANTS
  OneOwner
  PlanIsCurrent
  CandidatesFit
