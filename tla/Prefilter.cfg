SPECIFICATION Spec
CONSTANTS
  Rulesets <- MCRulesets
  Values <- MCValues
  Sizes = {0, 1, 3, 6, 9}
  Others <- MCOthers
  Fold <- MCFold
  WordBits = 2
PROPERTIES
  CandidatesImplemented
