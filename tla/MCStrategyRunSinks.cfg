SPECIFICATION RunSpec
CONSTANTS
  BarNs = 2
  OneSecNs = 2
  VmMaxStack = 3
  VmMaxWindow = 3
  Cases <- TwoRulesCases
  Contexts <- MCContexts
  Twins <- MCTwins
CHECK_DEADLOCK FALSE
INVARIANT
  StackAsDeclared
