SPECIFICATION Spec
CONSTANTS
  MaxAsks = 4
  MaxSenses = 2
INVARIANTS TypeOK LagBounded SensedOnce
PROPERTIES ThinkingKeepsSenses WaitsEnd PendingIsHandled
