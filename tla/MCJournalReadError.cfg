SPECIFICATION Spec
CONSTANTS
  g = g
  t1 = t1
  t2 = t2
  big = big
  Genesis = g
  Payload <- MCPayload
  Oversize <- MCOversize
  MaxGen = 4
  ReadMayFail = TRUE
INVARIANT NewestNeverAtRisk
