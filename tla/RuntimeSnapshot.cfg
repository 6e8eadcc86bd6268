SPECIFICATION MCSpec
CONSTANTS
  a = a
  b = b
  c = c
  r = r
  Snapshots = {a, b, c}
  Readers = {r}
  None = None
  Malformed = Malformed
  MaxFaults = 1
  MaxOvertakes = 3
INVARIANTS ManifestIsDurable OvertakenReadersAreServed HolderKeepsLock
PROPERTY DamageIsHealed
CHECK_DEADLOCK FALSE
