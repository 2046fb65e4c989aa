SPECIFICATION MCSpec
CONSTANTS
  Attempts = {a1, a2, a3}
  Targets = {t1}
  Threshold = 2
  Cooldown = 1
  MaxCount = 3
  MaxTime = 2
  c1 = c1
  c2 = c2
INVARIANTS
  ProbeAfterCooldown
PROPERTIES
  ProbeMarkCleared
  NoStarvation
