SPECIFICATION MCSpec
CONSTANTS
  Probes = {p1, p2, p3}
  Targets = {t1}
  Threshold = 2
  Cooldown = 2
  KeyTTL = 4
  NoProbe = NoProbe
  Retries = 1
  None = None
  Models <- MCModels
  Ladder <- MCLadder
  FallbacksOf <- MCFallbacksOf
  Preset <- MCPreset
  Pool <- MCPool
  LocalModels = {"lo"}
  LocalTargets = {"lo#a"}
PROPERTY NoSecondRequest
