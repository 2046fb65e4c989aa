SPECIFICATION Spec
CONSTANTS
  Callers = {"reload", "handler", "lifecycle"}
  Main = "main"
  QueueCapacity = 1
  MaxSharedEvents = 2
  MaxFaults = 1
  MaxSampled = 1
  Jobs = {j1}
  Routes = 1
  NoSnapshot = NoSnapshot
  Contents <- MCContents
  MaxEdits = 3
  MaxReads = 1
  Local = Local
  Documents <- MCDocuments
  Subjects = {"s"}
  MAX_ACTIVATION_HISTORY = 1
  MAX_PROFILES = 2
  MAX_BINDINGS = 2
  MaxMutations = 4
INVARIANTS AuditLosesNothing InstalledIsAudited ActivePolicyServes
PROPERTIES LifecycleIsStack ReloadSettles
CHECK_DEADLOCK FALSE
