SPECIFICATION Spec
CONSTANTS
  Slots = {1, 2}
  Bursts <- MCBursts
CHECK_DEADLOCK FALSE
PROPERTY WorkspaceCapHolds
