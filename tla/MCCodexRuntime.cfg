CONSTANTS
    Nil = Nil
    Controls = {k1}
    Chats = {c1}
    MaxRestarts = 0
    MaxQueue = 1
    MaxText = 2
    MaxOps = 3
    MaxNotes = 3
SPECIFICATION Spec
INVARIANTS AnswerIsWhole SlotIsQuiet
PROPERTY OperationsEnd
CHECK_DEADLOCK FALSE
