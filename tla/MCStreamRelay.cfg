SPECIFICATION Spec
CONSTANTS
    MaxLineBytes = 4
    MaxEventBytes = 3
    MaxToolCalls = 2
    MaxToolBytes = 5
    MaxNativeTools = 2
    MaxInputItems = 4
    MaxTools = 3
    MaxInputChars = 5
    MaxOutputChars = 6
    MaxStreamEvents = 6
    Providers = {"openai", "anthropic", "codex"}
    Clients = {"chat", "messages", "responses"}
    Bodies <- MCBodies
    Answers <- MCAnswers
    Scripts <- MCScripts
    MaxChunk = 9
INVARIANTS
    AnswerPreserved
    StreamEndsReadably
    ConversationStaysValid
CHECK_DEADLOCK FALSE
