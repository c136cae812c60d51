SPECIFICATION Spec
CONSTANTS
    Chars <- MCChars
    Requests = {r1, r2, r3}
    EditorSlots = 1
    MaxRetries = 1
    Documents <- MCDocuments
    Commands <- MCCommands
    Messages <- MCMessages
    MaxPrompts = 1
INVARIANTS
    TypeOK
    SlotsSound
    DirsOwned
    EditExact
    AnsweredOnce
PROPERTIES
    RequestsEnd
