CONSTANTS
    Texts <- MCTexts
    Printed <- MCPrinted
    MaxForms = 4
    MaxRuns = 4
    Document <- MCDocument
    BufferSize = {1, 2, 3, 1000}
    InitialSize = 3
    GrowSize = 2
    Chunk <- MCChunk
    MaxLength = 7
    CalendarId = {"a", "b", "/"}
    Unnameable = {"/"}
    Calendar = {"base", "composite"}
SPECIFICATION MCSpec
CHECK_DEADLOCK FALSE
INVARIANTS VariablesRight Sane ReadsBack
PROPERTY EvaluationsClean
