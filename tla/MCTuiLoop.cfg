SPECIFICATION FairSpec
CONSTANTS
    MaxLines = 2
    MaxWatches = 2
    MaxTicks = 1
    MaxGen = 1
CHECK_DEADLOCK FALSE
INVARIANTS
    NoQuestionWhenIdle
    PaneQuestionLive
    JournalComplete
    OutputOnce
    GridComplete
PROPERTIES
    QuestionHasFocus
    QuestionSettled
    MessagesApplied
    ImplementsSlot
