\* Four starts and two edits: a start that fails or dies, one that goes on, one
\* after an edit, and one more.
CONSTANTS
    xdgConfig = "config"
    platformConfig = "platform-config"
    tokens = "tokens"
    Sources <- MCSources
    Items <- MCItems
    MaxStarts = 4
    MaxEdits = 2
SPECIFICATION Spec
INVARIANT NeverTorn
PROPERTIES NeverWrittenOver NeverCopiedTwice CompleteIsFinal OkMeansAll
CHECK_DEADLOCK FALSE
