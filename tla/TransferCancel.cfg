\* A directory canceled while it is being classified or listed.
CONSTANTS
    Sessions = {s1}
    Kinds = {"download"}
    GlobalLimit = 2
    SessionLimit = 2
    ExpandLimit = 1
    MaxTasks = 3
    MaxChildren = 2
    MaxCommands = 2
SPECIFICATION FairSpec
\* The queue stops when the user does.
CHECK_DEADLOCK FALSE
PROPERTIES CancelIsFinal
