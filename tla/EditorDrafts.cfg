\* Two files and two changes.
CONSTANTS
    Files = {f1, f2}
    NoFile = NoFile
    NoText = NoText
    MaxTyped = 2
    MaxAsks = 3
    MaxReads = 2
    MaxCrashes = 1
SPECIFICATION EditorSpec
\* The application really quits.
CHECK_DEADLOCK FALSE
INVARIANT DraftsSurvive
