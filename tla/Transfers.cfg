\* Two sessions, two transfers each and three in all, two directories listed at a time;
\* files of three blocks, two requests under way, the same name asked for twice;
\* two directories, two uploads and three acts of the user.
CONSTANTS
    Sessions = {s1, s2}
    Kinds = {"upload", "download"}
    GlobalLimit = 3
    SessionLimit = 2
    ExpandLimit = 2
    MaxTasks = 3
    MaxChildren = 2
    MaxCommands = 3
    Policies = {"ask", "rename"}
    Blocks = 3
    Window = 2
    MaxJobs = 2
    MaxOrders = 2
    MaxOthers = 1
    MaxFaults = 1
    Dirs = {a, b}
    NoDir = NoDir
    Home = a
    MaxUploads = 2
    MaxActs = 3
SPECIFICATION TransfersSpec
\* The queue stops when the user does, and a file ends.
CHECK_DEADLOCK FALSE
INVARIANTS NeverStranded LandedWhole OnlyWantedUploads
PROPERTIES ViewConverges UploadShown GoesWhereAsked DoneAfterChildren QueueDrains KeptUnlessOverwritten
