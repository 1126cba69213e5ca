\* Two windows, two edits and an import after the old rows were split up; any starts;
\* two files in the editor, two changes and one crash.
CONSTANTS
    Hosts = {h1, h2}
    Commands = {k1}
    Entities = {e1}
    NoHost = NoHost
    p1 = p1
    p2 = p2
    p3 = p3
    p4 = p4
    p5 = p5
    g1 = g1
    g2 = g2
    x1 = x1
    ProfileIds = {p1, p2, p3, p4, p5}
    GroupIds = {g1, g2, g3, g4}
    ProxyIds = {x1, x2, x3, x4}
    Windows = {w1, w2}
    MaxWrites = 3
    MaxEdits = 2
    OldFile <- MCOldFile
    Stored <- MCStored
    Root = Root
    None = None
    NoInline = NoInline
    NoDraft = NoDraft
    Files = {f1, f2}
    NoFile = NoFile
    NoText = NoText
    MaxTyped = 2
    MaxAsks = 3
    MaxReads = 2
    MaxCrashes = 1
SPECIFICATION Spec
CHECK_DEADLOCK FALSE
SYMMETRY Symmetry
INVARIANTS TreeComplete PlaintextIsMarked DraftsSurvive
PROPERTIES SecretsSurvive NoBlindOverwrite
