\* A local rule, an automatic local rule and a -R rule; a monitor; one path in
\* the editor that may lead to two files; a tab whose pane is mounted twice and
\* whose shells send two units, of which one is below the limit.
CONSTANTS
    MaxTries = 1
    Rules = {web, auto, back}
    RemoteRules = {back}
    AutoRules = {auto}
    Slots = {k1, k2}
    NoSlot = NoSlot
    MAX_CONSECUTIVE_FAILURES = 3
    Linux = TRUE
    MaxKills = 1
    MaxPending = 2
    Files = {f1, f2}
    Contents = {long, short}
    Tiny = {short}
    Gone = Gone
    MaxForeign = 1
    MaxTerms = 3
    MaxPanes = 2
    MaxOutput = 2
    MaxErrors = 1
    MaxMail = 3
    FLOW_PAUSE = 1
    FLOW_RESUME = 1
SPECIFICATION Spec
\* A closed session has no more steps.
CHECK_DEADLOCK FALSE
INVARIANTS ServedAsShown ForwardsRestored FileNeverVanishes TabTellsTruth
PROPERTIES MonitorResumes NoLostUpdate TabGetsTerminal OutputFlows
