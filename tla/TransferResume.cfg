\* One upload of three blocks, two of them under way when one request fails.
CONSTANTS
    Policies = {"overwrite"}
    Blocks = 3
    Window = 2
    MaxJobs = 1
    MaxOrders = 1
    MaxOthers = 0
    MaxFaults = 1
SPECIFICATION CopySpec
\* The transfer ends.
CHECK_DEADLOCK FALSE
INVARIANTS LandedWhole
