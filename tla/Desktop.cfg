\* Two generations of a remote desktop and two reconnect() calls at once; three
\* frames of which two may be unacknowledged, and a port that is replaced;
\* three instances, one change and one installation; two transfers of the
\* configuration; four questions of two sessions; three jobs that share a
\* connection.
CONSTANTS
    MaxGenerations = 2
    MaxCalls = 2
    Passwords = {p, q}
    NoPassword = NoPassword
    MAX_IN_FLIGHT_FRAMES = 2
    MaxFrames = 3
    MaxPorts = 2
    MaxRenderers = 1
    MaxExpiries = 1
    MaxFailures = 1
    Instances = {i1, i2, i3}
    NoInstance = NoInstance
    MaxRevision = 1
    MaxInstalls = 1
    MaxSends = 2
    MaxReceives = 2
    r1 = r1
    r2 = r2
    r3 = r3
    r4 = r4
    s1 = s1
    s2 = s2
    Questions <- MCQuestions
    Sessions <- MCSessions
    SessionOf <- MCSessionOf
    NoRequest = NoRequest
    Jobs = {j1, j2, j3}
    Clients = {c1, c2, c3}
    NoClient = NoClient
SPECIFICATION Spec
\* Users, peers and workers may stop.
CHECK_DEADLOCK FALSE
INVARIANTS TypeOK NothingLost OneLeader InstallAlone
INVARIANTS ConsentIsPersonal
PROPERTIES RdpSettles RejectedNotRetried FramesFlow RevisionsConverge LanSettles
PROPERTIES EveryRequestSettles NeverEndedInUse
