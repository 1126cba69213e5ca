CONSTANTS
    MaxGenerations = 3
    MaxCalls = 1
    Passwords = {p, q}
    NoPassword = NoPassword
SPECIFICATION RdpSpec
CHECK_DEADLOCK FALSE
PROPERTIES NeverRetriedSilently
