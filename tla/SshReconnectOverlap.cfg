\* Reconnect while an attempt is in flight.
CONSTANTS
    Attempts = {a1, a2, a3}
    Terms = {t1}
    NoClient = NoClient
    MAX_RECONNECT_ATTEMPTS = 2
    AutoReconnect = TRUE
SPECIFICATION Spec
\* A closed session really stops.
CHECK_DEADLOCK FALSE
INVARIANTS ReadyHasClient
