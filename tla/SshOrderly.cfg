\* User commands only between attempts.
CONSTANTS
    Attempts = {a1, a2, a3}
    Terms = {t1, t2}
    NoClient = NoClient
    MAX_RECONNECT_ATTEMPTS = 2
    AutoReconnect = TRUE
SPECIFICATION FairOrderlySpec
\* A closed session really stops.
CHECK_DEADLOCK FALSE
INVARIANTS TermsTracked ReadyHasClient NoOrphanClient OneAttempt
PROPERTIES SessionSettles ImplementsSession
