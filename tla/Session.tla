------------------------------- MODULE Session -------------------------------
(* What the rest of the program may rely on about an SSH session: the states  *)
(* broadcast as session:state, and whether the manager still holds it.        *)
(* SshConnection implements it when the user acts between attempts; the       *)
(* services that live on a session (SessionServices) are composed with it.    *)
EXTENDS Naturals

CONSTANT MaxTries   \* MAX_RECONNECT_ATTEMPTS

ASSUME SessionAssumption == MaxTries \in Nat

VARIABLES
    registered,   \* the manager holds the session
    state,        \* SessionState
    tries         \* consecutive automatic reconnects

sessionVars == <<registered, state, tries>>

Unstable == {"connecting", "authenticating", "reconnecting"}

SessionTypeOK ==
    /\ registered \in BOOLEAN
    /\ state \in Unstable \cup {"ready", "closed"}
    /\ tries \in 0..MaxTries

SessionInit ==
    /\ registered = FALSE
    /\ state = "connecting"
    /\ tries = 0

\* open() up to its first await.
Begin ==
    /\ ~registered /\ state = "connecting"
    /\ registered' = TRUE
    /\ UNCHANGED <<state, tries>>

\* The configuration is built, the handshake begins.
Authenticate ==
    /\ registered /\ state = "connecting"
    /\ state' = "authenticating"
    /\ UNCHANGED <<registered, tries>>

Ready ==
    /\ registered /\ state = "authenticating"
    /\ state' = "ready"
    /\ tries' = 0
    /\ UNCHANGED registered

\* The connection, or the attempt to get one, is lost and another is scheduled.
Lose ==
    /\ registered /\ state \in {"connecting", "authenticating", "ready"}
    /\ tries < MaxTries
    /\ state' = "reconnecting"
    /\ tries' = tries + 1
    /\ UNCHANGED registered

\* The same without another try; a session that was never ready is dropped.
GiveUp ==
    /\ registered /\ state \in {"connecting", "authenticating", "ready"}
    /\ state' = "closed"
    /\ registered' \in IF state = "ready" THEN {TRUE} ELSE BOOLEAN
    /\ UNCHANGED tries

\* The backoff timer expires.
Retry ==
    /\ registered /\ state = "reconnecting"
    /\ state' = "connecting"
    /\ UNCHANGED <<registered, tries>>

\* The user reconnects.
Again ==
    /\ registered /\ state \in {"ready", "reconnecting", "closed"}
    /\ state' = "connecting"
    /\ tries' = 0
    /\ UNCHANGED registered

\* The user closes the session.
End ==
    /\ registered
    /\ registered' = FALSE
    /\ state' = "closed"
    /\ UNCHANGED tries

SessionNext ==
    \/ Begin \/ Authenticate \/ Ready \/ Lose \/ GiveUp \/ Retry \/ Again \/ End

SessionSafe == SessionInit /\ [][SessionNext]_sessionVars

\* Every attempt ends, and a scheduled one begins.
SessionFair ==
    /\ WF_sessionVars(Authenticate \/ (state = "connecting" /\ (Lose \/ GiveUp)))
    /\ WF_sessionVars(Ready \/ (state = "authenticating" /\ (Lose \/ GiveUp)))
    /\ WF_sessionVars(Retry)

SessionSpec == SessionSafe /\ SessionFair
==============================================================================
