-------------------------- MODULE SshConnectionProofs --------------------------
(* Proofs about SshConnection, for every set of attempts and terminals, every *)
(* retry limit and both values of autoReconnect.                              *)
(*   1. Spec => type correctness and NoTimerAfterClose, from IInv: any command *)
(*      at any moment.                                                         *)
(*   2. Spec => AttemptsOnlyWhileRegistered, from the same invariant.          *)
(*   3. OrderlySpec => the connection invariants, from OInv.                   *)
(*   4. OrderlySpec implements the steps of Session, from OInv and RInv.       *)
EXTENDS SshConnection, TLAPS

(* While the first connection is in flight nothing else is.                    *)
FirstAlone ==
    \A a, b \in Attempts :
        kind[a] = "first" /\ InFlight(a) => ~reconnectTimer /\ (b # a => phase[b] = "idle")

(* A session outside the registry that the user did not close is inert: it was *)
(* never opened, or its first connection failed.                               *)
InertUnlessRegistered ==
    ~registered /\ ~intentionalClose =>
        ~reconnectTimer /\ \A a \in Attempts : phase[a] = "idle"

IInv ==
    /\ TypeOK
    /\ registered => ~intentionalClose
    /\ intentionalClose => state # "connecting"
    /\ NoTimerAfterClose
    /\ FirstAlone
    /\ InertUnlessRegistered

(* The Open guard, and the two user commands, find no first connection in      *)
(* flight: SessionKnown read positively.                                       *)
LEMMA KnownMeansNoFirst ==
    ASSUME SessionKnown, NEW a \in Attempts, kind[a] = "first"
    PROVE  ~InFlight(a)
BY DEF SessionKnown, InFlight

(* What a rejected attempt may do to the fields it touches, given that a retry *)
(* only re-arms the timer of a session the user has not closed.                *)
LEMMA RejectedEffect ==
    ASSUME TypeOK, NEW a \in Attempts, AttemptRejected(a)
    PROVE  /\ registered' \in BOOLEAN
           /\ state' \in States
           /\ reconnectAttempt' \in 0..MAX_RECONNECT_ATTEMPTS
           /\ reconnectTimer' \in BOOLEAN
           /\ registered' = registered \/ (kind[a] = "first" /\ registered' = FALSE)
           /\ \/ reconnectTimer' = reconnectTimer
              \/ kind[a] = "retry" /\ ~intentionalClose /\ registered' = registered
           /\ \/ state' \in {"closed", "reconnecting"}
              \/ state' = state /\ (reconnectTimer \/ intentionalClose)
           /\ intentionalClose => state' \in {state, "closed"}
           /\ ~reconnectTimer /\ reconnectTimer' => state' = "reconnecting"
<1>1. registered' \in BOOLEAN /\ reconnectTimer' \in BOOLEAN
  BY Zenon DEF AttemptRejected, RetryFailed, ScheduleReconnect, TypeOK
<1>2. state' \in States
  BY DEF AttemptRejected, RetryFailed, ScheduleReconnect, TypeOK, States
<1>3. reconnectAttempt' \in 0..MAX_RECONNECT_ATTEMPTS
  BY ConstantsAssumption
     DEF ConstantsAssumption, AttemptRejected, RetryFailed, ScheduleReconnect, TypeOK
<1>4. registered' = registered \/ (kind[a] = "first" /\ registered' = FALSE)
  BY Zenon DEF AttemptRejected
<1>5. \/ reconnectTimer' = reconnectTimer
      \/ kind[a] = "retry" /\ ~intentionalClose /\ registered' = registered
  BY Zenon DEF AttemptRejected, RetryFailed, ScheduleReconnect
<1>6. /\ \/ state' \in {"closed", "reconnecting"}
         \/ state' = state /\ (reconnectTimer \/ intentionalClose)
      /\ intentionalClose => state' \in {state, "closed"}
      /\ ~reconnectTimer /\ reconnectTimer' => state' = "reconnecting"
  BY DEF AttemptRejected, RetryFailed, ScheduleReconnect
<1> QED
  BY <1>1, <1>2, <1>3, <1>4, <1>5, <1>6

(* The same for the client's loss. *)
LEMMA ScheduleTypes ==
    ASSUME TypeOK, ScheduleReconnect, reconnectAttempt < MAX_RECONNECT_ATTEMPTS
    PROVE  state' \in States /\ reconnectAttempt' \in 0..MAX_RECONNECT_ATTEMPTS
           /\ reconnectTimer' \in BOOLEAN
<1>1. reconnectTimer' \in BOOLEAN
  BY Zenon DEF ScheduleReconnect, TypeOK
<1>2. state' \in States /\ reconnectAttempt' \in 0..MAX_RECONNECT_ATTEMPTS
  BY ConstantsAssumption DEF ConstantsAssumption, ScheduleReconnect, TypeOK, States
<1> QED
  BY <1>1, <1>2

LEMMA InitIInv == Init => IInv
<1> SUFFICES ASSUME Init PROVE IInv
  OBVIOUS
<1>1. reconnectAttempt \in 0..MAX_RECONNECT_ATTEMPTS
  BY ConstantsAssumption DEF ConstantsAssumption, Init
<1>2. TypeOK
  BY <1>1 DEF Init, TypeOK, States, Phases, Kinds, ClientOrNone
<1>3. /\ FirstAlone /\ InertUnlessRegistered /\ NoTimerAfterClose
      /\ registered => ~intentionalClose
      /\ intentionalClose => state # "connecting"
  BY DEF Init, FirstAlone, InertUnlessRegistered, NoTimerAfterClose, InFlight
<1> QED
  BY <1>2, <1>3 DEF IInv

(* Each step of the system preserves the types. *)
LEMMA TypeStep ==
    ASSUME TypeOK, [Next]_vars
    PROVE  TypeOK'
<1> USE DEF TypeOK, States, Phases, Kinds, ClientOrNone, termVars, retryVars, attemptVars
<1>1. ASSUME NEW a \in Attempts, ConfigFails(a) PROVE TypeOK'
  BY <1>1, RejectedEffect DEF ConfigFails, Forget
<1>2. ASSUME NEW a \in Attempts, ConfigReady(a) PROVE TypeOK'
  BY <1>2 DEF ConfigReady
<1>3. ASSUME NEW a \in Attempts, HandshakeFails(a) PROVE TypeOK'
  BY <1>3, RejectedEffect DEF HandshakeFails, Forget
<1>4. ASSUME NEW a \in Attempts, HandshakeAbandoned(a) PROVE TypeOK'
  BY <1>4 DEF HandshakeAbandoned, Forget
<1>5. ASSUME NEW a \in Attempts, HandshakeReady(a) PROVE TypeOK'
  BY <1>5, ConstantsAssumption DEF ConstantsAssumption, HandshakeReady
<1>6. ASSUME NEW a \in Attempts, StaleClientClosed(a) PROVE TypeOK'
  BY <1>6 DEF StaleClientClosed, Forget
<1>7. ASSUME NEW a \in Attempts, ClientClosed(a) PROVE TypeOK'
  <2>1. state' \in States /\ reconnectAttempt' \in 0..MAX_RECONNECT_ATTEMPTS
        /\ reconnectTimer' \in BOOLEAN
    BY <1>7, ScheduleTypes DEF ClientClosed
  <2> QED
    BY <1>7, <2>1 DEF ClientClosed, Forget, TeardownAndTell, TeardownSilently
<1>8. ASSUME NEW a \in Attempts, RetryTimer(a) PROVE TypeOK'
  BY <1>8 DEF RetryTimer, Establish
<1>9. ASSUME NEW a \in Attempts, Open(a) PROVE TypeOK'
  BY <1>9 DEF Open, Establish
<1>10. ASSUME NEW a \in Attempts, Reconnect(a) PROVE TypeOK'
  <2>1. reconnectAttempt' \in 0..MAX_RECONNECT_ATTEMPTS
    BY <1>10, ConstantsAssumption DEF ConstantsAssumption, Reconnect
  <2> QED
    BY <1>10, <2>1 DEF Reconnect, Establish, EndClient, TeardownAndTell
<1>11. ASSUME Close PROVE TypeOK'
  BY <1>11 DEF Close, Disconnect, EndClient, TeardownAndTell
<1>12. ASSUME NEW t \in Terms, TermStep(t) PROVE TypeOK'
  BY <1>12 DEF TermStep, OpenShell, ShellOpened, ShellOpenFails, ShellExit, CloseTerm
<1>13. CASE UNCHANGED vars
  BY <1>13 DEF vars
<1> QED
  BY <1>1, <1>2, <1>3, <1>4, <1>5, <1>6, <1>7, <1>8, <1>9, <1>10, <1>11, <1>12, <1>13
     DEF Next, SystemNext, AttemptStep

(* A first connection in flight, or a session outside the registry, is only    *)
(* left by the attempt's own outcome or by the user's close.                   *)
LEMMA IInvStep ==
    ASSUME IInv, [Next]_vars
    PROVE  IInv'
<1>0. TypeOK /\ TypeOK'
  BY TypeStep DEF IInv
<1> DEFINE Rest == /\ registered => ~intentionalClose
                   /\ intentionalClose => state # "connecting"
                   /\ NoTimerAfterClose
                   /\ FirstAlone
                   /\ InertUnlessRegistered
<1> SUFFICES Rest'
  BY <1>0 DEF IInv
<1> USE <1>0 DEF TypeOK, Phases, Kinds, NoTimerAfterClose, FirstAlone, InFlight,
                 InertUnlessRegistered, IInv
<1>1. ASSUME NEW a \in Attempts, ConfigFails(a) PROVE Rest'
  <2>1. FirstAlone'
    BY <1>1 DEF ConfigFails, Forget
  <2>2. InertUnlessRegistered'
    BY <1>1, RejectedEffect DEF ConfigFails, Forget
  <2>3. /\ (registered => ~intentionalClose)'
        /\ (intentionalClose => state # "connecting")'
        /\ NoTimerAfterClose'
    BY <1>1, RejectedEffect DEF ConfigFails
  <2> QED
    BY <2>1, <2>2, <2>3
<1>2. ASSUME NEW a \in Attempts, ConfigReady(a) PROVE Rest'
  BY <1>2 DEF ConfigReady, retryVars
<1>3. ASSUME NEW a \in Attempts, HandshakeFails(a) PROVE Rest'
  <2>1. FirstAlone'
    BY <1>3 DEF HandshakeFails, Forget
  <2>2. InertUnlessRegistered'
    BY <1>3, RejectedEffect DEF HandshakeFails, Forget
  <2>3. /\ (registered => ~intentionalClose)'
        /\ (intentionalClose => state # "connecting")'
        /\ NoTimerAfterClose'
    BY <1>3, RejectedEffect DEF HandshakeFails
  <2> QED
    BY <2>1, <2>2, <2>3
<1>4. ASSUME NEW a \in Attempts, HandshakeAbandoned(a) PROVE Rest'
  BY <1>4 DEF HandshakeAbandoned, Forget, retryVars
<1>5. ASSUME NEW a \in Attempts, HandshakeReady(a) PROVE Rest'
  BY <1>5 DEF HandshakeReady
<1>6. ASSUME NEW a \in Attempts, StaleClientClosed(a) PROVE Rest'
  BY <1>6 DEF StaleClientClosed, Forget, retryVars
<1>7. ASSUME NEW a \in Attempts, ClientClosed(a) PROVE Rest'
  BY <1>7 DEF ClientClosed, Forget, ScheduleReconnect
<1>8. ASSUME NEW a \in Attempts, RetryTimer(a) PROVE Rest'
  BY <1>8 DEF RetryTimer, Establish
<1>9. ASSUME NEW a \in Attempts, Open(a) PROVE Rest'
  BY <1>9 DEF Open, Establish, retryVars
<1>10. ASSUME NEW a \in Attempts, Reconnect(a) PROVE Rest'
  BY <1>10 DEF Reconnect, Establish, SessionKnown
<1>11. ASSUME Close PROVE Rest'
  BY <1>11 DEF Close, Disconnect, SessionKnown
<1>12. ASSUME NEW t \in Terms, TermStep(t) PROVE Rest'
  BY <1>12 DEF TermStep, OpenShell, ShellOpened, ShellOpenFails, ShellExit, CloseTerm,
               retryVars, attemptVars
<1>13. CASE UNCHANGED vars
  BY <1>13 DEF vars, retryVars, attemptVars
<1> QED
  BY <1>1, <1>2, <1>3, <1>4, <1>5, <1>6, <1>7, <1>8, <1>9, <1>10, <1>11, <1>12, <1>13
     DEF Next, SystemNext, AttemptStep

LEMMA IInvAlways == Spec => []IInv
BY InitIInv, IInvStep, PTL DEF Spec

(* Whatever the windows ask and whenever, every variable keeps its type; in    *)
(* particular the backoff counter never passes MAX_RECONNECT_ATTEMPTS.         *)
THEOREM TypeCorrect == Spec => []TypeOK
<1>1. IInv => TypeOK
  BY DEF IInv
<1> QED
  BY <1>1, IInvAlways, PTL

(* No backoff timer survives the user's close.                                 *)
THEOREM NoTimerAfterCloseHolds == Spec => []NoTimerAfterClose
<1>1. IInv => NoTimerAfterClose
  BY DEF IInv
<1> QED
  BY <1>1, IInvAlways, PTL

(* Only establish() takes an attempt out of idle, and each of its three callers *)
(* runs for a session in the registry.                                          *)
LEMMA AttemptStartStep ==
    ASSUME IInv, [Next]_vars,
           NEW b \in Attempts, phase[b] = "idle", phase'[b] # "idle"
    PROVE  registered'
<1> USE DEF IInv, TypeOK
<1>1. ASSUME NEW a \in Attempts, RetryTimer(a) PROVE registered'
  BY <1>1 DEF RetryTimer, InertUnlessRegistered
<1>2. ASSUME NEW a \in Attempts, Open(a) PROVE registered'
  BY <1>2 DEF Open
<1>3. ASSUME NEW a \in Attempts, Reconnect(a) PROVE registered'
  BY <1>3 DEF Reconnect, SessionKnown
<1>4. ASSUME NEW a \in Attempts, phase' = [phase EXCEPT ![a] = "idle"] PROVE FALSE
  BY <1>4
<1>5. ASSUME NEW a \in Attempts, phase[a] # "idle",
             \E p \in Phases : phase' = [phase EXCEPT ![a] = p] PROVE FALSE
  BY <1>5
<1>6. ASSUME phase' = phase PROVE FALSE
  BY <1>6
<1>7. ASSUME NEW a \in Attempts, AttemptStep(a), ~RetryTimer(a), ~Open(a) PROVE FALSE
  BY <1>4, <1>5, <1>7
     DEF AttemptStep, ConfigFails, ConfigReady, HandshakeFails, HandshakeAbandoned,
         HandshakeReady, StaleClientClosed, ClientClosed, Forget, Phases
<1>8. ASSUME NEW t \in Terms, TermStep(t) PROVE FALSE
  BY <1>6, <1>8 DEF TermStep, OpenShell, ShellOpened, ShellOpenFails, ShellExit, CloseTerm,
                    attemptVars
<1>9. ASSUME Close PROVE FALSE
  BY <1>6, <1>9 DEF Close, Disconnect
<1>10. ASSUME UNCHANGED vars PROVE FALSE
  BY <1>6, <1>10 DEF vars, attemptVars
<1> QED
  BY <1>1, <1>2, <1>3, <1>7, <1>8, <1>9, <1>10 DEF Next, SystemNext

(* Nothing dials the server for a session the manager has let go: after the     *)
(* user's close, attempts already in flight may end, but none begins.           *)
THEOREM AttemptsOnlyWhileRegisteredHolds == Spec => AttemptsOnlyWhileRegistered
<1>1. ASSUME IInv, [Next]_vars
      PROVE  [\A a \in Attempts : phase[a] = "idle" /\ phase'[a] # "idle" => registered']_vars
  BY <1>1, AttemptStartStep
<1> QED
  BY <1>1, IInvAlways, PTL DEF Spec, AttemptsOnlyWhileRegistered

(* TermsTracked, over the sessions no user has closed: inductive as it stands. *)
TermsTrackedUntilClose == ~intentionalClose => terms \subseteq shells

LEMMA TermsTrackedStep ==
    ASSUME IInv, TermsTrackedUntilClose, [Next]_vars
    PROVE  TermsTrackedUntilClose'
<1> USE DEF IInv, TypeOK, TermsTrackedUntilClose, termVars, retryVars
<1>1. ASSUME terms' = terms \ shells, shells' = {}, ~intentionalClose
      PROVE  TermsTrackedUntilClose'
  BY <1>1
<1>2. ASSUME UNCHANGED <<shells, terms, intentionalClose>> PROVE TermsTrackedUntilClose'
  BY <1>2
<1>3. ASSUME NEW a \in Attempts, AttemptStep(a), ~ClientClosed(a)
      PROVE  TermsTrackedUntilClose'
  BY <1>2, <1>3
     DEF AttemptStep, ConfigFails, ConfigReady, HandshakeFails, HandshakeAbandoned,
         HandshakeReady, StaleClientClosed, RetryTimer, Open
<1>4. ASSUME NEW a \in Attempts, ClientClosed(a) PROVE TermsTrackedUntilClose'
  BY <1>1, <1>4 DEF ClientClosed, TeardownAndTell
<1>5. ASSUME NEW a \in Attempts, Reconnect(a) PROVE TermsTrackedUntilClose'
  BY <1>1, <1>5 DEF Reconnect, SessionKnown, TeardownAndTell
<1>6. ASSUME Close PROVE TermsTrackedUntilClose'
  BY <1>6 DEF Close, Disconnect
<1>7. ASSUME NEW t \in Terms, TermStep(t) PROVE TermsTrackedUntilClose'
  BY <1>7 DEF TermStep, OpenShell, ShellOpened, ShellOpenFails, ShellExit, CloseTerm
<1>8. CASE UNCHANGED vars
  BY <1>2, <1>8 DEF vars
<1> QED
  BY <1>3, <1>4, <1>5, <1>6, <1>7, <1>8 DEF Next, SystemNext

(* A terminal leaves the connection's table only together with the manager's:  *)
(* while the session is open no window types into a terminal nobody tracks.    *)
THEOREM TermsTrackedHolds == Spec => []TermsTracked
<1>1. Init => TermsTrackedUntilClose
  BY DEF Init, TermsTrackedUntilClose
<1>2. IInv /\ TermsTrackedUntilClose => TermsTracked
  BY DEF IInv, TermsTrackedUntilClose, TermsTracked
<1> QED
  BY <1>1, <1>2, IInvAlways, TermsTrackedStep, PTL DEF Spec

------------------------------------------------------------------------------
(* Orderly use                                                                  *)

LEMMA OrderlyIsNext == [OrderlyNext]_vars => [Next]_vars
BY DEF OrderlyNext, Next

(* Every orderly behaviour is a behaviour of Spec.                              *)
THEOREM OrderlyRefinesSpec == OrderlySpec => Spec
BY OrderlyIsNext, PTL DEF OrderlySpec, Spec

(* The state the windows see says what this.client holds.  The three groups:   *)
(* an attempt in flight owns the session, a held client is the current one,    *)
(* and the states in which nothing is held.                                    *)
FlightOwnsSession ==
    \A a \in Attempts :
        /\ phase[a] = "config" =>
              state = "connecting" /\ client = NoClient /\ ~intentionalClose /\ a \notin ended
        /\ phase[a] = "handshake" =>
              IF a \in ended THEN intentionalClose
              ELSE client = a /\ state = "authenticating"

HeldClientIsCurrent ==
    client # NoClient =>
        /\ client \notin ended
        /\ phase[client] \in {"handshake", "up"}
        /\ state # "reconnecting"
        /\ phase[client] = "up" => state = "ready"

(* Only an existing client is marked as ended.                                 *)
EndedExists == \A a \in ended : phase[a] # "idle"

OInv ==
    /\ IInv
    /\ OneAttempt
    /\ FlightOwnsSession
    /\ HeldClientIsCurrent
    /\ EndedExists
    /\ ReadyHasClient
    /\ NoOrphanClient
    /\ ClosedStaysClosed
    /\ reconnectTimer => state = "reconnecting"

LEMMA InitOInv == Init => OInv
<1> SUFFICES ASSUME Init PROVE OInv
  OBVIOUS
<1>1. OneAttempt /\ FlightOwnsSession /\ HeldClientIsCurrent /\ EndedExists /\ ReadyHasClient
      /\ NoOrphanClient /\ ClosedStaysClosed
  BY DEF Init, OneAttempt, FlightOwnsSession, HeldClientIsCurrent, EndedExists, ReadyHasClient,
         NoOrphanClient, ClosedStaysClosed, InFlight
<1> QED
  BY <1>1, InitIInv DEF OInv, Init

LEMMA OInvStep ==
    ASSUME OInv, [OrderlyNext]_vars
    PROVE  OInv'
<1>0. IInv' /\ TypeOK
  BY OrderlyIsNext, IInvStep DEF OInv, IInv
<1> DEFINE Rest == /\ OneAttempt
                   /\ FlightOwnsSession
                   /\ HeldClientIsCurrent
                   /\ EndedExists
                   /\ ReadyHasClient
                   /\ NoOrphanClient
                   /\ ClosedStaysClosed
                   /\ reconnectTimer => state = "reconnecting"
<1> SUFFICES Rest'
  BY <1>0 DEF OInv
<1> USE <1>0, ConstantsAssumption
    DEF OInv, TypeOK, Phases, Kinds, ClientOrNone, ConstantsAssumption, InFlight, OneAttempt,
        FlightOwnsSession, HeldClientIsCurrent, EndedExists, ReadyHasClient, NoOrphanClient,
        ClosedStaysClosed
<1>1. ASSUME NEW a \in Attempts, ConfigFails(a) PROVE Rest'
  <2>1. ~reconnectTimer /\ \A b \in Attempts : InFlight(b) => b = a
    BY <1>1 DEF ConfigFails
  <2>2. \A b \in Attempts : ~InFlight(b)'
    BY <1>1, <2>1 DEF ConfigFails, Forget
  <2>3. client' = NoClient
    BY <1>1 DEF ConfigFails
  <2>4. state' # "ready" /\ (reconnectTimer' => state' = "reconnecting")
    BY <1>1, <2>1, RejectedEffect DEF ConfigFails
  <2>5. NoOrphanClient'
    BY <1>1, <2>3 DEF ConfigFails, Forget
  <2>6. ClosedStaysClosed'
    BY <1>1, <2>3, RejectedEffect DEF ConfigFails
  <2>7. EndedExists'
    BY <1>1 DEF ConfigFails, Forget
  <2> QED
    BY <2>2, <2>3, <2>4, <2>5, <2>6, <2>7
<1>2. ASSUME NEW a \in Attempts, ConfigReady(a) PROVE Rest'
  <2>1. ~reconnectTimer /\ \A b \in Attempts : InFlight(b) => b = a
    BY <1>2 DEF ConfigReady
  <2>2. a \notin ended /\ ~intentionalClose /\ client = NoClient
    BY <1>2 DEF ConfigReady
  <2>3. OneAttempt' /\ FlightOwnsSession'
    BY <1>2, <2>1, <2>2 DEF ConfigReady, retryVars
  <2>4. HeldClientIsCurrent' /\ ReadyHasClient' /\ NoOrphanClient' /\ ClosedStaysClosed'
    BY <1>2, <2>1, <2>2 DEF ConfigReady, retryVars
  <2>5. EndedExists'
    BY <1>2 DEF ConfigReady
  <2> QED
    BY <1>2, <2>1, <2>3, <2>4, <2>5 DEF ConfigReady, retryVars
<1>3. ASSUME NEW a \in Attempts, HandshakeFails(a) PROVE Rest'
  <2>1. ~reconnectTimer /\ \A b \in Attempts : InFlight(b) => b = a
    BY <1>3 DEF HandshakeFails
  <2>2. \A b \in Attempts : ~InFlight(b)'
    BY <1>3, <2>1 DEF HandshakeFails, Forget
  <2>3. client' = NoClient
    BY <1>3 DEF HandshakeFails
  <2>4. state' # "ready" /\ (reconnectTimer' => state' = "reconnecting")
    BY <1>3, <2>1, RejectedEffect DEF HandshakeFails
  <2>5. NoOrphanClient'
    BY <1>3, <2>3 DEF HandshakeFails, Forget
  <2>6. ClosedStaysClosed'
    BY <1>3, <2>3, RejectedEffect DEF HandshakeFails
  <2>7. EndedExists'
    BY <1>3 DEF HandshakeFails, Forget
  <2> QED
    BY <2>2, <2>3, <2>4, <2>5, <2>6, <2>7
<1>4. ASSUME NEW a \in Attempts, HandshakeAbandoned(a) PROVE Rest'
  BY <1>4 DEF HandshakeAbandoned, Forget, retryVars
<1>5. ASSUME NEW a \in Attempts, HandshakeReady(a) PROVE Rest'
  BY <1>5 DEF HandshakeReady
<1>6. ASSUME NEW a \in Attempts, StaleClientClosed(a) PROVE Rest'
  BY <1>6 DEF StaleClientClosed, Forget, retryVars
<1>7. ASSUME NEW a \in Attempts, ClientClosed(a) PROVE Rest'
  BY <1>7 DEF ClientClosed, Forget, ScheduleReconnect
<1>8. ASSUME NEW a \in Attempts, RetryTimer(a) PROVE Rest'
  <2>1. ~intentionalClose /\ client = NoClient /\ \A b \in Attempts : ~InFlight(b)
    BY <1>8 DEF RetryTimer, IInv, NoTimerAfterClose
  <2>2. a \notin ended /\ Establish(a, "retry") /\ ~reconnectTimer' /\ ~intentionalClose'
        /\ ended' = ended /\ client' = NoClient
    BY <1>8, <2>1 DEF RetryTimer, Establish, Free
  <2>3. OneAttempt' /\ FlightOwnsSession' /\ EndedExists'
    BY <2>1, <2>2 DEF Establish
  <2>4. HeldClientIsCurrent' /\ ReadyHasClient' /\ NoOrphanClient' /\ ClosedStaysClosed'
    BY <2>1, <2>2 DEF Establish
  <2> QED
    BY <2>2, <2>3, <2>4
<1>9. ASSUME NEW a \in Attempts, Open(a) PROVE Rest'
  BY <1>9 DEF Open, Establish, retryVars, IInv, InertUnlessRegistered
<1>10. ASSUME NEW a \in Attempts, Reconnect(a), \A b \in Attempts : ~InFlight(b) PROVE Rest'
  <2>1. a \notin ended /\ a # client /\ Establish(a, "manual") /\ ~reconnectTimer'
        /\ ~intentionalClose' /\ client' = NoClient
    BY <1>10 DEF Reconnect, Establish, Free
  <2>2. ended' = IF client = NoClient THEN ended ELSE ended \cup {client}
    BY <1>10 DEF Reconnect, EndClient
  <2>3. OneAttempt' /\ FlightOwnsSession'
    BY <1>10, <2>1, <2>2 DEF Establish
  <2>4. EndedExists' /\ NoOrphanClient'
    BY <1>10, <2>1, <2>2 DEF Establish
  <2>5. HeldClientIsCurrent' /\ ReadyHasClient' /\ ClosedStaysClosed'
    BY <2>1 DEF Establish
  <2> QED
    BY <2>1, <2>3, <2>4, <2>5
<1>11. ASSUME Close, \A b \in Attempts : phase[b] # "config" PROVE Rest'
  BY <1>11 DEF Close, Disconnect, EndClient
<1>12. ASSUME NEW t \in Terms, TermStep(t) PROVE Rest'
  BY <1>12 DEF TermStep, OpenShell, ShellOpened, ShellOpenFails, ShellExit, CloseTerm,
               retryVars, attemptVars
<1>13. CASE UNCHANGED vars
  BY <1>13 DEF vars, retryVars, attemptVars
<1> QED
  BY <1>1, <1>2, <1>3, <1>4, <1>5, <1>6, <1>7, <1>8, <1>9, <1>10, <1>11, <1>12, <1>13
     DEF OrderlyNext, SystemNext, AttemptStep

LEMMA OInvAlways == OrderlySpec => []OInv
BY InitOInv, OInvStep, PTL DEF OrderlySpec

(* A session shown as ready holds a connected client.                           *)
THEOREM ReadyHasClientHolds == OrderlySpec => []ReadyHasClient
<1>1. OInv => ReadyHasClient
  BY DEF OInv
<1> QED
  BY <1>1, OInvAlways, PTL

(* No connection to the server is left behind: every connected client is the    *)
(* current one or has been told to end.                                         *)
THEOREM NoOrphanClientHolds == OrderlySpec => []NoOrphanClient
<1>1. OInv => NoOrphanClient
  BY DEF OInv
<1> QED
  BY <1>1, OInvAlways, PTL

(* One attempt at a time, and none beside a pending backoff timer.              *)
THEOREM OneAttemptHolds == OrderlySpec => []OneAttempt
<1>1. OInv => OneAttempt
  BY DEF OInv
<1> QED
  BY <1>1, OInvAlways, PTL

(* A session the user closed never shows another state and never holds a        *)
(* client again.                                                                *)
THEOREM ClosedStaysClosedHolds == OrderlySpec => []ClosedStaysClosed
<1>1. OInv => ClosedStaysClosed
  BY DEF OInv
<1> QED
  BY <1>1, OInvAlways, PTL

-------------------------------------------------------------------------------
(* The session its services see                                                *)

(* A reconnection the user asked for counts from zero.                         *)
ManualFromZero ==
    \A a \in Attempts : InFlight(a) /\ kind[a] = "manual" => reconnectAttempt = 0

(* The states of an attempt are shown only while one is in flight.             *)
ShownAttemptExists ==
    /\ registered /\ state = "connecting" => \E a \in Attempts : phase[a] = "config"
    /\ state = "authenticating" => \E a \in Attempts : phase[a] = "handshake"

RInv == ManualFromZero /\ ShownAttemptExists

LEMMA InitRInv == Init => RInv
BY DEF Init, RInv, ManualFromZero, ShownAttemptExists, InFlight

(* An attempt in flight that was not ended belongs to an open session.         *)
LEMMA FlightIsRegistered ==
    ASSUME OInv, NEW a \in Attempts, InFlight(a), a \notin ended
    PROVE  /\ registered /\ ~intentionalClose /\ ~reconnectTimer
           /\ state = IF phase[a] = "config" THEN "connecting" ELSE "authenticating"
           /\ \A b \in Attempts : InFlight(b) => b = a
<1>1. /\ ~reconnectTimer /\ ~intentionalClose
      /\ state = IF phase[a] = "config" THEN "connecting" ELSE "authenticating"
  BY ConstantsAssumption
     DEF OInv, InFlight, OneAttempt, FlightOwnsSession, ClosedStaysClosed
<1>2. registered
  BY <1>1 DEF OInv, IInv, InertUnlessRegistered, InFlight
<1>3. \A b \in Attempts : InFlight(b) => b = a
  BY DEF OInv, OneAttempt
<1> QED  BY <1>1, <1>2, <1>3

(* After the user has closed the session its attempts show nothing.            *)
LEMMA EndedFlightIsClosed ==
    ASSUME OInv, NEW a \in Attempts, InFlight(a), a \in ended
    PROVE  intentionalClose /\ state = "closed" /\ ~registered /\ phase[a] = "handshake"
BY DEF OInv, IInv, InFlight, FlightOwnsSession, ClosedStaysClosed

(* A rejected attempt is lost, or the last of its kind.                        *)
LEMMA RejectedIsAbstract ==
    ASSUME OInv, NEW a \in Attempts, InFlight(a), AttemptRejected(a)
    PROVE  /\ \/ Abstract!Lose \/ Abstract!GiveUp
              \/ UNCHANGED <<registered, state, reconnectAttempt>>
           /\ state' \notin {"connecting", "authenticating"}
<1>1. CASE a \in ended
  <2>1. intentionalClose /\ state = "closed" /\ registered = FALSE
    BY <1>1, EndedFlightIsClosed DEF OInv, IInv, TypeOK
  <2>2. /\ registered' = FALSE \/ registered' = registered
        /\ state' = "closed" \/ state' = state
        /\ reconnectAttempt' = reconnectAttempt
    BY <2>1, Zenon DEF AttemptRejected, RetryFailed
  <2> QED  BY <2>1, <2>2
<1>2. CASE a \notin ended
  <2>1. /\ registered /\ ~intentionalClose /\ ~reconnectTimer
        /\ state \in {"connecting", "authenticating"}
    BY <1>2, FlightIsRegistered
  <2>2. CASE kind[a] \in {"first", "manual"}
    BY <2>1, <2>2 DEF AttemptRejected, Abstract!GiveUp
  <2>3. CASE kind[a] = "retry"
    BY <2>1, <2>3 DEF AttemptRejected, RetryFailed, ScheduleReconnect, Abstract!GiveUp,
                      Abstract!Lose
  <2> QED  BY <2>2, <2>3 DEF AttemptRejected
<1> QED  BY <1>1, <1>2

(* What a step is to the services of the session.                              *)
Implemented == [Abstract!SessionNext]_<<registered, state, reconnectAttempt>>

LEMMA FailedAttemptImplements ==
    ASSUME OInv, RInv, NEW a \in Attempts, ConfigFails(a) \/ HandshakeFails(a)
    PROVE  RInv' /\ Implemented
<1>1. InFlight(a) /\ AttemptRejected(a) /\ Forget(a)
  BY DEF ConfigFails, HandshakeFails, InFlight
<1>2. \A b \in Attempts : ~InFlight(b)'
  BY <1>1 DEF Forget, OInv, IInv, TypeOK, OneAttempt, InFlight
<1>3. RInv'
  BY <1>1, <1>2, RejectedIsAbstract DEF RInv, ManualFromZero, ShownAttemptExists
<1> QED  BY <1>1, <1>3, RejectedIsAbstract DEF Implemented, Abstract!SessionNext

LEMMA AttemptImplements ==
    ASSUME OInv, RInv, NEW a \in Attempts, AttemptStep(a)
    PROVE  RInv' /\ Implemented
<1> USE DEF RInv
<1>1. CASE ConfigFails(a) \/ HandshakeFails(a)
  BY <1>1, FailedAttemptImplements
<1>2. CASE ConfigReady(a)
  <2>1. InFlight(a) /\ phase[a] = "config" /\ a \notin ended
    BY <1>2 DEF ConfigReady, InFlight, OInv, FlightOwnsSession
  <2>2. Abstract!Authenticate
    BY <1>2, <2>1, FlightIsRegistered DEF ConfigReady, retryVars, Abstract!Authenticate
  <2>3. ManualFromZero' /\ ShownAttemptExists'
    BY <1>2, <2>1 DEF ConfigReady, retryVars, ManualFromZero, ShownAttemptExists, InFlight,
                      OInv, IInv, TypeOK
  <2> QED  BY <2>2, <2>3 DEF Implemented, Abstract!SessionNext
<1>3. CASE HandshakeAbandoned(a)
  <2>1. UNCHANGED <<registered, state, reconnectAttempt>> /\ state = "closed"
    BY <1>3, EndedFlightIsClosed DEF HandshakeAbandoned, InFlight, retryVars
  <2>2. ManualFromZero' /\ ShownAttemptExists'
    BY <1>3, <2>1 DEF HandshakeAbandoned, Forget, ManualFromZero, ShownAttemptExists,
                      InFlight, OInv, IInv, TypeOK
  <2> QED  BY <2>1, <2>2 DEF Implemented
<1>4. CASE HandshakeReady(a)
  <2>1. InFlight(a) /\ phase[a] = "handshake" /\ a \notin ended
    BY <1>4 DEF HandshakeReady, InFlight
  <2>2. reconnectAttempt' = 0 /\ state' = "ready" /\ registered' = registered
    BY <1>4, <2>1 DEF HandshakeReady, ManualFromZero
  <2>3. Abstract!Ready
    BY <2>1, <2>2, FlightIsRegistered DEF Abstract!Ready
  <2>4. ManualFromZero' /\ ShownAttemptExists'
    BY <2>2 DEF ManualFromZero, ShownAttemptExists
  <2> QED  BY <2>3, <2>4 DEF Implemented, Abstract!SessionNext
<1>5. CASE StaleClientClosed(a)
  <2>1. UNCHANGED <<registered, state, reconnectAttempt>>
    BY <1>5 DEF StaleClientClosed, retryVars
  <2>2. ManualFromZero' /\ ShownAttemptExists'
    BY <1>5, <2>1 DEF StaleClientClosed, Forget, ManualFromZero, ShownAttemptExists,
                      InFlight, OInv, IInv, TypeOK
  <2> QED  BY <2>1, <2>2 DEF Implemented
<1>6. CASE ClientClosed(a)
  <2>1. /\ client = a /\ phase[a] = "up" /\ state = "ready" /\ ~intentionalClose
        /\ ~reconnectTimer /\ registered
    BY <1>6, ConstantsAssumption
       DEF ClientClosed, OInv, IInv, HeldClientIsCurrent, ClosedStaysClosed,
           InertUnlessRegistered
  <2>2. Abstract!Lose \/ Abstract!GiveUp
    BY <1>6, <2>1 DEF ClientClosed, ScheduleReconnect, Abstract!Lose, Abstract!GiveUp
  <2>3. state' \in {"reconnecting", "closed"}
    BY <1>6, <2>1 DEF ClientClosed, ScheduleReconnect
  <2>4. \A b \in Attempts : ~InFlight(b)'
    BY <1>6, <2>1, ConstantsAssumption
       DEF ClientClosed, Forget, InFlight, OInv, IInv, TypeOK, FlightOwnsSession
  <2>5. ManualFromZero' /\ ShownAttemptExists'
    BY <2>3, <2>4 DEF ManualFromZero, ShownAttemptExists
  <2> QED  BY <2>2, <2>5 DEF Implemented, Abstract!SessionNext
<1>7. CASE RetryTimer(a)
  <2>1. reconnectTimer /\ ~intentionalClose /\ registered /\ state = "reconnecting"
    BY <1>7 DEF RetryTimer, OInv, IInv, NoTimerAfterClose, InertUnlessRegistered
  <2>2. Establish(a, "retry") /\ UNCHANGED <<registered, reconnectAttempt>>
    BY <1>7, <2>1 DEF RetryTimer
  <2>3. Abstract!Retry
    BY <2>1, <2>2 DEF Establish, Abstract!Retry
  <2>4. ManualFromZero' /\ ShownAttemptExists'
    BY <2>1, <2>2 DEF Establish, ManualFromZero, ShownAttemptExists, InFlight, OInv, IInv,
                      TypeOK, OneAttempt
  <2> QED  BY <2>3, <2>4 DEF Implemented, Abstract!SessionNext
<1>8. CASE Open(a)
  <2>1. Abstract!Begin
    BY <1>8 DEF Open, Establish, retryVars, Abstract!Begin
  <2>2. ManualFromZero' /\ ShownAttemptExists'
    BY <1>8 DEF Open, Establish, retryVars, ManualFromZero, ShownAttemptExists, InFlight,
                OInv, IInv, TypeOK
  <2> QED  BY <2>1, <2>2 DEF Implemented, Abstract!SessionNext
<1> QED  BY <1>1, <1>2, <1>3, <1>4, <1>5, <1>6, <1>7, <1>8 DEF AttemptStep

LEMMA ImplementsStep ==
    ASSUME OInv, RInv, [OrderlyNext]_vars
    PROVE  RInv' /\ Implemented
<1> USE DEF RInv
<1>1. ASSUME NEW a \in Attempts, AttemptStep(a) PROVE RInv' /\ Implemented
  BY <1>1, AttemptImplements
<1>2. ASSUME NEW t \in Terms, TermStep(t) PROVE RInv' /\ Implemented
  BY <1>2 DEF TermStep, OpenShell, ShellOpened, ShellOpenFails, ShellExit, CloseTerm,
              retryVars, attemptVars, Implemented, ManualFromZero, ShownAttemptExists,
              InFlight
<1>3. ASSUME Close PROVE RInv' /\ Implemented
  <2>1. Abstract!End
    BY <1>3 DEF Close, Disconnect, SessionKnown, Abstract!End
  <2>2. ManualFromZero' /\ ShownAttemptExists'
    BY <1>3 DEF Close, Disconnect, ManualFromZero, ShownAttemptExists, InFlight
  <2> QED  BY <2>1, <2>2 DEF Implemented, Abstract!SessionNext
<1>4. ASSUME NEW a \in Attempts, Reconnect(a), \A b \in Attempts : ~InFlight(b)
      PROVE  RInv' /\ Implemented
  <2>1. registered /\ Establish(a, "manual") /\ reconnectAttempt' = 0
        /\ UNCHANGED registered
    BY <1>4 DEF Reconnect, SessionKnown
  <2>2. state \in {"ready", "reconnecting", "closed"}
    BY <1>4, <2>1 DEF ShownAttemptExists, InFlight, OInv, IInv, TypeOK, States
  <2>3. Abstract!Again
    BY <2>1, <2>2 DEF Establish, Abstract!Again
  <2>4. ManualFromZero' /\ ShownAttemptExists'
    BY <2>1 DEF Establish, ManualFromZero, ShownAttemptExists, OInv, IInv, TypeOK
  <2> QED  BY <2>3, <2>4 DEF Implemented, Abstract!SessionNext
<1>5. CASE UNCHANGED vars
  BY <1>5 DEF vars, retryVars, attemptVars, Implemented, ManualFromZero,
              ShownAttemptExists, InFlight
<1> QED  BY <1>1, <1>2, <1>3, <1>4, <1>5 DEF OrderlyNext, SystemNext

(* Used in order, the connection takes no step its services do not expect: the *)
(* states it broadcasts, the registry and the count of its attempts change as  *)
(* the abstract session allows, for any limit and any number of attempts.      *)
THEOREM OrderlyImplementsSession == OrderlySpec => Abstract!SessionSafe
<1>1. Init => Abstract!SessionInit
  BY DEF Init, Abstract!SessionInit
<1>2. OInv /\ RInv /\ [OrderlyNext]_vars => (RInv' /\ Implemented)
  BY ImplementsStep
<1> QED
  BY <1>1, <1>2, InitRInv, OInvAlways, PTL
     DEF OrderlySpec, Implemented, Abstract!SessionSafe, Abstract!sessionVars
===============================================================================
