---------------------------- MODULE SshConnection ----------------------------
(* One SSH session: the object SshConnection together with its entry in the   *)
(* SshConnectionManager (ssh/SshConnection.ts, ssh/SshConnectionManager.ts).  *)
(*                                                                            *)
(* establish() is an asynchronous activation, and several can be alive at the *)
(* same time: the first connection, a backoff retry, a manual reconnect.      *)
(* Each is an element of Attempts and owns at most one ssh2 Client, so an     *)
(* attempt also names its client.  The handlers run to completion on the Node *)
(* event loop: one action is the code between two awaits or two events.       *)
(* An attempt whose client is gone, and that no channel refers to, is free    *)
(* again: the model bounds only how many coexist.                             *)
(*                                                                            *)
(* The browse SFTP channel, the -R handlers and the transfer connection that  *)
(* the same object holds have modules of their own (see README).              *)
EXTENDS Naturals

CONSTANTS
    Attempts,                \* activations of establish(), and their clients
    Terms,                   \* terminal ids (randomUUID in openShell)
    NoClient,                \* the value null of this.client
    MAX_RECONNECT_ATTEMPTS,
    AutoReconnect            \* profile.options.autoReconnect

ASSUME ConstantsAssumption ==
    /\ NoClient \notin Attempts
    /\ MAX_RECONNECT_ATTEMPTS \in Nat
    /\ AutoReconnect \in BOOLEAN

VARIABLES
    registered,        \* the session is in SshConnectionManager.sessions
    state,             \* SessionState, as broadcast to the windows
    client,            \* this.client
    intentionalClose,
    reconnectAttempt,
    reconnectTimer,    \* a backoff timer is pending
    phase,             \* where each attempt is: see Phases
    kind,              \* which caller awaits the attempt: see Kinds
    ended,             \* the clients on which end() was called
    shells,            \* keys of this.shells
    terms,             \* keys of SshConnectionManager.terms: what windows type into
    channel,           \* the client that carries each terminal's ssh2 channel
    opening            \* terminals whose channel-open request is unanswered

attemptVars == <<phase, kind, ended>>
retryVars   == <<intentionalClose, reconnectAttempt, reconnectTimer>>
termVars    == <<shells, terms, channel, opening>>
vars == <<registered, state, client, retryVars, attemptVars, termVars>>

States == {"connecting", "authenticating", "ready", "reconnecting", "closed"}
\* config: awaiting buildConnectConfig (key file, password prompt, proxy dial);
\* handshake: between client.connect and its 'ready' or 'error'; up: ready seen.
Phases == {"idle", "config", "handshake", "up"}
Kinds  == {"none", "first", "retry", "manual"}
ClientOrNone == Attempts \cup {NoClient}

TypeOK ==
    /\ registered \in BOOLEAN
    /\ state \in States
    /\ client \in ClientOrNone
    /\ intentionalClose \in BOOLEAN
    /\ reconnectAttempt \in 0..MAX_RECONNECT_ATTEMPTS
    /\ reconnectTimer \in BOOLEAN
    /\ phase \in [Attempts -> Phases]
    /\ kind \in [Attempts -> Kinds]
    /\ ended \subseteq Attempts
    /\ shells \subseteq Terms
    /\ terms \subseteq Terms
    /\ channel \in [Terms -> ClientOrNone]
    /\ opening \subseteq Terms

\* The object just constructed, before open() registers it.
Init ==
    /\ registered = FALSE
    /\ state = "connecting"
    /\ client = NoClient
    /\ intentionalClose = FALSE
    /\ reconnectAttempt = 0
    /\ reconnectTimer = FALSE
    /\ phase = [a \in Attempts |-> "idle"]
    /\ kind = [a \in Attempts |-> "none"]
    /\ ended = {}
    /\ shells = {}
    /\ terms = {}
    /\ channel = [t \in Terms |-> NoClient]
    /\ opening = {}

------------------------------------------------------------------------------
(* establish()                                                                *)

Free(a) == phase[a] = "idle" /\ \A t \in Terms : channel[t] # a

InFlight(a) == phase[a] \in {"config", "handshake"}

\* The synchronous beginning of establish(isRetry).
Establish(a, k) ==
    /\ Free(a)
    /\ phase' = [phase EXCEPT ![a] = "config"]
    /\ kind' = [kind EXCEPT ![a] = k]
    /\ state' = "connecting"

\* The attempt, or the client it produced, no longer exists.
Forget(a) ==
    /\ phase' = [phase EXCEPT ![a] = "idle"]
    /\ kind' = [kind EXCEPT ![a] = "none"]
    /\ ended' = ended \ {a}

\* Variant: the state change is not published.
ScheduleReconnectSilently ==
    /\ ~reconnectTimer
    /\ reconnectTimer' = TRUE
    /\ reconnectAttempt' = reconnectAttempt + 1
    /\ UNCHANGED state

ScheduleReconnect ==
    \/ /\ reconnectTimer
       /\ UNCHANGED <<state, reconnectAttempt, reconnectTimer>>
    \/ /\ ~reconnectTimer
       /\ reconnectTimer' = TRUE
       /\ reconnectAttempt' = reconnectAttempt + 1
       /\ state' = "reconnecting"

\* Variant: the last failure is not reported.
RetryFailedWithoutGivingUp ==
    IF intentionalClose \/ reconnectAttempt >= MAX_RECONNECT_ATTEMPTS
    THEN UNCHANGED <<state, reconnectAttempt, reconnectTimer>>
    ELSE ScheduleReconnect

\* The .catch of the retry that scheduleReconnect launched.
RetryFailed ==
    \/ /\ intentionalClose
       /\ UNCHANGED <<state, reconnectAttempt, reconnectTimer>>
    \/ /\ ~intentionalClose
       /\ reconnectAttempt >= MAX_RECONNECT_ATTEMPTS
       /\ state' = "closed"
       /\ UNCHANGED <<reconnectAttempt, reconnectTimer>>
    \/ /\ ~intentionalClose
       /\ reconnectAttempt < MAX_RECONNECT_ATTEMPTS
       /\ ScheduleReconnect

\* What a rejected establish() leads to, by caller: open() drops the session,
\* reconnect() only reports, the retry goes back to the backoff.
AttemptRejected(a) ==
    \/ /\ kind[a] = "first"
       /\ state' = "closed"
       /\ registered' = FALSE
       /\ UNCHANGED <<reconnectAttempt, reconnectTimer>>
    \/ /\ kind[a] = "manual"
       /\ state' = "closed"
       /\ UNCHANGED <<registered, reconnectAttempt, reconnectTimer>>
    \/ /\ kind[a] = "retry"
       /\ RetryFailed
       /\ UNCHANGED registered

ConfigFails(a) ==
    /\ phase[a] = "config"
    /\ Forget(a)
    /\ AttemptRejected(a)
    /\ UNCHANGED <<client, intentionalClose, termVars>>

\* Nothing between the await and new Client() looks at intentionalClose.
ConfigReady(a) ==
    /\ phase[a] = "config"
    /\ phase' = [phase EXCEPT ![a] = "handshake"]
    /\ client' = a
    /\ state' = "authenticating"
    /\ UNCHANGED <<registered, retryVars, kind, ended, termVars>>

\* 'error' before 'ready': this.client = null, whichever client it holds.
HandshakeFails(a) ==
    /\ phase[a] = "handshake"
    /\ Forget(a)
    /\ client' = NoClient
    /\ AttemptRejected(a)
    /\ UNCHANGED <<intentionalClose, termVars>>

\* ssh2 (external): a client ended during its handshake may close without an
\* 'error', and the promise of establish() then never settles.
HandshakeAbandoned(a) ==
    /\ phase[a] = "handshake"
    /\ a \in ended
    /\ Forget(a)
    /\ UNCHANGED <<registered, state, client, retryVars, termVars>>

\* Variant: a retry that succeeds does not reset the counter.
HandshakeReadyKeepingCount(a) ==
    /\ phase[a] = "handshake"
    /\ a \notin ended
    /\ phase' = [phase EXCEPT ![a] = "up"]
    /\ state' = "ready"
    /\ UNCHANGED <<registered, client, retryVars, kind, ended, termVars>>

\* 'ready', and what connect() and the retry's .then do with it.
HandshakeReady(a) ==
    /\ phase[a] = "handshake"
    /\ a \notin ended
    /\ phase' = [phase EXCEPT ![a] = "up"]
    /\ state' = "ready"
    /\ reconnectAttempt' = IF kind[a] = "manual" THEN reconnectAttempt ELSE 0
    /\ UNCHANGED <<registered, client, intentionalClose, reconnectTimer,
                   kind, ended, termVars>>

------------------------------------------------------------------------------
(* Loss of a client, backoff timer, user commands                             *)

\* Variant: the lost terminals are not reported.
TeardownWithoutTelling ==
    /\ shells' = {}
    /\ UNCHANGED <<terms, channel, opening>>

\* teardownChannels, and the manager dropping each lost terminal: on the
\* shell-exit event its caller emits, or in close() before disconnect().
TeardownAndTell ==
    /\ shells' = {}
    /\ terms' = terms \ shells
    /\ UNCHANGED <<channel, opening>>

\* The same without the events.
TeardownSilently ==
    /\ shells' = {}
    /\ UNCHANGED <<terms, channel, opening>>

\* Variant: the identity of the client is not checked.
StaleClientClosedPollutes(a) ==
    /\ phase[a] = "up"
    /\ Forget(a)
    /\ client' = NoClient
    /\ ScheduleReconnect
    /\ UNCHANGED <<registered, intentionalClose, termVars>>

\* 'close' of a client that this.client does not hold.
StaleClientClosed(a) ==
    /\ phase[a] = "up"
    /\ client # a
    /\ Forget(a)
    /\ UNCHANGED <<registered, state, client, retryVars, termVars>>

\* 'close' of the current client.
ClientClosed(a) ==
    /\ phase[a] = "up"
    /\ client = a
    /\ Forget(a)
    /\ client' = NoClient
    /\ \/ /\ intentionalClose
          /\ TeardownSilently
          /\ state' = "closed"
          /\ UNCHANGED <<reconnectAttempt, reconnectTimer>>
       \/ /\ ~intentionalClose
          /\ TeardownAndTell
          /\ IF AutoReconnect /\ reconnectAttempt < MAX_RECONNECT_ATTEMPTS
             THEN ScheduleReconnect
             ELSE /\ state' = "closed"
                  /\ UNCHANGED <<reconnectAttempt, reconnectTimer>>
    /\ UNCHANGED <<registered, intentionalClose>>

\* The backoff timer expires.
RetryTimer(a) ==
    /\ reconnectTimer
    /\ reconnectTimer' = FALSE
    /\ \/ /\ intentionalClose
          /\ UNCHANGED <<state, phase, kind>>
       \/ /\ ~intentionalClose
          /\ Establish(a, "retry")
    /\ UNCHANGED <<registered, client, intentionalClose, reconnectAttempt,
                   ended, termVars>>

\* SshConnectionManager.open() up to its first await.
Open(a) ==
    /\ ~registered
    /\ state = "connecting"
    /\ \A b \in Attempts : phase[b] = "idle"
    /\ registered' = TRUE
    /\ Establish(a, "first")
    /\ UNCHANGED <<client, retryVars, ended, termVars>>

\* The windows learn the session id when open() resolves.
SessionKnown ==
    /\ registered
    /\ \A a \in Attempts : kind[a] = "first" => phase[a] = "up"

\* client.end() on the client that this.client holds.
EndClient == ended' = IF client = NoClient THEN ended ELSE ended \cup {client}

\* Variant: the pending backoff timer is left running.
ReconnectKeepingTimer(a) ==
    /\ SessionKnown
    /\ intentionalClose' = FALSE
    /\ reconnectAttempt' = 0
    /\ client' = NoClient
    /\ TeardownAndTell
    /\ EndClient
    /\ Establish(a, "manual")
    /\ UNCHANGED <<registered, reconnectTimer>>

Reconnect(a) ==
    /\ SessionKnown
    /\ reconnectTimer' = FALSE
    /\ intentionalClose' = FALSE
    /\ reconnectAttempt' = 0
    /\ client' = NoClient
    /\ TeardownAndTell
    /\ EndClient
    /\ Establish(a, "manual")
    /\ UNCHANGED registered

\* SshConnection.disconnect(); the transfer connection it closes is in
\* TransferConnection, the prompts it cancels only make attempts fail.
Disconnect ==
    /\ intentionalClose' = TRUE
    /\ reconnectTimer' = FALSE
    /\ EndClient
    /\ client' = NoClient
    /\ state' = "closed"
    /\ UNCHANGED <<reconnectAttempt, phase, kind>>

\* SshConnectionManager.close()
Close ==
    /\ SessionKnown
    /\ registered' = FALSE
    /\ TeardownAndTell
    /\ Disconnect

------------------------------------------------------------------------------
(* Terminals                                                                  *)

OpenShell(t) ==
    /\ registered
    /\ client # NoClient
    /\ state = "ready"
    /\ channel[t] = NoClient
    /\ channel' = [channel EXCEPT ![t] = client]
    /\ opening' = opening \cup {t}
    /\ UNCHANGED <<registered, state, client, retryVars, attemptVars, shells, terms>>

\* The continuation does not look at the session again before it registers.
ShellOpened(t) ==
    /\ t \in opening
    /\ phase[channel[t]] = "up"
    /\ opening' = opening \ {t}
    /\ shells' = shells \cup {t}
    /\ terms' = terms \cup {t}
    /\ UNCHANGED <<registered, state, client, retryVars, attemptVars, channel>>

ShellOpenFails(t) ==
    /\ t \in opening
    /\ opening' = opening \ {t}
    /\ channel' = [channel EXCEPT ![t] = NoClient]
    /\ UNCHANGED <<registered, state, client, retryVars, attemptVars, shells, terms>>

\* 'close' or 'error' of a shell's channel.
ShellExit(t) ==
    /\ channel[t] # NoClient
    /\ t \notin opening
    /\ channel' = [channel EXCEPT ![t] = NoClient]
    /\ shells' = shells \ {t}
    /\ terms' = IF t \in shells THEN terms \ {t} ELSE terms
    /\ UNCHANGED <<registered, state, client, retryVars, attemptVars, opening>>

\* SshConnectionManager.closeTerm(): the channel's 'close' comes later.
CloseTerm(t) ==
    /\ t \in terms
    /\ terms' = terms \ {t}
    /\ UNCHANGED <<registered, state, client, retryVars, attemptVars,
                   shells, channel, opening>>

------------------------------------------------------------------------------
(* Specifications                                                             *)

AttemptStep(a) ==
    \/ ConfigFails(a) \/ ConfigReady(a)
    \/ HandshakeFails(a) \/ HandshakeAbandoned(a) \/ HandshakeReady(a)
    \/ StaleClientClosed(a) \/ ClientClosed(a)
    \/ RetryTimer(a) \/ Open(a)

TermStep(t) ==
    \/ OpenShell(t) \/ ShellOpened(t) \/ ShellOpenFails(t)
    \/ ShellExit(t) \/ CloseTerm(t)

SystemNext ==
    \/ \E a \in Attempts : AttemptStep(a)
    \/ \E t \in Terms : TermStep(t)

\* Everything the windows can ask for, whenever they ask for it.
Next ==
    \/ SystemNext
    \/ Close
    \/ \E a \in Attempts : Reconnect(a)

\* The user waits: reconnects only while no attempt is in flight, and closes the
\* session except while an attempt builds its configuration.
OrderlyNext ==
    \/ SystemNext
    \/ Close /\ \A b \in Attempts : phase[b] # "config"
    \/ \E a \in Attempts : Reconnect(a) /\ \A b \in Attempts : ~InFlight(b)

\* Timers fire; buildConnectConfig settles (proxy dial and prompts have
\* timeouts); ssh2 settles a handshake (readyTimeout) and closes what was
\* ended; a channel does not outlive its client.
Fairness ==
    /\ \A a \in Attempts :
        /\ WF_vars(ConfigFails(a) \/ ConfigReady(a))
        /\ WF_vars(HandshakeFails(a) \/ HandshakeAbandoned(a) \/ HandshakeReady(a))
        /\ WF_vars(a \in ended /\ StaleClientClosed(a))
    /\ WF_vars(\E a \in Attempts : RetryTimer(a))
    /\ \A t \in Terms :
        /\ WF_vars(ShellOpened(t) \/ ShellOpenFails(t))
        /\ WF_vars(channel[t] \in Attempts /\ phase[channel[t]] = "idle" /\ ShellExit(t))

Spec == Init /\ [][Next]_vars
OrderlySpec == Init /\ [][OrderlyNext]_vars
FairOrderlySpec == OrderlySpec /\ Fairness

------------------------------------------------------------------------------
(* Properties of every behaviour                                              *)

\* Once the user has closed the session no backoff timer is pending:
\* disconnect() clears it, and every later path to scheduleReconnect() returns at
\* intentionalClose.
NoTimerAfterClose == intentionalClose => ~reconnectTimer

\* An attempt begins only for a session the manager still holds: whatever was in
\* flight when the user closed the tab, nothing dials the server again afterwards.
AttemptsOnlyWhileRegistered ==
    [][\A a \in Attempts : phase[a] = "idle" /\ phase'[a] # "idle" => registered']_vars

\* No terminal is forgotten: while the session is open, a terminal the manager
\* routes keystrokes to is one the connection tracks, so a loss of the connection
\* is going to be reported to its window.
TermsTracked == registered => terms \subseteq shells

------------------------------------------------------------------------------
(* Properties of orderly use; without the order, those of connections fail    *)

\* A session shown as ready has a working client: every command the windows
\* send while the state is ready finds this.client set and connected.
ReadyHasClient == state = "ready" => client # NoClient /\ phase[client] = "up"

\* A connected client the session no longer holds has been told to end: no TCP
\* connection to the server is left behind.
NoOrphanClient ==
    \A a \in Attempts : phase[a] = "up" /\ a \notin ended => a = client

\* At most one attempt is in flight, and none while a backoff timer is pending.
OneAttempt ==
    /\ \A a, b \in Attempts : InFlight(a) /\ InFlight(b) => a = b
    /\ reconnectTimer => \A a \in Attempts : ~InFlight(a)

\* A session the user closed stays closed: no client, and the state the windows
\* see never leaves closed again.
ClosedStaysClosed == intentionalClose => state = "closed" /\ client = NoClient

\* A session never hangs between two stable states: whatever attempt is under way
\* and however often it fails, the session becomes ready or closed.
SessionSettles ==
    (registered /\ state \notin {"ready", "closed"}) ~> (state \in {"ready", "closed"})

\* The session as its services see it: the attempts, clients and timers above
\* implement the six published states, their order and their progress.
Abstract == INSTANCE Session WITH
    MaxTries <- MAX_RECONNECT_ATTEMPTS, tries <- reconnectAttempt

ImplementsSession == Abstract!SessionSpec
==============================================================================
