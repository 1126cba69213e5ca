------------------------------ MODULE Forwarding ------------------------------
(* The port forwards of one SSH session (forward/ForwardManager.ts) and the   *)
(* manager that takes them down and restores them (ssh/SshConnectionManager). *)
(*                                                                            *)
(* start() is asynchronous: a -L or -D rule awaits its local listener, a -R   *)
(* rule the server's answer.  Each activation of start() is a slot of its     *)
(* rule, and the entry the manager's map holds is one of them.  The sockets   *)
(* that a listener accepts, the SOCKS5 dialogue and the traffic counters are  *)
(* left out: they belong to an entry and die with it.                         *)
EXTENDS Session

CONSTANTS
    Rules, RemoteRules,  \* the profile's forward rules; those of type remote (-R)
    AutoRules,           \* those with autoStart
    Slots, NoSlot        \* activations of start(); no entry in the map

ASSUME ForwardingAssumption ==
    /\ RemoteRules \subseteq Rules
    /\ AutoRules \subseteq Rules
    /\ NoSlot \notin Slots

VARIABLES
    active,      \* ForwardManager.active: the slot of the rule's entry
    phase,       \* where each activation is: see ForwardPhases
    handler,     \* SshConnection.remoteHandlers: the slot that gets a -R connection
    shown,       \* the last forward:state published of each rule
    pending,     \* pendingForwards: the rules to restore
    opened,      \* open() has resolved: the autoStart rules were started
    wanted,      \* history: started, and neither stopped nor refused since
    forsaken     \* history: the -R rules that a reconnect of the user's left
                 \* with their entry in the map and without their handler

forwardVars == <<active, phase, handler, shown, pending, opened, wanted, forsaken>>

\* waiting: start() awaits; doomed: a -R request whose client is gone, and whose
\* rejection is due; up: start() resolved and the entry was not cleaned up.
ForwardPhases == {"free", "waiting", "doomed", "up"}

ForwardTypeOK ==
    /\ active \in [Rules -> Slots \cup {NoSlot}]
    /\ phase \in [Rules -> [Slots -> ForwardPhases]]
    /\ handler \in [RemoteRules -> Slots \cup {NoSlot}]
    /\ shown \in [Rules -> {"stopped", "active", "error"}]
    /\ pending \subseteq Rules
    /\ opened \in BOOLEAN
    /\ wanted \subseteq Rules
    /\ forsaken \subseteq RemoteRules

ForwardInit ==
    /\ active = [r \in Rules |-> NoSlot]
    /\ phase = [r \in Rules |-> [k \in Slots |-> "free"]]
    /\ handler = [r \in RemoteRules |-> NoSlot]
    /\ shown = [r \in Rules |-> "stopped"]
    /\ pending = {}
    /\ opened = FALSE
    /\ wanted = {}
    /\ forsaken = {}

Active == {r \in Rules : active[r] # NoSlot}

------------------------------------------------------------------------------
(* start(), stop(), cleanup()                                                 *)

\* What cleanup() makes of an activation: the listener closes, and a start that
\* awaits it is abandoned (Node never calls back); a -R request goes on.
CleanedUp(r, p, request) ==
    CASE p = "doomed" -> "doomed"
      [] p = "waiting" /\ r \in RemoteRules -> request
      [] OTHER -> "free"

\* The activations once the entries of the rules R are cleaned up.
Released(R, request) ==
    [r \in Rules |-> [k \in Slots |->
        IF r \in R /\ k = active[r] THEN CleanedUp(r, phase[r][k], request)
                                    ELSE phase[r][k]]]

\* unforwardIn(): the handlers of R are dropped.
Unhandled(R) == [r \in RemoteRules |-> IF r \in R THEN NoSlot ELSE handler[r]]

FreeSlot(r) == CHOOSE k \in Slots : phase[r][k] = "free"

CanStart(r) == \E k \in Slots : phase[r][k] = "free"

\* Variant: the old entry is only forgotten.
StartAllOverOld(R) ==
    /\ \A r \in R : CanStart(r)
    /\ phase' = [r \in Rules |-> [k \in Slots |->
                    IF r \in R /\ k = FreeSlot(r) THEN "waiting" ELSE phase[r][k]]]
    /\ active' = [r \in Rules |-> IF r \in R THEN FreeSlot(r) ELSE active[r]]
    /\ handler' = [r \in RemoteRules |-> IF r \in R THEN FreeSlot(r) ELSE handler[r]]
    /\ shown' = [r \in Rules |-> IF r \in R \cap Active THEN "stopped" ELSE shown[r]]
    /\ wanted' = wanted \cup R
    /\ forsaken' = forsaken \ R

\* start() of each rule of R up to its await: an old entry is stopped first.
StartAll(R) ==
    /\ \A r \in R : CanStart(r)
    /\ phase' = [r \in Rules |-> [k \in Slots |->
                    IF r \in R /\ k = FreeSlot(r)
                    THEN "waiting" ELSE Released(R, "waiting")[r][k]]]
    /\ active' = [r \in Rules |-> IF r \in R THEN FreeSlot(r) ELSE active[r]]
    /\ handler' = [r \in RemoteRules |-> IF r \in R THEN FreeSlot(r) ELSE handler[r]]
    /\ shown' = [r \in Rules |-> IF r \in R \cap Active THEN "stopped" ELSE shown[r]]
    /\ wanted' = wanted \cup R
    /\ forsaken' = forsaken \ R

InFlight(r) == \E k \in Slots : phase[r][k] \in {"waiting", "doomed"}

\* The user switches a rule on.  The panel offers it when the rule is not shown
\* active and a session of its profile is ready; the model's user repeats a -R
\* request only when it was answered.
Start(r) ==
    /\ registered /\ state = "ready"
    /\ shown[r] # "active"
    /\ r \in RemoteRules => ~InFlight(r)
    /\ StartAll({r})
    /\ UNCHANGED <<pending, opened>>

\* The rest of start(): it looks at its own entry, never at the map.
Established(r, k) ==
    /\ phase[r][k] = "waiting"
    /\ phase' = [phase EXCEPT ![r][k] =
                    IF r \in RemoteRules /\ active[r] # k THEN "free" ELSE "up"]
    /\ shown' = [shown EXCEPT ![r] = "active"]
    /\ UNCHANGED <<active, handler, pending, opened, wanted, forsaken>>

\* The catch of start(): the map's entry goes, whichever activation it is of.
Refused(r, k) ==
    /\ phase[r][k] \in {"waiting", "doomed"}
    /\ phase' = [phase EXCEPT ![r][k] = "free"]
    /\ shown' = [shown EXCEPT ![r] = "error"]
    /\ handler' = Unhandled({r})
    /\ active' = [active EXCEPT ![r] = NoSlot]
    /\ wanted' = wanted \ {r}
    /\ forsaken' = forsaken \ {r}
    /\ UNCHANGED <<pending, opened>>

\* The user switches a rule off.
Stop(r) ==
    /\ registered /\ shown[r] = "active" /\ r \in Active
    /\ phase' = Released({r}, "waiting")
    /\ handler' = Unhandled({r})
    /\ shown' = [shown EXCEPT ![r] = "stopped"]
    /\ active' = [active EXCEPT ![r] = NoSlot]
    /\ wanted' = wanted \ {r}
    /\ forsaken' = forsaken \ {r}
    /\ UNCHANGED <<pending, opened>>

------------------------------------------------------------------------------
(* The session's events                                                       *)

\* Variant: the second loss overwrites what the first one left to restore.
SessionLostOverwriting ==
    /\ phase' = Released(Active, "free")
    /\ handler' = [r \in RemoteRules |-> NoSlot]
    /\ shown' = [r \in Rules |-> IF r \in Active THEN "error" ELSE shown[r]]
    /\ active' = [r \in Rules |-> NoSlot]
    /\ pending' = Active
    /\ forsaken' = {}
    /\ UNCHANGED <<opened, wanted>>

\* state 'reconnecting' or 'closed': teardownChannels, then onSessionLost.  ssh2
\* (external) has rejected the requests of the lost client.
SessionLost ==
    /\ phase' = Released(Active, "free")
    /\ handler' = [r \in RemoteRules |-> NoSlot]
    /\ shown' = [r \in Rules |-> IF r \in Active THEN "error" ELSE shown[r]]
    /\ active' = [r \in Rules |-> NoSlot]
    /\ pending' = IF Active = {} THEN pending ELSE Active
    /\ forsaken' = {}
    /\ UNCHANGED <<opened, wanted>>

\* The user reconnects: the handlers go with the client, the entries stay, and
\* nothing is saved to be restored.  A -R rule with an entry is then forsaken:
\* it is shown active as before, and the new client forwards nothing for it.
SessionReplaced ==
    /\ phase' = [r \in Rules |-> [k \in Slots |->
                    IF r \in RemoteRules /\ phase[r][k] = "waiting"
                    THEN "doomed" ELSE phase[r][k]]]
    /\ handler' = [r \in RemoteRules |-> NoSlot]
    /\ forsaken' = forsaken \cup (Active \cap RemoteRules)
    /\ UNCHANGED <<active, shown, pending, opened, wanted>>

\* 'reestablished' restores the pending rules; after the first connection open()
\* resolves and starts the autoStart rules.  The model lets the requests of an
\* old client be rejected before its successor is ready.
SessionReady ==
    /\ \A r \in Rules, k \in Slots : phase[r][k] # "doomed"
    /\ StartAll(IF opened THEN pending ELSE AutoRules)
    /\ pending' = {}
    /\ opened' = TRUE

\* stopForSession and the end of the client, in close().
SessionEnded ==
    /\ phase' = Released(Active, "doomed")
    /\ handler' = [r \in RemoteRules |-> NoSlot]
    /\ shown' = [r \in Rules |-> IF r \in Active THEN "stopped" ELSE shown[r]]
    /\ active' = [r \in Rules |-> NoSlot]
    /\ pending' = {}
    /\ wanted' = {}
    /\ forsaken' = {}
    /\ UNCHANGED opened

ForwardStep ==
    \/ \E r \in Rules : Start(r) \/ Stop(r)
    \/ \E r \in Rules, k \in Slots : Established(r, k) \/ Refused(r, k)

\* The session's own steps, each with what it does to the forwards.
ForwardedSession ==
    \/ (Begin \/ Authenticate \/ Retry) /\ UNCHANGED forwardVars
    \/ Ready /\ SessionReady
    \/ (Lose \/ GiveUp) /\ SessionLost
    \/ Again /\ SessionReplaced
    \/ End /\ SessionEnded

ForwardNext ==
    \/ ForwardStep /\ UNCHANGED sessionVars
    \/ ForwardedSession

ForwardSpec ==
    SessionInit /\ ForwardInit /\ [][ForwardNext]_<<sessionVars, forwardVars>>

------------------------------------------------------------------------------
Listening(r, k) == r \notin RemoteRules /\ phase[r][k] = "up"

\* A local rule is shown active exactly when a listener of its is open, and that
\* listener is the one stop() would close; a connection the server forwards is
\* answered only for an entry that stop() would take down.  Start, stop, refusal
\* and loss of the session may come in any order.
ServedAsShown ==
    /\ \A r \in Rules \ RemoteRules :
          /\ shown[r] = "active" <=> \E k \in Slots : Listening(r, k)
          /\ \A k \in Slots : Listening(r, k) => active[r] = k
    /\ \A r \in RemoteRules : handler[r] # NoSlot => handler[r] = active[r]

Served(r) ==
    /\ active[r] # NoSlot
    /\ phase[r][active[r]] \in {"waiting", "up"}
    /\ r \in RemoteRules => handler[r] = active[r]

\* No rule is forgotten but where the user reconnects: while the session is held,
\* a rule that was started and neither stopped nor refused is served, or will be
\* restored when the session is ready again, through any number of losses and
\* failed retries.  The exception is the code's: a -R rule that had an entry when
\* the user pressed "reconnect" (forsaken) is neither served nor pending, until
\* it is switched off or refused, or the next loss of the session saves it.
ForwardsRestored ==
    /\ registered => \A r \in wanted : Served(r) \/ r \in pending \/ r \in forsaken
    /\ state = "ready" => pending = {}
==============================================================================
