------------------------- MODULE SessionServicesProofs -------------------------
(* What is proved of the services of an SSH session, for any bounds: of its    *)
(* forwards (Forwarding.tla), of a remote file in the editor (RemoteSave.tla), *)
(* of a terminal tab (TermTab.tla), and of the session with all of them.       *)
EXTENDS SessionServices, FiniteSetTheorems, TLAPS

(* The forwards.                                                               *)

Locals == Rules \ RemoteRules

(* A local activation that goes on is the one the map's entry names.           *)
LocalsTracked ==
    \A r \in Locals, k \in Slots :
        /\ phase[r][k] # "doomed"
        /\ phase[r][k] # "free" => active[r] = k

(* What waits to be restored waits for all: no entry stands beside it.         *)
LostTogether == Active # {} => pending = {}

(* A -R rule that a reconnect left without its handler still has its entry.    *)
ForsakenHasEntry == forsaken \subseteq Active

(* Before the first connection nothing was started.                            *)
OpenedFirst ==
    ~opened => Active = {} /\ pending = {} /\ wanted = {} /\ state # "ready"

(* A session outside the registry was not opened yet or is closed.             *)
RegisteredFirst == ~registered /\ state = "connecting" => ~opened

ForwardInv ==
    /\ ForwardTypeOK
    /\ LocalsTracked /\ LostTogether /\ ForsakenHasEntry /\ OpenedFirst /\ RegisteredFirst
    /\ ServedAsShown /\ ForwardsRestored

-------------------------------------------------------------------------------
LEMMA FreeSlotIsFree ==
    ASSUME NEW r, CanStart(r)
    PROVE  FreeSlot(r) \in Slots /\ phase[r][FreeSlot(r)] = "free"
BY DEF CanStart, FreeSlot

LEMMA ReleasedType ==
    ASSUME ForwardTypeOK, NEW R, NEW request \in ForwardPhases
    PROVE  Released(R, request) \in [Rules -> [Slots -> ForwardPhases]]
BY DEF ForwardTypeOK, Released, CleanedUp, ForwardPhases

(* A local activation whose entry is cleaned up is over.                       *)
LEMMA ReleasedLocal ==
    ASSUME LocalsTracked, NEW R, NEW request, NEW r \in Locals, NEW k \in Slots
    PROVE  Released(R, request)[r][k] = IF r \in R THEN "free" ELSE phase[r][k]
BY DEF LocalsTracked, Released, CleanedUp, Locals

LEMMA ForwardInvInit == SessionInit /\ ForwardInit => ForwardInv
<1> SUFFICES ASSUME SessionInit, ForwardInit PROVE ForwardInv
  OBVIOUS
<1>1. ForwardTypeOK
  BY DEF ForwardInit, ForwardTypeOK, ForwardPhases
<1>2. /\ Active = {} /\ pending = {} /\ wanted = {} /\ forsaken = {}
      /\ ~opened /\ state = "connecting"
  BY DEF SessionInit, ForwardInit, Active
<1>3. LocalsTracked
  BY DEF ForwardInit, LocalsTracked, Locals
<1>4. ServedAsShown
  BY DEF ForwardInit, ServedAsShown, Listening
<1> QED
  BY <1>1, <1>2, <1>3, <1>4
     DEF ForwardInv, LostTogether, ForsakenHasEntry, OpenedFirst, RegisteredFirst,
         ForwardsRestored

-------------------------------------------------------------------------------
(* start() of some rules up to its await: each gets an entry of its own.       *)
LEMMA StartAllKeeps ==
    ASSUME ForwardInv, NEW R \in SUBSET Rules, StartAll(R)
    PROVE  /\ active' \in [Rules -> Slots \cup {NoSlot}]
           /\ phase' \in [Rules -> [Slots -> ForwardPhases]]
           /\ handler' \in [RemoteRules -> Slots \cup {NoSlot}]
           /\ shown' \in [Rules -> {"stopped", "active", "error"}]
           /\ wanted' = wanted \cup R /\ wanted' \subseteq Rules
           /\ forsaken' = forsaken \ R /\ forsaken' \subseteq RemoteRules
           /\ ForsakenHasEntry'
           /\ LocalsTracked' /\ ServedAsShown'
           /\ \A r \in R : Served(r)'
           /\ \A r \in Rules : Served(r) => Served(r)'
<1> USE DEF ForwardInv, ForwardTypeOK
<1> USE ForwardingAssumption
<1>1. \A r \in R : FreeSlot(r) \in Slots /\ phase[r][FreeSlot(r)] = "free"
  BY FreeSlotIsFree DEF StartAll
<1>2. \A r \in Rules : active'[r] = IF r \in R THEN FreeSlot(r) ELSE active[r]
  BY DEF StartAll
<1>3. \A r \in Rules, k \in Slots :
          phase'[r][k] = IF r \in R /\ k = FreeSlot(r)
                         THEN "waiting" ELSE Released(R, "waiting")[r][k]
  BY DEF StartAll
<1>4. \A r \in RemoteRules : handler'[r] = IF r \in R THEN FreeSlot(r) ELSE handler[r]
  BY DEF StartAll
<1>5. \A r \in Rules : shown'[r] = IF r \in R \cap Active THEN "stopped" ELSE shown[r]
  BY DEF StartAll
<1>6. /\ active' \in [Rules -> Slots \cup {NoSlot}]
      /\ handler' \in [RemoteRules -> Slots \cup {NoSlot}]
      /\ shown' \in [Rules -> {"stopped", "active", "error"}]
      /\ wanted' = wanted \cup R /\ wanted' \subseteq Rules
      /\ forsaken' = forsaken \ R /\ forsaken' \subseteq RemoteRules
  BY <1>1 DEF StartAll
<1>7. phase' \in [Rules -> [Slots -> ForwardPhases]]
  <2>1. Released(R, "waiting") \in [Rules -> [Slots -> ForwardPhases]]
    BY ReleasedType DEF ForwardPhases
  <2> QED  BY <2>1 DEF StartAll, ForwardPhases
<1>8. \A r \in Locals, k \in Slots :
          phase'[r][k] = IF r \notin R THEN phase[r][k]
                         ELSE IF k = FreeSlot(r) THEN "waiting" ELSE "free"
  BY <1>3, ReleasedLocal DEF Locals
<1>9. LocalsTracked'
  BY <1>2, <1>8 DEF LocalsTracked, Locals
<1>10. ServedAsShown'
  <2>1. ASSUME NEW r \in Rules \ RemoteRules, r \in R
        PROVE  shown'[r] # "active" /\ \A k \in Slots : phase'[r][k] # "up"
    <3>1. \A k \in Slots : phase'[r][k] # "up"
      BY <1>8, <2>1 DEF Locals
    <3>2. CASE r \in Active
      BY <1>5, <2>1, <3>1, <3>2
    <3>3. CASE r \notin Active
      <4>1. \A k \in Slots : phase[r][k] = "free"
        BY <3>3 DEF Active, LocalsTracked, Locals
      <4>2. shown[r] # "active"
        BY <2>1, <4>1 DEF ServedAsShown, Listening
      <4> QED  BY <1>5, <3>1, <3>3, <4>2
    <3> QED  BY <3>2, <3>3
  <2>2. ASSUME NEW r \in Rules \ RemoteRules, r \notin R
        PROVE  /\ shown'[r] = shown[r] /\ active'[r] = active[r]
               /\ \A k \in Slots : phase'[r][k] = phase[r][k]
    BY <1>2, <1>5, <1>8, <2>2 DEF Locals
  <2>3. \A r \in RemoteRules : handler'[r] # NoSlot => handler'[r] = active'[r]
    BY <1>2, <1>4 DEF ServedAsShown
  <2>4. ASSUME NEW r \in Rules \ RemoteRules
        PROVE  /\ shown'[r] = "active" <=> \E k \in Slots : Listening(r, k)'
               /\ \A k \in Slots : Listening(r, k)' => active'[r] = k
    <3>1. CASE r \in R
      BY <2>1, <3>1 DEF Listening
    <3>2. CASE r \notin R
      <4>1. /\ shown[r] = "active" <=> \E k \in Slots : phase[r][k] = "up"
            /\ \A k \in Slots : phase[r][k] = "up" => active[r] = k
        BY DEF ServedAsShown, Listening
      <4>2. /\ shown'[r] = shown[r] /\ active'[r] = active[r]
            /\ \A k \in Slots : phase'[r][k] = phase[r][k]
        BY <2>2, <3>2
      <4> HIDE DEF ForwardInv, ForwardTypeOK
      <4>3. \A k \in Slots : Listening(r, k)' <=> phase[r][k] = "up"
        BY <4>2 DEF Listening
      <4> QED  BY <4>1, <4>2, <4>3
    <3> QED  BY <3>1, <3>2
  <2> HIDE DEF ForwardInv, ForwardTypeOK
  <2> QED  BY <2>3, <2>4 DEF ServedAsShown
<1>11. \A r \in R : Served(r)'
  BY <1>1, <1>2, <1>3, <1>4 DEF Served
<1>12. ASSUME NEW r \in Rules, Served(r)
       PROVE  Served(r)'
  <2>1. CASE r \in R
    BY <1>11, <2>1
  <2>2. CASE r \notin R
    <3>1. active'[r] = active[r] /\ active[r] \in Slots
      BY <1>2, <1>12, <2>2 DEF Served
    <3>2. phase'[r][active[r]] = phase[r][active[r]]
      BY <1>3, <2>2, <3>1 DEF Released
    <3>3. r \in RemoteRules => handler'[r] = handler[r]
      BY <1>4, <2>2
    <3> QED  BY <1>12, <3>1, <3>2, <3>3 DEF Served
  <2> QED  BY <2>1, <2>2
<1>13. ForsakenHasEntry'
  BY <1>2, <1>6 DEF ForsakenHasEntry, Active
<1> QED  BY <1>6, <1>7, <1>9, <1>10, <1>11, <1>12, <1>13

LEMMA StartKeeps ==
    ASSUME ForwardInv, NEW r \in Rules, Start(r), UNCHANGED sessionVars
    PROVE  ForwardInv'
<1> USE DEF ForwardInv, sessionVars
<1>1. /\ registered /\ state = "ready" /\ StartAll({r})
      /\ UNCHANGED <<pending, opened, registered, state>>
  BY DEF Start
<1>2. opened /\ pending = {}
  BY <1>1 DEF OpenedFirst, ForwardsRestored
<1>3. ForwardTypeOK' /\ LocalsTracked' /\ ServedAsShown' /\ ForsakenHasEntry'
  BY <1>1, StartAllKeeps DEF ForwardTypeOK
<1>4. ForwardsRestored'
  <2>1. \A q \in wanted' : Served(q)' \/ q \in forsaken'
    BY <1>1, <1>2, StartAllKeeps DEF ForwardsRestored, ForwardTypeOK
  <2> QED  BY <1>1, <1>2, <2>1 DEF ForwardsRestored
<1> QED
  BY <1>1, <1>2, <1>3, <1>4 DEF LostTogether, OpenedFirst, RegisteredFirst

(* A start that was answered: its entry is shown active, and still is the one. *)
LEMMA EstablishedKeeps ==
    ASSUME ForwardInv, NEW r \in Rules, NEW k \in Slots, Established(r, k),
           UNCHANGED sessionVars
    PROVE  ForwardInv'
<1> USE DEF ForwardInv, ForwardTypeOK, sessionVars
<1> DEFINE p == IF r \in RemoteRules /\ active[r] # k THEN "free" ELSE "up"
<1>1. /\ phase[r][k] = "waiting" /\ phase' = [phase EXCEPT ![r][k] = p]
      /\ shown' = [shown EXCEPT ![r] = "active"]
      /\ UNCHANGED <<active, handler, pending, opened, wanted, forsaken, registered, state>>
  BY DEF Established
<1>2. ForwardTypeOK'
  BY <1>1 DEF ForwardPhases
<1>3. \A q \in Rules, j \in Slots :
          phase'[q][j] = IF q = r /\ j = k THEN p ELSE phase[q][j]
  BY <1>1
<1>4. LocalsTracked'
  BY <1>1, <1>3 DEF LocalsTracked, Locals
<1>5. ServedAsShown'
  <2>1. ASSUME NEW q \in Rules \ RemoteRules
        PROVE  /\ shown'[q] = "active" <=> \E j \in Slots : phase'[q][j] = "up"
               /\ \A j \in Slots : phase'[q][j] = "up" => active'[q] = j
    <3>1. CASE q = r
      BY <1>1, <1>3, <3>1 DEF LocalsTracked, Locals
    <3>2. CASE q # r
      BY <1>1, <1>3, <3>2 DEF ServedAsShown, Listening
    <3> QED  BY <3>1, <3>2
  <2> QED  BY <1>1, <2>1 DEF ServedAsShown, Listening
<1>6. \A q \in Rules : Served(q) => Served(q)'
  BY <1>1, <1>3 DEF Served
<1>7. ForwardsRestored'
  BY <1>1, <1>6 DEF ForwardsRestored
<1> QED
  BY <1>1, <1>2, <1>4, <1>5, <1>7
     DEF LostTogether, ForsakenHasEntry, OpenedFirst, RegisteredFirst, Active

(* A rule loses its entry, because it is refused or switched off.              *)
LEMMA EntryGoesKeeps ==
    ASSUME ForwardInv, NEW r \in Rules,
           phase' \in [Rules -> [Slots -> ForwardPhases]],
           \A q \in Rules \ {r}, j \in Slots : phase'[q][j] = phase[q][j],
           r \in Locals => \A j \in Slots : phase'[r][j] = "free",
           handler' = Unhandled({r}),
           active' = [active EXCEPT ![r] = NoSlot],
           NEW word \in {"stopped", "error"}, shown' = [shown EXCEPT ![r] = word],
           wanted' = wanted \ {r}, forsaken' = forsaken \ {r},
           UNCHANGED <<pending, opened>>, UNCHANGED sessionVars
    PROVE  ForwardInv'
<1> USE DEF ForwardInv, ForwardTypeOK, sessionVars
<1>1. \A q \in RemoteRules : handler'[q] = IF q = r THEN NoSlot ELSE handler[q]
  BY DEF Unhandled
<1>2. handler' \in [RemoteRules -> Slots \cup {NoSlot}]
  BY DEF Unhandled
<1>3. ForwardTypeOK'
  BY <1>2
<1>4. LocalsTracked'
  BY DEF LocalsTracked, Locals
<1>5. ServedAsShown'
  <2>1. ASSUME NEW q \in Rules \ RemoteRules
        PROVE  /\ shown'[q] = "active" <=> \E j \in Slots : phase'[q][j] = "up"
               /\ \A j \in Slots : phase'[q][j] = "up" => active'[q] = j
    <3>1. CASE q = r
      BY <3>1 DEF Locals
    <3>2. CASE q # r
      BY <3>2 DEF ServedAsShown, Listening
    <3> QED  BY <3>1, <3>2
  <2>2. \A q \in RemoteRules : handler'[q] # NoSlot => handler'[q] = active'[q]
    BY <1>1, ForwardingAssumption DEF ServedAsShown
  <2>3. \A q \in Rules \ RemoteRules, j \in Slots : Listening(q, j)' <=> phase'[q][j] = "up"
    BY DEF Listening
  <2>4. \A q \in Rules \ RemoteRules :
            /\ shown'[q] = "active" <=> \E j \in Slots : Listening(q, j)'
            /\ \A j \in Slots : Listening(q, j)' => active'[q] = j
    BY <2>1, <2>3
  <2> HIDE DEF ForwardInv, ForwardTypeOK
  <2> QED  BY <2>2, <2>4 DEF ServedAsShown
<1>6. \A q \in wanted' : Served(q) => Served(q)'
  <2> SUFFICES ASSUME NEW q \in wanted', Served(q) PROVE Served(q)'
    OBVIOUS
  <2>1. q \in Rules \ {r} /\ active[q] \in Slots
    BY DEF Served
  <2>2. active'[q] = active[q] /\ phase'[q][active[q]] = phase[q][active[q]]
    BY <2>1
  <2>3. q \in RemoteRules => handler'[q] = handler[q]
    BY <1>1, <2>1
  <2> QED  BY <2>2, <2>3 DEF Served
<1>7. ForwardsRestored'
  BY <1>6 DEF ForwardsRestored
<1>8. Active' = Active \ {r}
  BY DEF Active
<1>9. ForsakenHasEntry'
  BY <1>8 DEF ForsakenHasEntry
<1> QED
  BY <1>3, <1>4, <1>5, <1>7, <1>8, <1>9 DEF LostTogether, OpenedFirst, RegisteredFirst

LEMMA EndsKeep ==
    ASSUME ForwardInv, NEW r \in Rules, UNCHANGED sessionVars,
           Stop(r) \/ \E k \in Slots : Refused(r, k)
    PROVE  ForwardInv'
<1> USE DEF ForwardInv, ForwardTypeOK
<1>1. CASE Stop(r)
  <2>1. phase' = Released({r}, "waiting")
    BY <1>1 DEF Stop
  <2>2. phase' \in [Rules -> [Slots -> ForwardPhases]]
    BY <2>1, ReleasedType DEF ForwardPhases
  <2>3. \A q \in Rules \ {r}, j \in Slots : phase'[q][j] = phase[q][j]
    BY <2>1 DEF Released
  <2>4. r \in Locals => \A j \in Slots : phase'[r][j] = "free"
    BY <2>1, ReleasedLocal
  <2> QED  BY <1>1, <2>2, <2>3, <2>4, EntryGoesKeeps DEF Stop
<1>2. ASSUME NEW k \in Slots, Refused(r, k)
      PROVE  ForwardInv'
  <2>1. phase[r][k] # "free" /\ phase' = [phase EXCEPT ![r][k] = "free"]
    BY <1>2 DEF Refused
  <2>2. phase' \in [Rules -> [Slots -> ForwardPhases]]
    BY <2>1 DEF ForwardPhases
  <2>3. \A q \in Rules \ {r}, j \in Slots : phase'[q][j] = phase[q][j]
    BY <2>1
  <2>4. r \in Locals => \A j \in Slots : phase'[r][j] = "free"
    BY <2>1 DEF LocalsTracked, Locals
  <2> QED  BY <1>2, <2>2, <2>3, <2>4, EntryGoesKeeps DEF Refused
<1> QED  BY <1>1, <1>2

-------------------------------------------------------------------------------
(* The session is lost or ended: every entry is cleaned up.                    *)
LEMMA TakenDown ==
    ASSUME ForwardInv, NEW request \in ForwardPhases, phase' = Released(Active, request),
           handler' = [r \in RemoteRules |-> NoSlot],
           NEW word \in {"stopped", "error"},
           shown' = [r \in Rules |-> IF r \in Active THEN word ELSE shown[r]],
           active' = [r \in Rules |-> NoSlot],
           pending' \subseteq Rules, opened' = opened, wanted' \subseteq Rules, forsaken' = {}
    PROVE  /\ ForwardTypeOK' /\ LocalsTracked' /\ ServedAsShown' /\ Active' = {}
           /\ ForsakenHasEntry'
<1> USE DEF ForwardInv
<1>1. phase' \in [Rules -> [Slots -> ForwardPhases]]
  BY ReleasedType
<1>2. ForwardTypeOK'
  BY <1>1 DEF ForwardTypeOK
<1>3. \A r \in Locals, k \in Slots : phase'[r][k] = "free"
  <2>1. \A r \in Locals, k \in Slots :
            phase'[r][k] = IF r \in Active THEN "free" ELSE phase[r][k]
    BY ReleasedLocal
  <2> QED  BY <2>1, ForwardingAssumption DEF LocalsTracked, Locals, Active
<1>4. \A r \in Locals : shown'[r] # "active"
  <2>1. \A r \in Locals : r \notin Active => \A k \in Slots : phase[r][k] = "free"
    BY ForwardingAssumption DEF LocalsTracked, Locals, Active
  <2>2. \A r \in Locals : r \notin Active => shown[r] # "active"
    BY <2>1 DEF ServedAsShown, Listening, Locals
  <2> QED  BY <2>2 DEF Locals
<1> QED
  BY <1>2, <1>3, <1>4
     DEF LocalsTracked, ServedAsShown, ForsakenHasEntry, Listening, Locals, Active

LEMMA LostKeeps ==
    ASSUME ForwardInv, Lose \/ GiveUp, SessionLost
    PROVE  ForwardInv'
<1>1. /\ ForwardTypeOK' /\ LocalsTracked' /\ ServedAsShown' /\ Active' = {}
      /\ ForsakenHasEntry'
      /\ pending' = IF Active = {} THEN pending ELSE Active
      /\ opened' = opened /\ wanted' = wanted
  BY TakenDown DEF SessionLost, ForwardInv, ForwardTypeOK, ForwardPhases, Active
<1>2. /\ registered /\ state' \in {"reconnecting", "closed"}
  BY DEF Lose, GiveUp
<1>3. \A r \in wanted : r \in pending'
  BY <1>1, <1>2 DEF ForwardInv, ForwardsRestored, LostTogether, ForsakenHasEntry,
                    Served, Active, ForwardTypeOK
<1>4. ~opened => pending' = {} /\ wanted' = {}
  BY <1>1 DEF ForwardInv, OpenedFirst
<1> QED
  BY <1>1, <1>2, <1>3, <1>4
     DEF ForwardInv, ForwardsRestored, LostTogether, OpenedFirst, RegisteredFirst

LEMMA EndedKeeps ==
    ASSUME ForwardInv, End, SessionEnded
    PROVE  ForwardInv'
<1>1. /\ ForwardTypeOK' /\ LocalsTracked' /\ ServedAsShown' /\ Active' = {}
      /\ ForsakenHasEntry' /\ pending' = {} /\ wanted' = {} /\ opened' = opened
  BY TakenDown DEF SessionEnded, ForwardInv, ForwardTypeOK, ForwardPhases
<1>2. ~registered' /\ state' = "closed"
  BY DEF End
<1> QED
  BY <1>1, <1>2 DEF ForwardInv, ForwardsRestored, LostTogether, OpenedFirst, RegisteredFirst

(* The user reconnects: a -R rule whose entry stays is forsaken.               *)
LEMMA ReplacedKeeps ==
    ASSUME ForwardInv, Again, SessionReplaced
    PROVE  ForwardInv'
<1> USE DEF ForwardInv, ForwardTypeOK
<1>1. /\ registered /\ registered' = registered /\ state' = "connecting"
      /\ handler' = [r \in RemoteRules |-> NoSlot]
      /\ forsaken' = forsaken \cup (Active \cap RemoteRules)
      /\ UNCHANGED <<active, shown, pending, opened, wanted>>
  BY DEF Again, SessionReplaced
<1>2. /\ phase' \in [Rules -> [Slots -> ForwardPhases]]
      /\ \A r \in Rules, k \in Slots :
             phase'[r][k] = IF r \in RemoteRules /\ phase[r][k] = "waiting"
                            THEN "doomed" ELSE phase[r][k]
  BY DEF SessionReplaced, ForwardPhases
<1>3. ForwardTypeOK' /\ LocalsTracked' /\ ServedAsShown'
  BY <1>1, <1>2 DEF LocalsTracked, Locals, ServedAsShown, Listening
<1>4. \A r \in wanted' : Served(r) => Served(r)' \/ r \in forsaken'
  <2> SUFFICES ASSUME NEW r \in wanted', Served(r) PROVE Served(r)' \/ r \in forsaken'
    OBVIOUS
  <2>1. r \in Rules /\ active[r] \in Slots /\ r \in Active
    BY <1>1, ForwardingAssumption DEF Served, Active
  <2>2. CASE r \in RemoteRules
    BY <1>1, <2>1, <2>2
  <2>3. CASE r \notin RemoteRules
    BY <1>1, <1>2, <2>1, <2>3 DEF Served
  <2> QED  BY <2>2, <2>3
<1>5. ForwardsRestored'
  BY <1>1, <1>4 DEF ForwardsRestored
<1> QED
  BY <1>1, <1>3, <1>5
     DEF LostTogether, ForsakenHasEntry, OpenedFirst, RegisteredFirst, Active

(* The session is ready: what was lost is started again, or what starts by     *)
(* itself for the first time.                                                  *)
LEMMA ReadyKeeps ==
    ASSUME ForwardInv, Ready, SessionReady
    PROVE  ForwardInv'
<1> USE DEF ForwardInv
<1> DEFINE R == IF opened THEN pending ELSE AutoRules
<1>1. /\ StartAll(R) /\ pending' = {} /\ opened' /\ opened' \in BOOLEAN
      /\ registered /\ registered'
  BY DEF Ready, SessionReady
<1>2. R \in SUBSET Rules
  BY ForwardingAssumption DEF ForwardTypeOK
<1>3. ForwardTypeOK' /\ LocalsTracked' /\ ServedAsShown' /\ ForsakenHasEntry'
  BY <1>1, <1>2, StartAllKeeps DEF ForwardTypeOK
<1>4. \A r \in wanted' : Served(r)' \/ r \in forsaken'
  <2>1. wanted' = wanted \cup R /\ wanted \subseteq Rules
    BY <1>1, <1>2, StartAllKeeps DEF ForwardTypeOK
  <2>2. \A r \in wanted : Served(r) \/ r \in R \/ r \in forsaken
    BY <1>1 DEF ForwardsRestored, OpenedFirst
  <2> QED  BY <1>1, <1>2, <2>1, <2>2, StartAllKeeps
<1> QED
  BY <1>1, <1>3, <1>4 DEF ForwardsRestored, LostTogether, OpenedFirst, RegisteredFirst

(* A step of the session that does nothing to the forwards.                    *)
LEMMA UntouchedKeeps ==
    ASSUME ForwardInv, UNCHANGED forwardVars,
           Begin \/ Authenticate \/ Retry \/ UNCHANGED sessionVars
    PROVE  ForwardInv'
<1>1. /\ ForwardTypeOK' /\ LocalsTracked' /\ LostTogether' /\ ForsakenHasEntry'
      /\ ServedAsShown'
  BY DEF forwardVars, ForwardInv, ForwardTypeOK, LocalsTracked, LostTogether, ForsakenHasEntry,
         ServedAsShown, Listening, Active
<1>2. OpenedFirst' /\ RegisteredFirst'
  BY DEF Begin, Authenticate, Retry, sessionVars, forwardVars, ForwardInv, OpenedFirst,
         RegisteredFirst, Active
<1>3. ForwardsRestored'
  <2>1. \A r \in wanted : Served(r)' <=> Served(r)
    BY DEF Served, forwardVars
  <2>2. CASE Begin
    BY <2>2 DEF Begin, forwardVars, ForwardInv, OpenedFirst, RegisteredFirst, ForwardsRestored
  <2>3. CASE Authenticate \/ Retry \/ UNCHANGED sessionVars
    BY <2>1, <2>3 DEF Authenticate, Retry, sessionVars, forwardVars, ForwardInv, ForwardsRestored
  <2> QED  BY <2>2, <2>3
<1> QED  BY <1>1, <1>2, <1>3 DEF ForwardInv

LEMMA ForwardInvStep == ForwardInv /\ [ForwardNext]_<<sessionVars, forwardVars>> => ForwardInv'
<1> SUFFICES ASSUME ForwardInv, [ForwardNext]_<<sessionVars, forwardVars>> PROVE ForwardInv'
  OBVIOUS
<1>1. CASE ForwardStep /\ UNCHANGED sessionVars
  BY <1>1, StartKeeps, EstablishedKeeps, EndsKeep DEF ForwardStep
<1>2. CASE ForwardedSession
  BY <1>2, UntouchedKeeps, ReadyKeeps, LostKeeps, ReplacedKeeps, EndedKeeps
     DEF ForwardedSession
<1>3. CASE UNCHANGED <<sessionVars, forwardVars>>
  BY <1>3, UntouchedKeeps
<1> QED  BY <1>1, <1>2, <1>3 DEF ForwardNext

-------------------------------------------------------------------------------
(* The inductive invariant holds of a session with its forwards.               *)
THEOREM ForwardInvariance == ForwardSpec => []ForwardInv
<1> QED  BY ForwardInvInit, ForwardInvStep, PTL DEF ForwardSpec

(* The forwards' state keeps its type.                                         *)
THEOREM ForwardTypeCorrect == ForwardSpec => []ForwardTypeOK
<1>1. ForwardInv => ForwardTypeOK
  BY DEF ForwardInv
<1> QED  BY <1>1, ForwardInvariance, PTL

(* A local rule is shown active exactly when its listener is open and stop()   *)
(* would close it, and a -R connection is answered only for an entry that      *)
(* stop() would take down, in whatever order starts, stops, refusals and       *)
(* losses of the session come.                                                 *)
THEOREM ServedAsShownHolds == ForwardSpec => []ServedAsShown
<1>1. ForwardInv => ServedAsShown
  BY DEF ForwardInv
<1> QED  BY <1>1, ForwardInvariance, PTL

(* A rule that was started and neither stopped nor refused is served, or waits *)
(* to be restored, through any number of losses of the session.                *)
THEOREM ForwardsRestoredHolds == ForwardSpec => []ForwardsRestored
<1>1. ForwardInv => ForwardsRestored
  BY DEF ForwardInv
<1> QED  BY <1>1, ForwardInvariance, PTL

-------------------------------------------------------------------------------
(* The remote file.                                                            *)

(* The registry and the tab agree, while both know the file.                   *)
ShownIsBaseline == view # Gone /\ baseline # Gone => view = baseline

(* A save knows of the content it set aside, and sets aside what was there.    *)
AsideIsKnown ==
    saving # Gone =>
        /\ saving.at \in {"aside", "restore", "discard"} => saving.existed
        /\ saving.at \in {"place", "restore", "discard"} /\ saving.existed =>
               saving.moved \in Contents

(* The backup is removed only when the target has been placed.                 *)
PlacedBeforeDiscard ==
    saving # Gone /\ saving.at = "discard" =>
        file[saving.base.of] # Gone \/ saving.base.of \in removed

(* A save begins with what its tab shows, and what it compared stays as it was *)
(* until it is replaced or another program comes in between.                   *)
ComparedIsBase ==
    saving # Gone =>
        /\ saving.base = saving.knew
        /\ saving.at \in {"temp", "rename", "aside"} /\ ~saving.late =>
               "conflict" \in saving.gates \/ file[saving.base.of] = saving.base.text

SaveInv ==
    /\ SaveTypeOK
    /\ ShownIsBaseline /\ AsideIsKnown /\ PlacedBeforeDiscard /\ ComparedIsBase
    /\ FileNeverVanishes

-------------------------------------------------------------------------------
LEMMA SaveInvInit == SaveInit => SaveInv
<1> SUFFICES ASSUME SaveInit PROVE SaveInv
  OBVIOUS
<1>1. /\ view = Gone /\ baseline = Gone /\ saving = Gone /\ reading = Gone
      /\ asked = {} /\ foreign = 0 /\ removed = {} /\ link \in Files
      /\ backups \in [Files -> SUBSET Contents]
  BY DEF SaveInit
<1>2. /\ file \in [Files -> Contents \cup {Gone}]
      /\ \A f \in Files : file[f] # Gone
  BY RemoteSaveAssumption DEF SaveInit
<1>3. foreign \in 0..MaxForeign
  BY <1>1, RemoteSaveAssumption
<1>4. SaveTypeOK
  BY <1>1, <1>2, <1>3 DEF SaveTypeOK
<1> QED
  BY <1>1, <1>2, <1>4 DEF SaveInv, ShownIsBaseline, AsideIsKnown, PlacedBeforeDiscard,
                          ComparedIsBase, FileNeverVanishes

(* A step that leaves the file alone and whose save, if any, is at a harmless  *)
(* stage.                                                                      *)
LEMMA HarmlessKeeps ==
    ASSUME SaveInv, SaveTypeOK', ShownIsBaseline', UNCHANGED <<file, backups, removed>>,
           saving' = Gone \/ saving' = saving
    PROVE  SaveInv'
BY DEF SaveInv, AsideIsKnown, PlacedBeforeDiscard, ComparedIsBase, FileNeverVanishes

-------------------------------------------------------------------------------
(* Reading.                                                                    *)
LEMMA ViewsKeep ==
    ASSUME SaveInv, View \/ ViewResolved \/ ViewRead \/ ViewFails \/ CloseFile
    PROVE  SaveInv'
<1> USE DEF SaveInv, SaveTypeOK
<1>1. UNCHANGED <<file, backups, removed, link, saving, foreign>>
  BY DEF View, ViewResolved, ViewRead, ViewFails, CloseFile
<1>2. CASE View
  BY <1>1, <1>2, HarmlessKeeps DEF View, Readings, ReadingStages, ShownIsBaseline
<1>3. CASE ViewResolved
  BY <1>1, <1>3, HarmlessKeeps DEF ViewResolved, Readings, ReadingStages, ShownIsBaseline
<1>4. CASE ViewRead
  <2>1. reading \in Readings /\ file[reading.of] \in Contents
    BY <1>4 DEF ViewRead, Readings
  <2>2. baseline' \in Versions /\ view' = baseline' /\ reading' = Gone /\ asked' = asked
    BY <1>4, <2>1 DEF ViewRead, Versions, Readings
  <2> QED  BY <1>1, <2>2, HarmlessKeeps DEF ShownIsBaseline
<1>5. CASE ViewFails
  BY <1>1, <1>5, HarmlessKeeps DEF ViewFails, ShownIsBaseline
<1>6. CASE CloseFile
  BY <1>1, <1>6, HarmlessKeeps DEF CloseFile, ShownIsBaseline
<1> QED  BY <1>2, <1>3, <1>4, <1>5, <1>6

-------------------------------------------------------------------------------
(* A save, up to the point where it touches the file.                          *)
LEMMA SaveBegins ==
    ASSUME SaveInv, NEW text \in Contents, NEW gates \in SUBSET Gates, Save(text, gates)
    PROVE  SaveInv'
<1> USE DEF SaveInv, SaveTypeOK
<1>1. /\ view = baseline /\ baseline \in Versions
      /\ saving' = [at |-> "resolve", text |-> text, gates |-> gates,
                    base |-> baseline, existed |-> TRUE, moved |-> Gone,
                    knew |-> view, late |-> FALSE]
      /\ asked' = {}
      /\ UNCHANGED <<link, file, backups, baseline, view, reading, foreign, removed>>
  BY DEF Save, ShownIsBaseline
<1>2. saving' \in Savings
  BY <1>1 DEF Savings, SavingStages
<1>3. /\ saving'.at = "resolve" /\ saving'.base = saving'.knew
  BY <1>1
<1>4. SaveTypeOK' /\ ShownIsBaseline'
  BY <1>1, <1>2 DEF ShownIsBaseline
<1>5. AsideIsKnown' /\ PlacedBeforeDiscard' /\ ComparedIsBase' /\ FileNeverVanishes'
  BY <1>1, <1>3 DEF AsideIsKnown, PlacedBeforeDiscard, ComparedIsBase, FileNeverVanishes
<1> QED  BY <1>4, <1>5

(* A save that moves on by one stage, or gives up.                             *)
Moves(stage) ==
    /\ saving # Gone
    /\ saving' = [saving EXCEPT !.at = stage]

LEMMA MovesType ==
    ASSUME SaveInv, NEW stage \in SavingStages, Moves(stage)
    PROVE  /\ saving' \in Savings /\ saving'.at = stage
           /\ saving'.base = saving.base /\ saving'.knew = saving.knew
           /\ saving'.gates = saving.gates /\ saving'.existed = saving.existed
           /\ saving'.moved = saving.moved /\ saving'.late = saving.late
           /\ saving'.text = saving.text
BY DEF SaveInv, SaveTypeOK, Moves, Savings

LEMMA GivesUpKeeps ==
    ASSUME SaveInv, unwritten' = unwritten, saving' = Gone, asked' \in SUBSET Gates
    PROVE  SaveInv'
<1>1. SaveTypeOK' /\ ShownIsBaseline'
  BY DEF SaveInv, SaveTypeOK, ShownIsBaseline, unwritten, unsaved, stored
<1> QED  BY <1>1, HarmlessKeeps DEF unwritten, unsaved, stored

LEMMA AskKeeps ==
    ASSUME SaveInv, saving # Gone, NEW gate \in Gates, Ask(gate), unwritten' = unwritten
    PROVE  SaveInv'
<1>1. saving.gates \cup {gate} \in SUBSET Gates
  BY DEF SaveInv, SaveTypeOK, Savings
<1> QED  BY <1>1, GivesUpKeeps DEF Ask

LEMMA ThrowKeeps ==
    ASSUME SaveInv, Throw, unwritten' = unwritten
    PROVE  SaveInv'
<1>1. asked' \in SUBSET Gates
  BY DEF Throw, SaveInv, SaveTypeOK
<1> QED  BY <1>1, GivesUpKeeps DEF Throw

(* From resolve to rename: what is compared is noted.                          *)
LEMMA ProceedKeeps ==
    ASSUME SaveInv, NEW stage \in SavingStages, Moves(stage),
           UNCHANGED <<asked, unwritten>>,
           stage \notin {"aside", "restore", "discard", "place"},
           stage \in {"temp", "rename"} =>
               \/ saving.at \in {"temp", "rename"}
               \/ file[saving.base.of] = saving.base.text
    PROVE  SaveInv'
<1>1. /\ saving' \in Savings /\ saving'.at = stage
      /\ saving'.base = saving.base /\ saving'.knew = saving.knew
      /\ saving'.gates = saving.gates /\ saving'.late = saving.late
  BY MovesType
<1>2. UNCHANGED <<file, backups, removed, link, baseline, view, reading, foreign>>
  BY DEF unwritten, unsaved, stored
<1>3. SaveTypeOK' /\ ShownIsBaseline' /\ FileNeverVanishes'
  BY <1>1, <1>2 DEF SaveInv, SaveTypeOK, ShownIsBaseline, FileNeverVanishes
<1>4. AsideIsKnown' /\ PlacedBeforeDiscard'
  BY <1>1 DEF AsideIsKnown, PlacedBeforeDiscard
<1>5. ComparedIsBase'
  BY <1>1, <1>2 DEF SaveInv, ComparedIsBase, Moves
<1> QED  BY <1>3, <1>4, <1>5 DEF SaveInv

LEMMA ChecksKeep ==
    ASSUME SaveInv, SaveResolved \/ SaveCompare \/ SaveTemp \/ SaveFails
    PROVE  SaveInv'
<1> USE DEF SavingStages, Gates, Proceed, Moves, Doing
<1>1. CASE SaveResolved
  BY <1>1, ProceedKeeps, ThrowKeeps DEF SaveResolved
<1>2. CASE SaveCompare
  BY <1>2, ProceedKeeps, AskKeeps DEF SaveCompare
<1>3. CASE SaveTemp
  BY <1>3, ProceedKeeps, AskKeeps DEF SaveTemp
<1>4. CASE SaveFails
  BY <1>4, ThrowKeeps DEF SaveFails
<1> QED  BY <1>1, <1>2, <1>3, <1>4

LEMMA StatKeeps ==
    ASSUME SaveInv, SaveStat
    PROVE  SaveInv'
<1> USE DEF SavingStages, Gates, Proceed, Moves, Doing
<1>1. saving # Gone /\ UNCHANGED unwritten
  BY DEF SaveStat
<1>2. CASE "conflict" \in saving.gates
  <2> DEFINE there == file[saving.base.of] # Gone
  <2>1. saving' = [saving EXCEPT !.at = "temp", !.existed = there] /\ asked' = asked
    BY <1>2 DEF SaveStat
  <2>2. /\ saving' \in Savings /\ saving'.at = "temp"
        /\ saving'.base = saving.base /\ saving'.knew = saving.knew
        /\ saving'.gates = saving.gates
    BY <1>1, <2>1 DEF SaveInv, SaveTypeOK, Savings
  <2>3. UNCHANGED <<file, backups, removed, link, baseline, view, reading, foreign>>
    BY <1>1 DEF unwritten, unsaved, stored
  <2>4. SaveTypeOK' /\ ShownIsBaseline' /\ FileNeverVanishes'
    BY <2>1, <2>2, <2>3 DEF SaveInv, SaveTypeOK, ShownIsBaseline, FileNeverVanishes
  <2>5. AsideIsKnown' /\ PlacedBeforeDiscard' /\ ComparedIsBase'
    BY <1>1, <1>2, <2>2 DEF AsideIsKnown, PlacedBeforeDiscard, ComparedIsBase, SaveInv
  <2> QED  BY <2>4, <2>5 DEF SaveInv
<1>3. CASE "conflict" \notin saving.gates
  BY <1>1, <1>3, ProceedKeeps, AskKeeps DEF SaveStat
<1> QED  BY <1>2, <1>3

-------------------------------------------------------------------------------
(* What requests do to the files: none makes a content vanish.                 *)
LEMMA ReplaceKeeps ==
    ASSUME SaveInv, saving # Gone, Replace
    PROVE  /\ file' \in [Files -> Contents \cup {Gone}] /\ file'[saving.base.of] # Gone
           /\ backups' \in [Files -> SUBSET Contents] /\ removed' \subseteq Files
           /\ FileNeverVanishes'
<1>1. saving.base.of \in Files /\ saving.text \in Contents
  BY DEF SaveInv, SaveTypeOK, Savings, Versions
<1> QED
  BY <1>1, RemoteSaveAssumption DEF Replace, SaveInv, SaveTypeOK, FileNeverVanishes

LEMMA SetAsideKeeps ==
    ASSUME SaveInv, saving # Gone, SetAside
    PROVE  /\ file' \in [Files -> Contents \cup {Gone}]
           /\ backups' \in [Files -> SUBSET Contents] /\ removed' \subseteq Files
           /\ FileNeverVanishes'
<1>1. saving.base.of \in Files /\ file[saving.base.of] \in Contents
  BY DEF SetAside, SaveInv, SaveTypeOK, Savings, Versions
<1> QED  BY <1>1 DEF SetAside, SaveInv, SaveTypeOK, FileNeverVanishes

LEMMA PutBackKeeps ==
    ASSUME SaveInv, Doing("restore"), PutBack
    PROVE  /\ file' \in [Files -> Contents \cup {Gone}]
           /\ backups' \in [Files -> SUBSET Contents] /\ removed' \subseteq Files
           /\ FileNeverVanishes'
<1>1. saving.base.of \in Files /\ saving.moved \in Contents
  BY DEF Doing, AsideIsKnown, SaveInv, SaveTypeOK, Savings, Versions
<1> QED
  BY <1>1, RemoteSaveAssumption DEF PutBack, SaveInv, SaveTypeOK, FileNeverVanishes

LEMMA DiscardKeeps ==
    ASSUME SaveInv, Doing("discard"), Discard
    PROVE  /\ file' \in [Files -> Contents \cup {Gone}]
           /\ backups' \in [Files -> SUBSET Contents] /\ removed' \subseteq Files
           /\ FileNeverVanishes'
<1>1. saving.base.of \in Files
  BY DEF Doing, SaveInv, SaveTypeOK, Savings, Versions
<1>2. file[saving.base.of] # Gone \/ saving.base.of \in removed
  BY DEF Doing, SaveInv, PlacedBeforeDiscard
<1> QED
  BY <1>1, <1>2 DEF Discard, SaveInv, SaveTypeOK, FileNeverVanishes

(* A save that has touched the file, or gives up there.                        *)
LEMMA TouchedKeeps ==
    ASSUME SaveInv, saving # Gone,
           file' \in [Files -> Contents \cup {Gone}],
           backups' \in [Files -> SUBSET Contents], removed' \subseteq Files,
           FileNeverVanishes', UNCHANGED <<asked, unsaved>>,
           \/ saving' = Gone
           \/ \E stage \in {"place", "restore", "discard", "confirm"} :
                  /\ Moves(stage)
                  /\ stage # "confirm" /\ saving.existed => saving.moved \in Contents
                  /\ stage \in {"restore", "discard"} => saving.existed
                  /\ stage = "discard" => file'[saving.base.of] # Gone
    PROVE  SaveInv'
<1>1. UNCHANGED <<asked, link, baseline, view, reading, foreign>>
  BY DEF unsaved
<1>2. CASE saving' = Gone
  BY <1>1, <1>2 DEF SaveInv, SaveTypeOK, ShownIsBaseline, AsideIsKnown,
                    PlacedBeforeDiscard, ComparedIsBase
<1>3. ASSUME NEW stage \in {"place", "restore", "discard", "confirm"}, Moves(stage),
             stage # "confirm" /\ saving.existed => saving.moved \in Contents,
             stage \in {"restore", "discard"} => saving.existed,
             stage = "discard" => file'[saving.base.of] # Gone
      PROVE  SaveInv'
  <2>1. /\ saving' \in Savings /\ saving'.at = stage
        /\ saving'.base = saving.base /\ saving'.knew = saving.knew
        /\ saving'.existed = saving.existed /\ saving'.moved = saving.moved
    BY <1>3, MovesType DEF SavingStages
  <2>2. SaveTypeOK' /\ ShownIsBaseline'
    BY <1>1, <2>1 DEF SaveInv, SaveTypeOK, ShownIsBaseline
  <2>3. AsideIsKnown' /\ PlacedBeforeDiscard'
    BY <1>3, <2>1 DEF AsideIsKnown, PlacedBeforeDiscard
  <2>4. ComparedIsBase'
    BY <1>3, <2>1 DEF SaveInv, ComparedIsBase
  <2> QED  BY <2>2, <2>3, <2>4 DEF SaveInv
<1> QED  BY <1>2, <1>3

LEMMA RenamesKeep ==
    ASSUME SaveInv, SaveRename \/ SavePlace \/ SaveDiscard \/ SaveRestore \/ SavePlaceFails
    PROVE  SaveInv'
<1> USE DEF Doing, Proceed, Moves
<1>0. /\ file \in [Files -> Contents \cup {Gone}]
      /\ backups \in [Files -> SUBSET Contents] /\ removed \subseteq Files
  BY DEF SaveInv, SaveTypeOK
<1>1. CASE SaveRename
  BY <1>1, ReplaceKeeps, TouchedKeeps DEF SaveRename
<1>2. CASE SavePlace
  BY <1>2, ReplaceKeeps, TouchedKeeps DEF SavePlace, SaveInv, AsideIsKnown
<1>3. CASE SaveDiscard
  <2>1. CASE Discard
    BY <1>3, <2>1, DiscardKeeps, TouchedKeeps DEF SaveDiscard
  <2>2. CASE UNCHANGED stored
    <3>1. FileNeverVanishes'
      BY <2>2 DEF SaveInv, FileNeverVanishes, stored
    <3> QED  BY <1>0, <1>3, <2>2, <3>1, TouchedKeeps DEF SaveDiscard, stored
  <2> QED  BY <1>3, <2>1, <2>2 DEF SaveDiscard
<1>4. CASE SaveRestore
  <2>1. CASE PutBack
    BY <1>4, <2>1, PutBackKeeps, TouchedKeeps DEF SaveRestore, Throw
  <2>2. CASE UNCHANGED stored
    <3>1. FileNeverVanishes'
      BY <2>2 DEF SaveInv, FileNeverVanishes, stored
    <3> QED  BY <1>0, <1>4, <2>2, <3>1, TouchedKeeps DEF SaveRestore, Throw, stored
  <2> QED  BY <1>4, <2>1, <2>2 DEF SaveRestore
<1>5. CASE SavePlaceFails
  <2>1. saving # Gone /\ UNCHANGED <<unwritten, asked>>
    BY <1>5 DEF SavePlaceFails, Throw
  <2>2. FileNeverVanishes'
    BY <2>1 DEF SaveInv, FileNeverVanishes, unwritten, stored
  <2>3. saving.at = "place" /\ (saving.existed => saving.moved \in Contents)
    BY <1>5 DEF SavePlaceFails, SaveInv, AsideIsKnown
  <2>4. \/ saving' = Gone
        \/ saving.existed /\ saving' = [saving EXCEPT !.at = "restore"]
    BY <1>5 DEF SavePlaceFails, Throw
  <2> QED
    BY <1>0, <2>1, <2>2, <2>3, <2>4, TouchedKeeps DEF unwritten, stored
<1> QED  BY <1>1, <1>2, <1>3, <1>4, <1>5

(* Before the target is replaced without an atomic rename it is set aside.     *)
LEMMA AsideKeeps ==
    ASSUME SaveInv, SaveRenameUnsupported \/ SaveAside
    PROVE  SaveInv'
<1> USE DEF Doing, Proceed
<1>0. saving # Gone
  BY DEF SaveRenameUnsupported, SaveAside
<1>1. CASE SaveRenameUnsupported
  <2>1. UNCHANGED unwritten /\ saving.at = "rename"
    BY <1>1 DEF SaveRenameUnsupported
  <2>2. CASE "nonAtomic" \notin saving.gates
    BY <1>0, <1>1, <2>1, <2>2, AskKeeps DEF SaveRenameUnsupported, Gates
  <2>3. CASE "nonAtomic" \in saving.gates
    <3> DEFINE stage == IF saving.existed THEN "aside" ELSE "place"
    <3>1. Moves(stage) /\ asked' = asked /\ stage \in SavingStages
      BY <1>0, <1>1, <2>3 DEF SaveRenameUnsupported, Moves, SavingStages
    <3>2. /\ saving' \in Savings /\ saving'.at = stage
          /\ saving'.base = saving.base /\ saving'.knew = saving.knew
          /\ saving'.gates = saving.gates /\ saving'.late = saving.late
          /\ saving'.existed = saving.existed /\ saving'.moved = saving.moved
      BY <3>1, MovesType
    <3>3. UNCHANGED <<file, backups, removed, link, baseline, view, reading, foreign>>
      BY <2>1 DEF unwritten, unsaved, stored
    <3>4. SaveTypeOK' /\ ShownIsBaseline' /\ FileNeverVanishes'
      BY <3>1, <3>2, <3>3 DEF SaveInv, SaveTypeOK, ShownIsBaseline, FileNeverVanishes
    <3>5. AsideIsKnown' /\ PlacedBeforeDiscard'
      BY <3>2 DEF AsideIsKnown, PlacedBeforeDiscard
    <3>6. ComparedIsBase'
      BY <1>0, <2>1, <3>2, <3>3 DEF SaveInv, ComparedIsBase
    <3> QED  BY <3>4, <3>5, <3>6 DEF SaveInv
  <2> QED  BY <2>2, <2>3
<1>2. CASE SaveAside
  <2>1. /\ saving.existed /\ saving \in Savings
        /\ file[saving.base.of] \in Contents
    BY <1>0, <1>2 DEF SaveAside, SetAside, SaveInv, AsideIsKnown, SaveTypeOK, Savings, Versions
  <2>2. /\ saving' = [saving EXCEPT !.at = "place", !.moved = file[saving.base.of]]
        /\ SetAside /\ UNCHANGED <<asked, unsaved>>
    BY <1>2 DEF SaveAside
  <2>3. /\ saving' \in Savings /\ saving'.at = "place"
        /\ saving'.base = saving.base /\ saving'.knew = saving.knew
        /\ saving'.moved \in Contents
    BY <2>1, <2>2 DEF Savings, SavingStages
  <2>4. SaveTypeOK' /\ ShownIsBaseline' /\ FileNeverVanishes'
    BY <1>0, <2>2, <2>3, SetAsideKeeps DEF SaveInv, SaveTypeOK, ShownIsBaseline, unsaved
  <2>5. AsideIsKnown' /\ PlacedBeforeDiscard' /\ ComparedIsBase'
    BY <1>0, <2>3 DEF AsideIsKnown, PlacedBeforeDiscard, ComparedIsBase, SaveInv
  <2> QED  BY <2>4, <2>5 DEF SaveInv
<1> QED  BY <1>1, <1>2

LEMMA ConfirmedKeeps ==
    ASSUME SaveInv, SaveConfirmed
    PROVE  SaveInv'
<1>1. /\ saving # Gone /\ saving' = Gone /\ asked' = asked
      /\ UNCHANGED <<link, reading, foreign, file, backups, removed>>
      /\ baseline' = [of |-> saving.base.of, text |-> saving.text]
      /\ view' = IF view = Gone THEN Gone ELSE baseline'
  BY DEF SaveConfirmed, Doing, Throw, stored
<1>2. baseline' \in Versions
  BY <1>1 DEF SaveInv, SaveTypeOK, Savings, Versions
<1>3. SaveTypeOK' /\ ShownIsBaseline'
  BY <1>1, <1>2 DEF SaveInv, SaveTypeOK, ShownIsBaseline
<1> QED  BY <1>1, <1>3, HarmlessKeeps

-------------------------------------------------------------------------------
(* Other programs: their changes are noted, in the save and in removed.        *)
LEMMA ChangeKeeps ==
    ASSUME SaveInv, NEW f \in Files, NEW content \in Contents \cup {Gone},
           Change(f, content)
    PROVE  SaveInv'
<1>1. /\ foreign' = foreign + 1 /\ foreign < MaxForeign
      /\ file' = [file EXCEPT ![f] = content]
      /\ removed' = IF content = Gone THEN removed \cup {f} ELSE removed \ {f}
      /\ saving' = IF Compared THEN [saving EXCEPT !.late = TRUE] ELSE saving
      /\ UNCHANGED <<link, backups, baseline, view, reading, asked>>
  BY DEF Change
<1>2. /\ file \in [Files -> Contents \cup {Gone}] /\ saving \in Savings \cup {Gone}
      /\ foreign' \in 0..MaxForeign
  BY <1>1, RemoteSaveAssumption DEF SaveInv, SaveTypeOK
<1>3. /\ saving' \in Savings \cup {Gone}
      /\ saving' # Gone =>
             /\ saving # Gone
             /\ saving'.at = saving.at /\ saving'.base = saving.base
             /\ saving'.knew = saving.knew /\ saving'.gates = saving.gates
             /\ saving'.existed = saving.existed /\ saving'.moved = saving.moved
             /\ saving.at \in {"temp", "rename", "aside"} => saving'.late
  <2>1. CASE Compared
    <3>1. saving \in Savings /\ saving # Gone
      BY <1>2, <2>1 DEF Compared
    <3>2. saving' = [saving EXCEPT !.late = TRUE]
      BY <1>1, <2>1
    <3>3. saving' \in Savings
      BY <3>1, <3>2 DEF Savings
    <3> QED  BY <3>1, <3>2, <3>3 DEF Savings
  <2>2. CASE ~Compared
    BY <1>1, <1>2, <2>2 DEF Compared
  <2> QED  BY <2>1, <2>2
<1>4. SaveTypeOK' /\ ShownIsBaseline'
  BY <1>1, <1>2, <1>3 DEF SaveInv, SaveTypeOK, ShownIsBaseline
<1>5. AsideIsKnown' /\ ComparedIsBase'
  BY <1>3 DEF SaveInv, AsideIsKnown, ComparedIsBase
<1>6. PlacedBeforeDiscard'
  BY <1>1, <1>2, <1>3 DEF SaveInv, PlacedBeforeDiscard, Savings, Versions
<1>7. FileNeverVanishes'
  BY <1>1, <1>2 DEF SaveInv, FileNeverVanishes
<1> QED  BY <1>4, <1>5, <1>6, <1>7 DEF SaveInv

LEMMA RetargetKeeps ==
    ASSUME SaveInv, NEW f \in Files, Retarget(f)
    PROVE  SaveInv'
<1>1. foreign' \in 0..MaxForeign
  BY RemoteSaveAssumption DEF Retarget, SaveInv, SaveTypeOK
<1>2. SaveTypeOK' /\ ShownIsBaseline'
  BY <1>1 DEF Retarget, SaveInv, SaveTypeOK, ShownIsBaseline
<1> QED  BY <1>2, HarmlessKeeps DEF Retarget

(* The connection is lost: whatever the last request did is kept.              *)
LEMMA RejectedKeeps ==
    ASSUME SaveInv, ChannelLost \/ BaselinesForgotten
    PROVE  SaveInv'
<1> USE DEF Doing
<1>1. /\ saving' = Gone /\ reading' = Gone /\ view' \in {view, Gone}
      /\ baseline' \in {baseline, Gone} /\ UNCHANGED <<link, asked, foreign>>
      /\ Rejected
  BY DEF ChannelLost, BaselinesForgotten, Rejected
<1>2. /\ file' \in [Files -> Contents \cup {Gone}]
      /\ backups' \in [Files -> SUBSET Contents] /\ removed' \subseteq Files
      /\ FileNeverVanishes'
  <2>1. CASE UNCHANGED stored
    BY <2>1 DEF stored, SaveInv, SaveTypeOK, FileNeverVanishes
  <2>2. CASE ~UNCHANGED stored
    BY <1>1, <2>2, ReplaceKeeps, SetAsideKeeps, PutBackKeeps, DiscardKeeps DEF Rejected
  <2> QED  BY <2>1, <2>2
<1>3. SaveTypeOK' /\ ShownIsBaseline'
  BY <1>1, <1>2 DEF SaveInv, SaveTypeOK, ShownIsBaseline
<1> QED
  BY <1>1, <1>2, <1>3 DEF SaveInv, AsideIsKnown, PlacedBeforeDiscard, ComparedIsBase

LEMMA StutterKeeps ==
    ASSUME SaveInv, UNCHANGED saveVars
    PROVE  SaveInv'
BY DEF saveVars, SaveInv, SaveTypeOK, ShownIsBaseline, AsideIsKnown,
       PlacedBeforeDiscard, ComparedIsBase, FileNeverVanishes

LEMMA SaveInvStep == SaveInv /\ [SaveNext]_<<sessionVars, saveVars>> => SaveInv'
<1> SUFFICES ASSUME SaveInv, [SaveNext]_<<sessionVars, saveVars>> PROVE SaveInv'
  OBVIOUS
<1>1. CASE SaveStep
  BY <1>1, ViewsKeep, SaveBegins, ChecksKeep, StatKeeps, RenamesKeep, AsideKeeps,
     ConfirmedKeeps DEF SaveStep
<1>2. CASE ForeignStep
  BY <1>2, ChangeKeeps, RetargetKeeps DEF ForeignStep
<1>3. CASE EditedSession
  BY <1>3, StutterKeeps, RejectedKeeps DEF EditedSession
<1>4. CASE UNCHANGED saveVars
  BY <1>4, StutterKeeps
<1> QED  BY <1>1, <1>2, <1>3, <1>4 DEF SaveNext

-------------------------------------------------------------------------------
(* The inductive invariant holds of a session with its editor.                 *)
THEOREM SaveInvariance == SaveSpec => []SaveInv
<1>1. SessionInit /\ SaveInit => SaveInv
  BY SaveInvInit
<1> QED  BY <1>1, SaveInvStep, PTL DEF SaveSpec

(* The editor's state keeps its type.                                          *)
THEOREM SaveTypeCorrect == SaveSpec => []SaveTypeOK
<1>1. SaveInv => SaveTypeOK
  BY DEF SaveInv
<1> QED  BY <1>1, SaveInvariance, PTL

(* A file does not vanish: wherever a save fails or loses its connection, the  *)
(* target, unless another program removed it, exists or is in a backup.        *)
THEOREM FileNeverVanishesHolds == SaveSpec => []FileNeverVanishes
<1>1. SaveInv => FileNeverVanishes
  BY DEF SaveInv
<1> QED  BY <1>1, SaveInvariance, PTL

(* What a save takes away is what its tab was showing.                         *)
LEMMA SaveInvComparesLast ==
    SaveInv => (Overwrites /\ "conflict" \notin saving.gates /\ ~saving.late
         => [of |-> saving.base.of, text |-> file[saving.base.of]] = saving.knew)
<1>1. ASSUME SaveInv, Overwrites, "conflict" \notin saving.gates, ~saving.late
      PROVE  [of |-> saving.base.of, text |-> file[saving.base.of]] = saving.knew
  <2>1. saving # Gone /\ saving.at \in {"rename", "aside"}
    BY <1>1 DEF Overwrites, Doing
  <2>2. saving.base = saving.knew /\ file[saving.base.of] = saving.base.text
    BY <1>1, <2>1 DEF SaveInv, ComparedIsBase
  <2>3. saving.base \in Versions
    BY <1>1, <2>1 DEF SaveInv, SaveTypeOK, Savings
  <2> QED  BY <2>2, <2>3 DEF Versions
<1> QED  BY <1>1

(* No silent overwrite: unless the user confirmed the conflict, a save         *)
(* replaces only the very file and content its tab was showing when it was     *)
(* asked for.                                                                  *)
THEOREM NoLostUpdateHolds == SaveSpec => NoLostUpdate
BY SaveInvComparesLast, SaveInvariance, PTL DEF NoLostUpdate

-------------------------------------------------------------------------------
(* The terminal tab.                                                           *)

(* What a queue of messages says of the session: nothing, or x in the end.     *)
SilentIn(q) == \A k \in DOMAIN q : q[k].kind # "state"
Tells(q, x) ==
    \E k \in DOMAIN q : /\ q[k].kind = "state" /\ q[k].state = x
                        /\ \A j \in DOMAIN q : j > k => q[j].kind # "state"

(* The window's word for the state of the session.                             *)
Shows(x) == x = state \/ (x = "connecting" /\ state = "authenticating")

(* What the window has been told: it is on the tab, or, as long as the reply   *)
(* of session:open is not claimed, kept aside.                                 *)
ShowsTruth ==
    IF claimed THEN Shows(tabState) \/ tabState = "closed"
    ELSE IF unclaimed = "none" THEN openReply # "resolved" ELSE Shows(unclaimed)

TruthUnderWay ==
    tabOpen /\ calls = {} =>
        \/ \E x : Tells(mail, x) /\ Shows(x)
        \/ SilentIn(mail) /\ ShowsTruth

MailIsQueue == \E S : mail \in Seq(S)

TabInv ==
    /\ MailIsQueue
    /\ state # "none"
    /\ claimed => openReply = "taken"
    /\ tabOpen => "close" \notin calls
    /\ TruthUnderWay

-------------------------------------------------------------------------------
LEMMA JoinedTells ==
    ASSUME NEW S, NEW q \in Seq(S), NEW r \in Seq(S)
    PROVE  /\ q \o r \in Seq(S)
           /\ SilentIn(q) /\ SilentIn(r) => SilentIn(q \o r)
           /\ \A x : Tells(q, x) /\ SilentIn(r) => Tells(q \o r, x)
           /\ \A x : Tells(r, x) => Tells(q \o r, x)
<1> DEFINE u == q \o r
<1>1. /\ Len(q) \in Nat /\ Len(r) \in Nat /\ DOMAIN q = 1..Len(q) /\ DOMAIN r = 1..Len(r)
      /\ u \in Seq(S) /\ DOMAIN u = 1..(Len(q) + Len(r))
      /\ \A i \in 1..Len(q) : u[i] = q[i] /\ i \in 1..(Len(q) + Len(r))
      /\ \A i \in 1..Len(r) : u[Len(q) + i] = r[i] /\ Len(q) + i \in 1..(Len(q) + Len(r))
  OBVIOUS
<1>2. \A i \in 1..(Len(q) + Len(r)) :
          i \in 1..Len(q) \/ \E j \in 1..Len(r) : i = Len(q) + j
  <2>1. ASSUME NEW i \in 1..(Len(q) + Len(r)), i \notin 1..Len(q)
        PROVE  i - Len(q) \in 1..Len(r) /\ i = Len(q) + (i - Len(q))
    BY <1>1, <2>1
  <2> QED  BY <2>1
<1> HIDE DEF u
<1>0. ASSUME SilentIn(r), NEW i \in 1..(Len(q) + Len(r)), i \notin 1..Len(q)
      PROVE  u[i].kind # "state"
  <2>1. PICK j \in 1..Len(r) : i = Len(q) + j
    BY <1>0, <1>2
  <2> QED  BY <1>0, <1>1, <2>1 DEF SilentIn
<1>3. ASSUME SilentIn(q), SilentIn(r) PROVE SilentIn(u)
  <2>1. ASSUME NEW i \in 1..(Len(q) + Len(r)) PROVE u[i].kind # "state"
    <3>1. CASE i \in 1..Len(q)
      BY <1>1, <1>3, <3>1 DEF SilentIn
    <3> QED  BY <1>0, <1>3, <3>1
  <2> QED  BY <1>1, <2>1 DEF SilentIn
<1>4. ASSUME NEW x, Tells(q, x), SilentIn(r) PROVE Tells(u, x)
  <2>1. PICK k \in 1..Len(q) : /\ q[k].kind = "state" /\ q[k].state = x
                               /\ \A j \in 1..Len(q) : j > k => q[j].kind # "state"
    BY <1>1, <1>4 DEF Tells
  <2>2. \A j \in 1..(Len(q) + Len(r)) : j > k => u[j].kind # "state"
    <3>1. ASSUME NEW j \in 1..(Len(q) + Len(r)), j > k PROVE u[j].kind # "state"
      <4>1. CASE j \in 1..Len(q)
        BY <1>1, <2>1, <3>1, <4>1
      <4> QED  BY <1>0, <1>4, <4>1
    <3> QED  BY <3>1
  <2> QED  BY <1>1, <2>1, <2>2 DEF Tells
<1>5. ASSUME NEW x, Tells(r, x) PROVE Tells(u, x)
  <2>1. PICK k \in 1..Len(r) : /\ r[k].kind = "state" /\ r[k].state = x
                               /\ \A j \in 1..Len(r) : j > k => r[j].kind # "state"
    BY <1>1, <1>5 DEF Tells
  <2>2. ASSUME NEW j \in 1..(Len(q) + Len(r)), j > Len(q) + k PROVE u[j].kind # "state"
    <3>1. j \notin 1..Len(q)
      BY <1>1, <2>2
    <3>2. PICK i \in 1..Len(r) : j = Len(q) + i
      BY <1>2, <3>1
    <3>3. i > k
      BY <1>1, <2>2, <3>2
    <3> QED  BY <1>1, <2>1, <3>2, <3>3
  <2>3. Len(q) + k \in DOMAIN u /\ u[Len(q) + k] = r[k]
    BY <1>1
  <2> QED  BY <1>1, <2>1, <2>2, <2>3 DEF Tells
<1> QED  BY <1>1, <1>3, <1>4, <1>5 DEF u

LEMMA TailTells ==
    ASSUME NEW S, NEW q \in Seq(S), q # <<>>
    PROVE  /\ Tail(q) \in Seq(S)
           /\ SilentIn(q) => SilentIn(Tail(q)) /\ q[1].kind # "state"
           /\ \A x : Tells(q, x) =>
                  \/ Tells(Tail(q), x)
                  \/ SilentIn(Tail(q)) /\ q[1].kind = "state" /\ q[1].state = x
<1> DEFINE t == Tail(q)
<1>1. /\ Len(q) \in Nat \ {0} /\ DOMAIN q = 1..Len(q) /\ t \in Seq(S)
      /\ DOMAIN t = 1..(Len(q) - 1)
      /\ \A i \in 1..(Len(q) - 1) : t[i] = q[i + 1] /\ i + 1 \in 1..Len(q)
  OBVIOUS
<1> HIDE DEF t
<1>2. SilentIn(q) => SilentIn(t) /\ q[1].kind # "state"
  BY <1>1 DEF SilentIn
<1>3. ASSUME NEW x, Tells(q, x)
      PROVE  Tells(t, x) \/ (SilentIn(t) /\ q[1].kind = "state" /\ q[1].state = x)
  <2>1. PICK k \in 1..Len(q) : /\ q[k].kind = "state" /\ q[k].state = x
                               /\ \A j \in 1..Len(q) : j > k => q[j].kind # "state"
    BY <1>1, <1>3 DEF Tells
  <2>2. CASE k = 1
    BY <1>1, <2>1, <2>2 DEF SilentIn
  <2>3. CASE k # 1
    <3>1. k - 1 \in 1..(Len(q) - 1) /\ t[k - 1] = q[k]
      <4>1. k - 1 \in 1..(Len(q) - 1) /\ (k - 1) + 1 = k
        BY <1>1, <2>3
      <4> QED  BY <1>1, <4>1
    <3>2. \A j \in 1..(Len(q) - 1) : j > k - 1 => t[j].kind # "state"
      BY <1>1, <2>1
    <3> QED  BY <1>1, <2>1, <3>1, <3>2 DEF Tells
  <2> QED  BY <2>2, <2>3
<1> QED  BY <1>1, <1>2, <1>3 DEF t

(* What is posted.                                                             *)
LEMMA Posts ==
    ASSUME MailIsQueue, NEW S, NEW m \in Seq(S), Post(m)
    PROVE  /\ MailIsQueue'
           /\ SilentIn(mail) /\ SilentIn(m) => SilentIn(mail')
           /\ \A x : Tells(mail, x) /\ SilentIn(m) => Tells(mail', x)
           /\ \A x : Tells(m, x) => Tells(mail', x)
<1> PICK T : mail \in Seq(T)
  BY DEF MailIsQueue
<1>1. mail \in Seq(S \cup T) /\ m \in Seq(S \cup T) /\ mail' = mail \o m
  BY DEF Post
<1>2. /\ mail \o m \in Seq(S \cup T)
      /\ SilentIn(mail) /\ SilentIn(m) => SilentIn(mail \o m)
      /\ \A x : Tells(mail, x) /\ SilentIn(m) => Tells(mail \o m, x)
      /\ \A x : Tells(m, x) => Tells(mail \o m, x)
  BY <1>1, JoinedTells
<1> QED  BY <1>1, <1>2 DEF MailIsQueue

(* The state comes last of what is posted with it.                             *)
LEMMA StateComesLast ==
    ASSUME NEW S, NEW e \in Seq(S), NEW x
    PROVE  /\ \E T : Append(e, StateEvent(x)) \in Seq(T)
           /\ Tells(Append(e, StateEvent(x)), x)
           /\ \E T : <<StateEvent(x)>> \in Seq(T)
           /\ Tells(<<StateEvent(x)>>, x)
<1> DEFINE m == StateEvent(x)
           u == Append(e, m)
<1>1. m.kind = "state" /\ m.state = x
  BY DEF StateEvent
<1> HIDE DEF m
<1>2. e \in Seq(S \cup {m}) /\ Len(e) \in Nat
  OBVIOUS
<1>3. /\ u \in Seq(S \cup {m}) /\ DOMAIN u = 1..(Len(e) + 1) /\ u[Len(e) + 1] = m
      /\ Len(e) + 1 \in 1..(Len(e) + 1)
  BY <1>2
<1>4. <<m>> \in Seq({m}) /\ DOMAIN <<m>> = {1} /\ <<m>>[1] = m
  OBVIOUS
<1> HIDE DEF u
<1>5. \A j \in 1..(Len(e) + 1) : ~(j > Len(e) + 1)
  BY <1>2
<1>6. Tells(u, x)
  BY <1>1, <1>3, <1>5 DEF Tells
<1>7. Tells(<<m>>, x)
  BY <1>1, <1>4 DEF Tells
<1> QED  BY <1>3, <1>4, <1>6, <1>7 DEF u, m

(* The ends of the shells are told one after the other.                        *)
LEMMA ExitsAreQueue == \A r : \E S : Exits(r) \in Seq(S)
<1> TAKE r
<1> DEFINE n == Cardinality(Shells)
           s == SetToSeq(Shells)
<1>1. IsFiniteSet(Shells)
  <2>1. IsFiniteSet(Terms) /\ Shells \in SUBSET Terms
    BY TermTabAssumption, FS_Interval DEF Terms, Shells
  <2> QED  BY <2>1, FS_Subset
<1>2. n \in Nat /\ ExistsBijection(1..n, Shells)
  BY <1>1, FS_CardinalityType
<1>3. PICK f : f \in Bijection(1..n, Shells)
  BY <1>2 DEF ExistsBijection
<1>4. f \in [1..n -> Shells] /\ IsInjective(f)
  BY <1>3 DEF Bijection, Injection, IsInjective
<1>5. s \in [1..n -> Shells]
  BY <1>4 DEF SetToSeq
<1> HIDE DEF n, s
<1>6. Exits(r) = [i \in 1..n |-> Exit(s[i], r)]
  BY <1>5 DEF Exits, s
<1>7. Exits(r) \in Seq({Exit(t, r) : t \in Shells})
  BY <1>2, <1>5, <1>6
<1> QED  BY <1>7

-------------------------------------------------------------------------------
(* A step that tells nothing of the session, and leaves it and the tab alone.  *)
LEMMA QuietKeeps ==
    ASSUME TabInv, NEW S, NEW m \in Seq(S), SilentIn(m), Post(m) \/ UNCHANGED mail,
           UNCHANGED <<sessionVars, tabOpen, claimed, tabState, unclaimed, openReply, calls>>
    PROVE  TabInv'
<1>1. /\ MailIsQueue'
      /\ SilentIn(mail) => SilentIn(mail')
      /\ \A x : Tells(mail, x) => Tells(mail', x)
  <2>1. CASE Post(m)
    BY <2>1, Posts DEF TabInv
  <2>2. CASE UNCHANGED mail
    BY <2>2 DEF TabInv, MailIsQueue
  <2> QED  BY <2>1, <2>2
<1>2. /\ \A x : Shows(x) => Shows(x)'
      /\ ShowsTruth => ShowsTruth'
  BY DEF Shows, ShowsTruth, sessionVars
<1> QED  BY <1>1, <1>2 DEF TabInv, TruthUnderWay, sessionVars

(* The window is told the state the session comes to.                          *)
LEMMA ToldKeeps ==
    ASSUME TabInv, NEW x, Shows(x)', state' # "none", NEW S, NEW m \in Seq(S), Tells(m, x), Post(m),
           claimed' = claimed, claimed => openReply' = openReply, tabOpen' = tabOpen,
           calls' \subseteq calls
    PROVE  TabInv'
<1>1. MailIsQueue' /\ Tells(mail', x)
  BY Posts DEF TabInv
<1> QED  BY <1>1 DEF TabInv, TruthUnderWay

(* The session moves on its own.                                               *)
LEMMA SessionKeeps ==
    ASSUME TabInv, SessionSteps
    PROVE  TabInv'
<1>1. UNCHANGED <<tabOpen, claimed, tabState, unclaimed, calls>>
  BY DEF SessionSteps, tabVars, callVars
<1>2. \A x : /\ \E T : <<StateEvent(x)>> \in Seq(T)
             /\ Tells(<<StateEvent(x)>>, x)
             /\ \A r : /\ \E T : Append(Exits(r), StateEvent(x)) \in Seq(T)
                        /\ Tells(Append(Exits(r), StateEvent(x)), x)
  BY ExitsAreQueue, StateComesLast
<1>3. ASSUME NEW x, state' = x, x # "none", claimed => openReply' = openReply,
             \/ Post(<<StateEvent(x)>>)
             \/ \E r : Post(Append(Exits(r), StateEvent(x)))
      PROVE  TabInv'
  <2>1. PICK m : Post(m) /\ Tells(m, x) /\ \E T : m \in Seq(T)
    BY <1>2, <1>3
  <2> QED  BY <1>1, <1>3, <2>1, ToldKeeps DEF Shows
<1>4. CASE SessionStarts
  BY <1>3, <1>4 DEF SessionStarts, Begin
<1>5. CASE SessionAuthenticates
  <2>1. /\ state = "connecting" /\ state' = "authenticating" /\ UNCHANGED <<openReply, mail>>
    BY <1>5 DEF SessionAuthenticates, Authenticate
  <2>2. (\A x : Shows(x) => Shows(x)') /\ (ShowsTruth => ShowsTruth')
    BY <1>1, <2>1 DEF Shows, ShowsTruth
  <2> QED  BY <1>1, <2>1, <2>2 DEF TabInv, TruthUnderWay, MailIsQueue
<1>6. CASE TabSessionReady
  <2>1. claimed => openReply' = openReply
    BY <1>6 DEF TabSessionReady, TabInv
  <2> QED  BY <1>3, <1>6, <2>1 DEF TabSessionReady, Ready
<1>7. CASE TabSessionLost
  BY <1>3, <1>7 DEF TabSessionLost, Lose, GiveUp
<1>8. CASE SessionRefused
  BY <1>3, <1>8 DEF SessionRefused, GiveUp, TabInv
<1>9. CASE SessionRetries
  BY <1>3, <1>9 DEF SessionRetries, Retry
<1> QED  BY <1>4, <1>5, <1>6, <1>7, <1>8, <1>9 DEF SessionSteps

(* A call of the window is served.                                             *)
LEMMA CallsKeep ==
    ASSUME TabInv, SessionCalls
    PROVE  TabInv'
<1>1. UNCHANGED <<tabOpen, claimed, tabState, unclaimed, openReply>>
  BY DEF SessionCalls, tabVars
<1>2. CASE ServeReconnect
  <2>1. /\ state' = "connecting" /\ calls' \subseteq calls
        /\ Post(Append(Exits("reconnected"), StateEvent("connecting")))
    BY <1>2 DEF ServeReconnect, Again
  <2>2. /\ \E T : Append(Exits("reconnected"), StateEvent("connecting")) \in Seq(T)
        /\ Tells(Append(Exits("reconnected"), StateEvent("connecting")), "connecting")
    BY ExitsAreQueue, StateComesLast
  <2> QED  BY <1>1, <2>1, <2>2, ToldKeeps DEF Shows
<1>3. CASE ServeClose
  <2>1. "close" \in calls /\ calls' = {} /\ mail' = <<>> /\ state' = "closed"
    BY <1>3 DEF ServeClose, End
  <2>2. mail' \in Seq({})
    BY <2>1
  <2> QED  BY <1>1, <2>1, <2>2 DEF TabInv, TruthUnderWay, MailIsQueue
<1> QED  BY <1>2, <1>3 DEF SessionCalls

(* Shells and their output tell nothing of the session.                        *)
LEMMA ShellsKeep ==
    ASSUME TabInv, ShellCalls \/ Output \/ \E t \in Terms : ShellSteps(t) \/ FlowSteps(t)
    PROVE  TabInv'
<1>1. UNCHANGED <<sessionVars, tabOpen, claimed, tabState, unclaimed, openReply, calls>>
  BY DEF ShellCalls, Output, ShellSteps, FlowSteps, tabVars, callVars
<1>2. /\ \A p : <<[kind |-> "refused", pane |-> p]>> \in Seq({[kind |-> "refused", pane |-> p]})
                 /\ SilentIn(<<[kind |-> "refused", pane |-> p]>>)
      /\ \A t, p : /\ <<[kind |-> "opened", term |-> t, pane |-> p]>>
                            \in Seq({[kind |-> "opened", term |-> t, pane |-> p]})
                    /\ SilentIn(<<[kind |-> "opened", term |-> t, pane |-> p]>>)
      /\ \A t, r : <<Exit(t, r)>> \in Seq({Exit(t, r)}) /\ SilentIn(<<Exit(t, r)>>)
  BY DEF SilentIn, Exit
<1>3. \A t : /\ Data(t) \in Seq({[kind |-> "data", term |-> t, units |-> batched[t]]})
             /\ SilentIn(Data(t))
  <2> TAKE t
  <2> DEFINE d == [kind |-> "data", term |-> t, units |-> batched[t]]
  <2>1. Data(t) \in {<<>>, <<d>>} /\ d.kind # "state"
    BY DEF Data
  <2> HIDE DEF d
  <2>2. /\ <<>> \in Seq({d}) /\ <<d>> \in Seq({d}) /\ SilentIn(<<>>) /\ SilentIn(<<d>>)
    BY <2>1 DEF SilentIn
  <2> QED  BY <2>1, <2>2 DEF d
<1>4. \A t, r : /\ \E S : Append(Data(t), Exit(t, r)) \in Seq(S)
                /\ SilentIn(Append(Data(t), Exit(t, r)))
  <2> TAKE t, r
  <2> DEFINE d == [kind |-> "data", term |-> t, units |-> batched[t]]
             e == Exit(t, r)
  <2>1. Data(t) \in Seq({d, e}) /\ SilentIn(Data(t)) /\ <<e>> \in Seq({d, e})
        /\ SilentIn(<<e>>)
    <3>1. Data(t) \in {<<>>, <<d>>}
      BY DEF Data
    <3>2. SilentIn(Data(t)) /\ SilentIn(<<e>>)
      BY <1>2, <1>3
    <3> HIDE DEF d, e
    <3>3. <<>> \in Seq({d, e}) /\ <<d>> \in Seq({d, e}) /\ <<e>> \in Seq({d, e})
      OBVIOUS
    <3>4. Data(t) \in Seq({d, e})
      BY <3>1, <3>3
    <3> QED  BY <3>2, <3>3, <3>4 DEF e
  <2>2. Append(Data(t), e) = Data(t) \o <<e>>
    <3> HIDE DEF d, e
    <3> QED  BY <2>1
  <2> HIDE DEF d, e
  <2>3. SilentIn(Data(t) \o <<e>>) /\ Data(t) \o <<e>> \in Seq({d, e})
    BY <2>1, JoinedTells
  <2> QED  BY <2>2, <2>3 DEF e
<1>5. \E m : (Post(m) \/ UNCHANGED mail) /\ SilentIn(m) /\ \E S : m \in Seq(S)
  <2>1. CASE ShellCalls
    BY <1>2, <2>1 DEF ShellCalls, ServeOpen
  <2>2. CASE Output
    BY <1>2, <2>2 DEF Output, ChannelData
  <2>3. ASSUME NEW t \in Terms, ShellSteps(t)
        PROVE  \E m : (Post(m) \/ UNCHANGED mail) /\ SilentIn(m) /\ \E S : m \in Seq(S)
    BY <1>2, <1>4, <2>3 DEF ShellSteps, ShellOpens, ShellRefused, ShellCloses, ShellErrs
  <2>4. ASSUME NEW t \in Terms, FlowSteps(t)
        PROVE  \E m : (Post(m) \/ UNCHANGED mail) /\ SilentIn(m) /\ \E S : m \in Seq(S)
    BY <1>3, <2>4 DEF FlowSteps, FlushNow, Ack
  <2> QED  BY <2>1, <2>2, <2>3, <2>4
<1> QED  BY <1>1, <1>5, QuietKeeps

(* The reply of session:open.                                                  *)
LEMMA RepliesKeep ==
    ASSUME TabInv, OpenReplies
    PROVE  TabInv'
<1>1. UNCHANGED <<sessionVars, calls, mail, tabOpen>> /\ openReply' = "taken"
      /\ (openReply \in {"resolved", "rejected"})
  BY DEF OpenReplies, callVars, ClaimSession, OpenRejected
<1>2. ~claimed /\ state' # "none" /\ \A x : Shows(x) => Shows(x)'
  BY <1>1 DEF TabInv, Shows, sessionVars
<1>3. tabOpen /\ ShowsTruth => ShowsTruth'
  BY <1>1, <1>2 DEF OpenReplies, ClaimSession, OpenRejected, ShowsTruth, Shows, sessionVars
<1> QED  BY <1>1, <1>2, <1>3 DEF TabInv, TruthUnderWay, MailIsQueue

(* A message reaches the window.                                               *)
LEMMA MailKeeps ==
    ASSUME TabInv, MailSteps
    PROVE  TabInv'
<1>1. /\ UNCHANGED <<sessionVars, calls, openReply, tabOpen, claimed>>
      /\ mail # <<>> /\ mail' = Tail(mail)
  BY DEF MailSteps, OnSessionState, OnTermExit, OnTermOpened, OnTermRefused, OnTermData,
         Receive, callVars, tabVars
<1> PICK S : mail \in Seq(S)
  BY DEF TabInv, MailIsQueue
<1>2. /\ mail' \in Seq(S)
      /\ SilentIn(mail) => SilentIn(mail') /\ mail[1].kind # "state"
      /\ \A x : Tells(mail, x) =>
             \/ Tells(mail', x)
             \/ SilentIn(mail') /\ mail[1].kind = "state" /\ mail[1].state = x
  BY <1>1, TailTells
<1>3. state' # "none" /\ \A x : Shows(x) <=> Shows(x)'
  BY <1>1 DEF TabInv, Shows, sessionVars
<1>4. CASE mail[1].kind = "state"
  <2>1. OnSessionState
    BY <1>4 DEF MailSteps, OnTermExit, OnTermOpened, OnTermRefused, OnTermData, Receive
  <2>2. tabOpen /\ Shows(mail[1].state) => ShowsTruth'
    <3>1. mail[1].state # "none" \/ ~Shows(mail[1].state)
      BY DEF Shows, TabInv
    <3>2. IF tabOpen /\ claimed THEN tabState' = mail[1].state ELSE unclaimed' = mail[1].state
      BY <2>1 DEF OnSessionState
    <3> QED  BY <1>1, <1>3, <3>1, <3>2 DEF ShowsTruth
  <2> QED  BY <1>1, <1>2, <1>3, <1>4, <2>2 DEF TabInv, TruthUnderWay, MailIsQueue
<1>5. CASE mail[1].kind # "state"
  <2>1. ~OnSessionState /\ unclaimed' = unclaimed /\ tabState' \in {tabState, "closed"}
    BY <1>5 DEF MailSteps, OnSessionState, OnTermExit, OnTermOpened, OnTermRefused, OnTermData,
                Receive, tabVars
  <2>2. ShowsTruth => ShowsTruth'
    BY <1>1, <1>3, <2>1 DEF ShowsTruth
  <2> QED  BY <1>1, <1>2, <1>3, <1>5, <2>2 DEF TabInv, TruthUnderWay, MailIsQueue
<1> QED  BY <1>4, <1>5

(* The pane and the user.                                                      *)
LEMMA WindowKeeps ==
    ASSUME TabInv, Effects \/ WindowSteps
    PROVE  TabInv'
<1>1. UNCHANGED <<sessionVars, state, openReply, mail, claimed, unclaimed>>
  BY DEF sessionVars, Effects, ShellEffect, WindowSteps, Remount, ReconnectTab, CloseTab
<1>2. CASE Effects \/ (WindowSteps /\ Remount)
  <2>1. UNCHANGED <<tabOpen, tabState, calls>>
    BY <1>2 DEF Effects, ShellEffect, Remount
  <2>2. (\A x : Shows(x) => Shows(x)') /\ (ShowsTruth => ShowsTruth')
    BY <1>1, <2>1 DEF Shows, ShowsTruth, sessionVars
  <2> QED  BY <1>1, <2>1, <2>2 DEF TabInv, TruthUnderWay, MailIsQueue
<1>3. CASE WindowSteps /\ ReconnectTab
  BY <1>1, <1>3 DEF ReconnectTab, TabInv, TruthUnderWay, MailIsQueue
<1>4. CASE WindowSteps /\ CloseTab
  BY <1>1, <1>4 DEF CloseTab, TabInv, TruthUnderWay, MailIsQueue
<1> QED  BY <1>2, <1>3, <1>4 DEF WindowSteps

LEMMA TabInit == SessionInit /\ TermTabInit => TabInv
<1> SUFFICES ASSUME SessionInit, TermTabInit PROVE TabInv
  OBVIOUS
<1>1. mail = <<>> /\ ~claimed /\ unclaimed = "none" /\ openReply = "none" /\ calls = {}
  BY DEF TermTabInit
<1>2. mail \in Seq({}) /\ SilentIn(mail)
  BY <1>1 DEF SilentIn
<1> QED  BY <1>1, <1>2 DEF TabInv, TruthUnderWay, MailIsQueue, ShowsTruth, SessionInit

LEMMA TabStep == TabInv /\ TermTabNext => TabInv'
  BY SessionKeeps, CallsKeep, ShellsKeep, RepliesKeep, MailKeeps, WindowKeeps DEF TermTabNext

LEMMA TabInvTruth == TabInv => TabTellsTruth
<1> SUFFICES ASSUME TabInv, tabOpen, claimed, mail = <<>>, calls = {}
             PROVE  Shows(tabState) \/ tabState = "closed"
  BY DEF TabTellsTruth, Shows
<1>1. \A x : ~Tells(mail, x)
  BY DEF Tells
<1> QED  BY <1>1 DEF TabInv, TruthUnderWay, ShowsTruth

-------------------------------------------------------------------------------
(* The session with its services.                                              *)

(* The forwards are followed, or as they began.                                *)
ForwardsInv == IF follows = "forwards" THEN ForwardInv ELSE ForwardInit

(* There is a tab only where it is followed.                                   *)
TerminalInv == IF follows = "terminal" THEN TabInv ELSE ~tabOpen

ServicesInv == ForwardsInv /\ SaveInv /\ TerminalInv

LEMMA ServicesInit == Init => ServicesInv
BY ForwardInvInit, SaveInvInit, TabInit DEF Init, ServicesInv, ForwardsInv, TerminalInv

LEMMA ServicesStep == ServicesInv /\ [Next]_vars => ServicesInv'
<1> SUFFICES ASSUME ServicesInv, [Next]_vars PROVE ServicesInv'
  OBVIOUS
<1>1. follows' = follows
  BY DEF Next, FollowForwards, FollowMonitor, FollowEditor, FollowTerminal, vars
<1>2. SaveInv'
  <2>1. [SaveNext]_<<sessionVars, saveVars>> \/ UNCHANGED saveVars
    BY DEF Next, FollowForwards, FollowMonitor, FollowEditor, FollowTerminal, vars
  <2> QED  BY <2>1, SaveInvStep, StutterKeeps DEF ServicesInv
<1>3. ForwardsInv'
  <2>1. CASE follows = "forwards"
    <3>1. [ForwardNext]_<<sessionVars, forwardVars>>
      BY <2>1 DEF Next, FollowForwards, FollowMonitor, FollowEditor, FollowTerminal, vars
    <3> QED  BY <1>1, <2>1, <3>1, ForwardInvStep DEF ServicesInv, ForwardsInv
  <2>2. CASE follows # "forwards"
    <3>1. UNCHANGED forwardVars
      BY <2>2 DEF Next, FollowForwards, FollowMonitor, FollowEditor, FollowTerminal, vars
    <3> QED  BY <1>1, <2>2, <3>1 DEF ServicesInv, ForwardsInv, ForwardInit, forwardVars
  <2> QED  BY <2>1, <2>2
<1>4. TerminalInv'
  <2>1. CASE follows = "terminal"
    <3>1. TermTabNext \/ UNCHANGED <<sessionVars, termTabVars>>
      BY <2>1 DEF Next, FollowForwards, FollowMonitor, FollowEditor, FollowTerminal, vars
    <3>2. CASE TermTabNext
      BY <1>1, <2>1, <3>2, TabStep DEF ServicesInv, TerminalInv
    <3>3. CASE UNCHANGED <<sessionVars, termTabVars>>
      <4>1. (\A x : Shows(x) => Shows(x)') /\ (ShowsTruth => ShowsTruth')
        BY <3>3 DEF Shows, ShowsTruth, sessionVars, termTabVars, tabVars
      <4> QED
        BY <1>1, <2>1, <3>3, <4>1 DEF ServicesInv, TerminalInv, TabInv, TruthUnderWay,
           MailIsQueue, sessionVars, termTabVars, tabVars, callVars
    <3> QED  BY <3>1, <3>2, <3>3
  <2>2. CASE follows # "terminal"
    <3>1. UNCHANGED termTabVars
      BY <2>2 DEF Next, FollowForwards, FollowMonitor, FollowEditor, FollowTerminal, vars
    <3> QED  BY <1>1, <2>2, <3>1 DEF ServicesInv, TerminalInv, termTabVars, tabVars
  <2> QED  BY <2>1, <2>2
<1> QED  BY <1>2, <1>3, <1>4 DEF ServicesInv

(* The inductive invariant holds of a session with its services.               *)
THEOREM ServicesInvariance == Spec => []ServicesInv
BY ServicesInit, ServicesStep, PTL DEF Spec

(* A tab never goes on showing a state its session has left: with no message,  *)
(* reply or call on the way it shows the state of the session or that it       *)
(* ended, however late the reply of session:open, and in whatever order        *)
(* reconnects, exits and refusals came.                                        *)
THEOREM TabTellsTruthHolds == Spec => []TabTellsTruth
<1>1. ServicesInv => TabTellsTruth
  BY TabInvTruth DEF ServicesInv, TerminalInv, TabTellsTruth
<1> QED  BY <1>1, ServicesInvariance, PTL

(* The session keeps what its services promise, whichever of them is used: the *)
(* forwards are served as shown and restored, a file does not vanish and is    *)
(* not overwritten unseen, and the tab tells the truth.                        *)
THEOREM ServicesKeepTheirPromises ==
    Spec => /\ []ServedAsShown /\ []ForwardsRestored
            /\ []FileNeverVanishes /\ NoLostUpdate
            /\ []TabTellsTruth
<1>1. ForwardInit => ServedAsShown /\ ForwardsRestored
  BY DEF ForwardInit, ServedAsShown, ForwardsRestored, Listening, Served
<1>2. ServicesInv => ServedAsShown /\ ForwardsRestored /\ FileNeverVanishes
  BY <1>1 DEF ServicesInv, ForwardsInv, ForwardInv, SaveInv
<1>3. ServicesInv => SaveInv
  BY DEF ServicesInv
<1>4. [Next]_vars => [SaveNext]_<<sessionVars, saveVars>> \/ UNCHANGED saveVars
  BY DEF Next, FollowForwards, FollowMonitor, FollowEditor, FollowTerminal, vars
<1> QED
  BY <1>2, <1>3, SaveInvComparesLast, ServicesInvariance, TabTellsTruthHolds, PTL
     DEF NoLostUpdate
================================================================================
