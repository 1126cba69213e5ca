---------------------------- MODULE SessionServices ----------------------------
(* An SSH session with what lives on it: port forwards, the server monitor,   *)
(* the built-in editor and a terminal tab.  SshConnectionManager delivers     *)
(* each event of the session to all of them; among themselves they share      *)
(* nothing but the session, so a behaviour of the whole is known by those of  *)
(* each service with the session, and a behaviour here follows one of them.   *)
EXTENDS Forwarding, Monitor, RemoteSave, TermTab

VARIABLE follows   \* the service whose steps the behaviour shows

Services == {"forwards", "monitor", "editor", "terminal"}

vars == <<sessionVars, forwardVars, monitorVars, saveVars, termTabVars, follows>>

TypeOK ==
    /\ SessionTypeOK
    /\ ForwardTypeOK
    /\ MonitorTypeOK
    /\ SaveTypeOK
    /\ TermTabTypeOK
    /\ follows \in Services

(* Which file the editor's path leads to is chosen where it is followed.      *)
Init ==
    /\ SessionInit
    /\ ForwardInit
    /\ MonitorInit
    /\ SaveInit
    /\ TermTabInit
    /\ follows \in Services
    /\ tabOpen <=> follows = "terminal"
    /\ follows # "editor" => link = CHOOSE f \in Files : TRUE

FollowForwards ==
    /\ follows = "forwards"
    /\ ForwardNext
    /\ UNCHANGED <<monitorVars, saveVars, termTabVars, follows>>

FollowMonitor ==
    /\ follows = "monitor"
    /\ MonitorNext
    /\ UNCHANGED <<forwardVars, saveVars, termTabVars, follows>>

FollowEditor ==
    /\ follows = "editor"
    /\ SaveNext
    /\ UNCHANGED <<forwardVars, monitorVars, termTabVars, follows>>

FollowTerminal ==
    /\ follows = "terminal"
    /\ TermTabNext
    /\ UNCHANGED <<forwardVars, monitorVars, saveVars, follows>>

Next == FollowForwards \/ FollowMonitor \/ FollowEditor \/ FollowTerminal

Spec == Init /\ [][Next]_vars /\ MonitorFair /\ TermTabFair
==============================================================================
