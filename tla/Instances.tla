------------------------------ MODULE Instances ------------------------------
(* The running copies of the application on one machine: election, config     *)
(* revisions and the installation barrier of instances/InstanceCoordinator.ts,*)
(* with the callers in index.ts and services/updater.ts.                      *)
(*                                                                            *)
(* The copies share one SQLite database; a tx is one step.  An instance id is *)
(* a fresh UUID, so an instance lives once.  Whether a process is alive is    *)
(* asked of the operating system; that a pid may be reused is left out.       *)
EXTENDS Naturals, FiniteSets

CONSTANTS
    Instances,
    NoInstance,
    MaxRevision,    \* bound: changes to the configuration
    MaxInstalls     \* bound: installations begun

ASSUME InstancesAssumption ==
    /\ NoInstance \notin Instances
    /\ {MaxRevision, MaxInstalls} \subseteq Nat

VARIABLES
    (* in the database *)
    members,       \* rows of app_instances
    coordinator,   \* meta instance_coordinator
    owner,         \* meta instance_install_owner
    barrier,       \* instance_install_until is in the future
    revision,      \* config_revisions, one entity
    (* in the processes *)
    phase,         \* life of each instance
    leader,        \* its flag
    known,         \* its revisions map
    install,       \* its installUpdate
    peers,         \* whom its prepareInstall waits for
    (* elsewhere *)
    mail,          \* control requests on their way
    installer,     \* the installer runs
    installs       \* history, for the bound

dbVars == <<members, coordinator, owner, barrier, revision>>
processVars == <<phase, leader, known, install, peers>>
instanceVars == <<dbVars, processVars, mail, installer, installs>>

Phases == {"off",
           "registered",     \* its row is inserted, start() has not elected yet
           "running",
           "closing",        \* before-quit: sessions are being closed
           "unregistered",   \* stop() is done, stores are being flushed
           "dead"}
Alive == {i \in Instances : phase[i] \notin {"off", "dead"}}

Requests == [kind : {"changed"}, to : Instances, revision : 0..MaxRevision]
            \cup [kind : {"prepareExit"}, to : Instances, from : Instances]

InstancesTypeOK ==
    /\ members \subseteq Instances
    /\ coordinator \in Instances \cup {NoInstance}
    /\ owner \in Instances \cup {NoInstance}
    /\ {barrier, installer} \subseteq BOOLEAN
    /\ revision \in 0..MaxRevision
    /\ phase \in [Instances -> Phases]
    /\ leader \in [Instances -> BOOLEAN]
    /\ known \in [Instances -> 0..MaxRevision]
    /\ install \in [Instances -> {"no", "confirmed", "preparing", "installing"}]
    /\ peers \in [Instances -> SUBSET Instances]
    /\ mail \subseteq Requests
    /\ installs \in 0..MaxInstalls

InstancesInit ==
    /\ members = {} /\ coordinator = NoInstance /\ owner = NoInstance
    /\ barrier = FALSE /\ revision = 0
    /\ phase = [i \in Instances |-> "off"]
    /\ leader = [i \in Instances |-> FALSE]
    /\ known = [i \in Instances |-> 0]
    /\ install = [i \in Instances |-> "no"]
    /\ peers = [i \in Instances |-> {}]
    /\ mail = {} /\ installer = FALSE /\ installs = 0

(* An instance that answers requests and polls.                               *)
Serving(i) == phase[i] \in {"running", "closing"}

(* The memory of a process ends with it.                                      *)
Forgets(i) ==
    /\ leader' = [leader EXCEPT ![i] = FALSE]
    /\ known' = [known EXCEPT ![i] = 0]
    /\ install' = [install EXCEPT ![i] = "no"]
    /\ peers' = [peers EXCEPT ![i] = {}]
    /\ mail' = {m \in mail : m.to # i}

------------------------------------------------------------------------------
(* Starting and electing.                                                     *)

(* prune, for the members that are not alive                                  *)
Pruned == members \cap Alive

\* Variant: the barrier is looked at before the row is written, not with it.
RegisterUnguarded(i) ==
    /\ phase[i] = "off"
    /\ members' = Pruned \cup {i}
    /\ phase' = [phase EXCEPT ![i] = "registered"]
    /\ UNCHANGED <<coordinator, owner, barrier, revision, leader, known, install,
                   peers, mail, installer, installs>>

(* start(): barrier and row in one tx.  A process that is refused shows why   *)
(* and quits without having been a member.                                    *)
Register(i) ==
    /\ phase[i] = "off"
    /\ IF barrier
       THEN /\ phase' = [phase EXCEPT ![i] = "dead"]
            /\ UNCHANGED members
       ELSE /\ members' = Pruned \cup {i}
            /\ phase' = [phase EXCEPT ![i] = "registered"]
    /\ UNCHANGED <<coordinator, owner, barrier, revision, leader, known, install,
                   peers, mail, installer, installs>>

(* index.ts: the process an installer starts has --updated and lifts the      *)
(* barrier of the installation it comes from.                                 *)
RegisterUpdated(i) ==
    /\ installer /\ phase[i] = "off"
    /\ installer' = FALSE
    /\ barrier' = FALSE
    /\ members' = Pruned \cup {i}
    /\ phase' = [phase EXCEPT ![i] = "registered"]
    /\ UNCHANGED <<coordinator, owner, revision, leader, known, install, peers,
                   mail, installs>>

\* Variant: a member whose heartbeat is old counts as gone.
ElectByHeartbeat(i) ==
    \E next \in Pruned :
        /\ members' = Pruned
        /\ coordinator' = next
        /\ leader' = [leader EXCEPT ![i] = (next = i)]

(* elect(): the coordinator stays as long as it lives; another is the oldest  *)
(* member, which is any member here.                                          *)
Elect(i) ==
    \E next \in IF coordinator \in Pruned THEN {coordinator} ELSE Pruned :
        /\ members' = Pruned
        /\ coordinator' = next
        /\ leader' = [leader EXCEPT ![i] = (next = i)]

Started(i) ==
    /\ phase[i] = "registered"
    /\ Elect(i)
    /\ known' = [known EXCEPT ![i] = revision]
    /\ phase' = [phase EXCEPT ![i] = "running"]
    /\ UNCHANGED <<owner, barrier, revision, install, peers, mail, installer,
                   installs>>

------------------------------------------------------------------------------
(* Configuration.                                                             *)

(* Any write to a configuration table; a trigger counts it.                   *)
Change ==
    /\ \E i \in Instances : phase[i] = "running"
    /\ revision < MaxRevision
    /\ revision' = revision + 1
    /\ UNCHANGED <<members, coordinator, owner, barrier, processVars, mail,
                   installer, installs>>

\* Variant: a poll that only tells the others.
PollTelling(i) ==
    /\ Serving(i)
    /\ Elect(i)
    /\ mail' = IF known[i] = revision THEN mail
               ELSE mail \cup [kind : {"changed"}, to : Pruned \ {i},
                               revision : {revision}]
    /\ UNCHANGED <<owner, barrier, revision, phase, known, install, peers,
                   installer, installs>>

(* poll, every two seconds, up to its requests                                *)
Poll(i) ==
    /\ Serving(i)
    /\ Elect(i)
    /\ known' = [known EXCEPT ![i] = revision]
    /\ mail' = IF known[i] = revision THEN mail
               ELSE mail \cup [kind : {"changed"}, to : Pruned \ {i},
                               revision : {revision}]
    /\ UNCHANGED <<owner, barrier, revision, phase, install, peers, installer,
                   installs>>

(* dispatch of changed: the notice counts only if it is still the truth.      *)
Changed(m) ==
    /\ m \in mail /\ m.kind = "changed"
    /\ mail' = mail \ {m}
    /\ known' = IF Serving(m.to) /\ m.revision = revision /\ known[m.to] < m.revision
                THEN [known EXCEPT ![m.to] = m.revision] ELSE known
    /\ UNCHANGED <<dbVars, phase, leader, install, peers, installer, installs>>

(* A request whose peer does not answer in time, or whose socket breaks       *)
LoseRequest ==
    \E m \in mail :
        /\ mail' = mail \ {m}
        /\ UNCHANGED <<dbVars, processVars, installer, installs>>

------------------------------------------------------------------------------
(* Installing an update.                                                      *)

(* installUpdate of the leader up to prepareInstall: activity is counted and  *)
(* the user has agreed.                                                       *)
ConfirmInstall(i) ==
    /\ phase[i] = "running" /\ leader[i] /\ install[i] = "no"
    /\ installs < MaxInstalls
    /\ installs' = installs + 1
    /\ install' = [install EXCEPT ![i] = "confirmed"]
    /\ UNCHANGED <<dbVars, phase, leader, known, peers, mail, installer>>

(* prepareInstall: barrier, owner and the list of peers.  It gives up if the  *)
(* coordinator has changed or another barrier stands.                         *)
PrepareInstall(i) ==
    /\ phase[i] = "running" /\ install[i] = "confirmed"
    /\ IF coordinator = i /\ ~barrier
       THEN /\ owner' = i /\ barrier' = TRUE
            /\ install' = [install EXCEPT ![i] = "preparing"]
            /\ peers' = [peers EXCEPT ![i] = members \ {i}]
            /\ mail' = mail \cup [kind : {"prepareExit"}, to : members \ {i},
                                  from : {i}]
       ELSE /\ install' = [install EXCEPT ![i] = "no"]
            /\ UNCHANGED <<owner, barrier, peers, mail>>
    /\ UNCHANGED <<members, coordinator, revision, phase, leader, known,
                   installer, installs>>

(* dispatch of prepareExit: a peer quits if the sender really installs and    *)
(* no editor holds unsaved work.                                              *)
PrepareExit(m) ==
    /\ m \in mail /\ m.kind = "prepareExit"
    /\ mail' = mail \ {m}
    /\ phase' = IF phase[m.to] = "running" /\ coordinator = m.from /\ owner = m.from
                THEN [phase EXCEPT ![m.to] = "closing"] ELSE phase
    /\ UNCHANGED <<dbVars, leader, known, install, peers, installer, installs>>

LiftedBy(i) ==
    /\ owner' = IF owner = i THEN NoInstance ELSE owner
    /\ barrier' = (barrier /\ owner # i)

(* The end of prepareInstall: "a dead PID is sufficient; an ack alone is not".*)
PeersGone(i) ==
    /\ phase[i] = "running" /\ install[i] = "preparing"
    /\ peers[i] \cap Alive = {}
    /\ install' = [install EXCEPT ![i] = "installing"]
    /\ UNCHANGED <<dbVars, phase, leader, known, peers, mail, installer,
                   installs>>

(* cancelInstall, when a peer stays, the installer cannot be launched, or the *)
(* updater reports an error.                                                  *)
CancelInstall(i) ==
    /\ phase[i] = "running" /\ install[i] \in {"preparing", "installing"}
    /\ LiftedBy(i)
    /\ install' = [install EXCEPT ![i] = "no"]
    /\ UNCHANGED <<members, coordinator, revision, phase, leader, known, peers,
                   mail, installer, installs>>

(* quitAndInstall: the installer starts and this instance quits.              *)
QuitAndInstall(i) ==
    /\ phase[i] = "running" /\ install[i] = "installing"
    /\ installer' = TRUE
    /\ phase' = [phase EXCEPT ![i] = "closing"]
    /\ UNCHANGED <<dbVars, leader, known, install, peers, mail, installs>>

(* The installer is dismissed, or done without starting the application.      *)
InstallerEnds ==
    /\ installer
    /\ installer' = FALSE
    /\ UNCHANGED <<dbVars, processVars, mail, installs>>

(* Five minutes have passed.  An installation, from the barrier to the end of *)
(* the installer, takes less.                                                 *)
BarrierExpires ==
    /\ barrier /\ ~installer
    /\ \A i \in Alive : install[i] \notin {"preparing", "installing"}
    /\ barrier' = FALSE
    /\ UNCHANGED <<members, coordinator, owner, revision, processVars, mail,
                   installer, installs>>

------------------------------------------------------------------------------
(* Ending.                                                                    *)

Quit(i) ==
    /\ phase[i] = "running" /\ install[i] = "no"
    /\ phase' = [phase EXCEPT ![i] = "closing"]
    /\ UNCHANGED <<dbVars, leader, known, install, peers, mail, installer,
                   installs>>

(* stop(), after which the process serves no request and polls no more        *)
Stop(i) ==
    /\ phase[i] = "closing"
    /\ phase' = [phase EXCEPT ![i] = "unregistered"]
    /\ members' = members \ {i}
    /\ coordinator' = IF coordinator = i THEN NoInstance ELSE coordinator
    /\ Forgets(i)
    /\ UNCHANGED <<owner, barrier, revision, installer, installs>>

(* The process ends, or crashes and leaves its row.                           *)
Die(i) ==
    /\ i \in Alive
    /\ phase' = [phase EXCEPT ![i] = "dead"]
    /\ Forgets(i)
    /\ UNCHANGED <<dbVars, installer, installs>>

InstancesNext ==
    \/ \E i \in Instances :
        \/ Register(i) \/ RegisterUpdated(i) \/ Started(i) \/ Poll(i)
        \/ ConfirmInstall(i) \/ PrepareInstall(i) \/ PeersGone(i)
        \/ CancelInstall(i) \/ QuitAndInstall(i)
        \/ Quit(i) \/ Stop(i) \/ Die(i)
    \/ \E m \in mail : Changed(m) \/ PrepareExit(m)
    \/ Change \/ LoseRequest \/ InstallerEnds \/ BarrierExpires

(* The poll timer of a running instance fires.  No request need arrive.       *)
InstancesProgress == \E i \in Instances : Poll(i)

InstancesFair == WF_instanceVars(InstancesProgress)

InstancesSpec == InstancesInit /\ [][InstancesNext]_instanceVars /\ InstancesFair

------------------------------------------------------------------------------
(* Two instances never both believe to be the coordinator and act on it: the  *)
(* flag is refreshed only every two seconds, but a coordinator keeps its place*)
(* for as long as its process lives, however late its heartbeat.              *)
OneLeader ==
    \A i, j \in Instances :
        leader[i] /\ leader[j] /\ Serving(i) /\ Serving(j) => i = j

(* From the moment an update is handed over until the installer ends, no      *)
(* other copy of the application has a row in the database or can get one, in *)
(* spite of starts, crashes, refused or lost requests and peers that take     *)
(* their time: nobody works in files that are being replaced.                 *)
InstallAlone ==
    installer \/ (\E i \in Instances :
                      phase[i] = "running" /\ install[i] = "installing") =>
        \A j \in Instances :
            phase[j] \in {"registered", "running"} => install[j] = "installing"

(* Every window shows the configuration as it is in the database, some time   *)
(* after the last change, though a notice may be lost.                        *)
RevisionsConverge ==
    <>[](\A i \in Instances : phase[i] = "running" => known[i] = revision)
==============================================================================
