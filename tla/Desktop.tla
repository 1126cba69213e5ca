-------------------------------- MODULE Desktop --------------------------------
(* The parts of the main process that share no state: a remote desktop, its   *)
(* picture on the way to the window, the other running copies of the          *)
(* application, the transfer of its configuration, the questions to the user  *)
(* and the second connection of a session.  Each has its own events, so a     *)
(* behaviour of the whole is known by those of each, and a behaviour here     *)
(* follows one of them.                                                       *)
EXTENDS RdpSession, RdpFrames, Instances, LanSync, PromptBroker,
        TransferConnection

VARIABLE follows   \* the part whose steps the behaviour shows

Parts == {"session", "frames", "instances", "sync", "prompts", "transfers"}

vars == <<rdpVars, framesVars, instanceVars, lanVars, promptVars, transferVars,
          follows>>

TypeOK ==
    /\ RdpTypeOK
    /\ FramesTypeOK
    /\ InstancesTypeOK
    /\ LanTypeOK
    /\ PromptTypeOK
    /\ TransferTypeOK
    /\ follows \in Parts

(* A stored password tells behaviours of the remote desktop apart, no others. *)
Init ==
    /\ RdpInit
    /\ FramesInit
    /\ InstancesInit
    /\ LanInit
    /\ PromptInit
    /\ TransferInit
    /\ follows \in Parts
    /\ follows # "session" => stored = NoPassword

FollowSession ==
    /\ follows = "session"
    /\ RdpNext
    /\ UNCHANGED <<framesVars, instanceVars, lanVars, promptVars, transferVars,
                   follows>>

FollowFrames ==
    /\ follows = "frames"
    /\ FramesNext
    /\ UNCHANGED <<rdpVars, instanceVars, lanVars, promptVars, transferVars,
                   follows>>

FollowInstances ==
    /\ follows = "instances"
    /\ InstancesNext
    /\ UNCHANGED <<rdpVars, framesVars, lanVars, promptVars, transferVars,
                   follows>>

FollowSync ==
    /\ follows = "sync"
    /\ LanNext
    /\ UNCHANGED <<rdpVars, framesVars, instanceVars, promptVars, transferVars,
                   follows>>

FollowPrompts ==
    /\ follows = "prompts"
    /\ PromptNext
    /\ UNCHANGED <<rdpVars, framesVars, instanceVars, lanVars, transferVars,
                   follows>>

FollowTransfers ==
    /\ follows = "transfers"
    /\ TransferNext
    /\ UNCHANGED <<rdpVars, framesVars, instanceVars, lanVars, promptVars, follows>>

Next ==
    \/ FollowSession \/ FollowFrames \/ FollowInstances \/ FollowSync
    \/ FollowPrompts \/ FollowTransfers

(* The fairness of the part that is followed; the others take no step.        *)
Fairness ==
    /\ WF_rdpVars(follows = "session" /\ RdpProgress)
    /\ WF_framesVars(follows = "frames" /\ FramesProgress)
    /\ WF_instanceVars(follows = "instances" /\ InstancesProgress)
    /\ WF_lanVars(follows = "sync" /\ LanProgress)
    /\ WF_promptVars(follows = "prompts" /\ PromptProgress)

Spec == Init /\ [][Next]_vars /\ Fairness
==============================================================================
