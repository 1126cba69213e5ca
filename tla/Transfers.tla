------------------------------- MODULE Transfers -------------------------------
(* Transfers of files: which of them run and when (TransferQueue), what        *)
(* becomes of the bytes of one (FileTransfer), and what the window shows of    *)
(* them (SftpPanel).  For the queue the work on a file is one stage with every *)
(* outcome; for the file the queue is a delay, and for the window a task that  *)
(* ends.  They share no state, and a behaviour follows one of them.            *)
EXTENDS TransferQueue, FileTransfer, SftpPanel

VARIABLE follows   \* the part whose steps the behaviour shows

transfersVars == <<vars, copyVars, panelVars, follows>>

TransfersInit ==
    /\ Init
    /\ CopyInit
    /\ PanelInit
    /\ follows \in {"queue", "file", "panel"}
    /\ follows # "file" => final["upload"] = <<>> /\ policy = "ask"

FollowQueue ==
    /\ follows = "queue"
    /\ Next
    /\ UNCHANGED <<copyVars, panelVars, follows>>

FollowFile ==
    /\ follows = "file"
    /\ CarefulCopyNext
    /\ UNCHANGED <<vars, panelVars, follows>>

FollowPanel ==
    /\ follows = "panel"
    /\ PanelNext
    /\ UNCHANGED <<vars, copyVars, follows>>

TransfersNext == FollowQueue \/ FollowFile \/ FollowPanel

\* The disk and the network answer, timers fire, messages arrive.
TransfersSpec ==
    /\ TransfersInit
    /\ [][TransfersNext]_transfersVars
    /\ Fairness
    /\ WF_panelVars(follows = "panel" /\ PanelProgress)
==============================================================================
