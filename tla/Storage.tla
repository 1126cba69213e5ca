-------------------------------- MODULE Storage --------------------------------
(* What the user entrusts to the application: the database of the              *)
(* configuration, which windows and files change, its rows from start to       *)
(* start, and the text that is typed in the window of the editor.  They share  *)
(* no state, and a behaviour follows one of them.                              *)
EXTENDS Connections, Encryption, EditorWindow

VARIABLE follows   \* the part whose steps the behaviour shows

vars == <<connectionVars, encryptionVars, editorVars, follows>>

TypeOK == ConnectionsTypeOK /\ EncryptionTypeOK /\ EditorTypeOK

(* The file and the rows tell behaviours of their own part apart, no others.   *)
Init ==
    /\ ConnectionsInit
    /\ EncryptionInit
    /\ EditorInit
    /\ follows \in {"connections", "encryption", "editor"}
    /\ follows # "connections" => file = EmptyFile
    /\ follows # "encryption" => lookups = {} /\ \A e \in Entities : rows[e] = "none"

FollowConnections ==
    /\ follows = "connections"
    /\ ConnectionsNext
    /\ UNCHANGED <<encryptionVars, editorVars, follows>>

FollowEncryption ==
    /\ follows = "encryption"
    /\ EncryptionNext
    /\ UNCHANGED <<connectionVars, editorVars, follows>>

FollowEditor ==
    /\ follows = "editor"
    /\ PatientNext
    /\ UNCHANGED <<connectionVars, encryptionVars, follows>>

Next == FollowConnections \/ FollowEncryption \/ FollowEditor

Spec == Init /\ [][Next]_vars
==============================================================================
