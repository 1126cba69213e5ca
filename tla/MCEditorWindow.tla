---------------------------- MODULE MCEditorWindow ----------------------------
(* TLC instance of EditorWindow on its own, with a user who does not wait.    *)
EXTENDS EditorWindow
==============================================================================
