------------------------------ MODULE RemoteSave ------------------------------
(* A remote file in the built-in editor: reading it (sftp/fileView.ts,        *)
(* sftp/remoteTextFile.ts), the baseline the main process remembers           *)
(* (sftp/editBaselines.ts), and saving it back (sftp/fileSave.ts,             *)
(* sftp/remoteTextWrite.ts) while other programs change the same machine.     *)
(*                                                                            *)
(* A content is a model value: the remembered hash tells contents apart, as   *)
(* it does in files of up to HASH_COMPARE_MAX_BYTES (larger ones are compared *)
(* by size and time).  Between two SFTP requests anything may happen.  The    *)
(* answer to the window is one step with the handler's end that sends it.     *)
(* Encodings, limits on size and the temporary file's name are left out.      *)
EXTENDS Session

CONSTANTS
    Files,        \* what the edited path, a symbolic link, may lead to
    Contents,     \* the contents a file may have
    Tiny,         \* those that look truncated beside the others
    Gone,         \* no such file; no view; no baseline
    MaxForeign    \* bound: changes made by other programs

ASSUME RemoteSaveAssumption ==
    /\ Tiny \subseteq Contents
    /\ Gone \notin Contents
    /\ MaxForeign \in Nat

VARIABLES
    link,         \* where the edited path leads
    file,         \* the content of each file
    backups,      \* of each file: the contents of its .ofsbak- siblings
    baseline,     \* editBaselines' entry for the path
    view,         \* what the window's tab was last shown: the file and its content
    reading,      \* the fileView in flight
    saving,       \* the fileSave in flight, of which there is at most one
    asked,        \* the gates the open confirmation would save with
    foreign,      \* history: changes made by other programs
    removed       \* history: the files another program removed

saveVars == <<link, file, backups, baseline, view, reading, saving, asked,
              foreign, removed>>

Gates == {"conflict", "shrink", "nonAtomic"}

\* A file and its content, as the window or the registry remembers them.
Versions == [of: Files, text: Contents]

ReadingStages == {"resolve", "read"}
\* resolve, stat, compare, temp, rename: saveRemoteTextFile and saveRemoteText;
\* aside, place, restore, discard: degradedReplace; confirm: the stat after it.
SavingStages == {"resolve", "stat", "compare", "temp", "rename", "aside", "place",
                 "restore", "discard", "confirm"}

Readings == [at: ReadingStages, of: Files]
\* base: the baseline it began with; existed, moved: what it found and set aside;
\* knew, late (history): what its tab was showing; a change after it compared.
Savings == [at: SavingStages, text: Contents, gates: SUBSET Gates,
            base: Versions, existed: BOOLEAN, moved: Contents \cup {Gone},
            knew: Versions, late: BOOLEAN]

SaveTypeOK ==
    /\ link \in Files
    /\ file \in [Files -> Contents \cup {Gone}]
    /\ backups \in [Files -> SUBSET Contents]
    /\ baseline \in Versions \cup {Gone}
    /\ view \in Versions \cup {Gone}
    /\ reading \in Readings \cup {Gone}
    /\ saving \in Savings \cup {Gone}
    /\ asked \in SUBSET Gates
    /\ foreign \in 0..MaxForeign
    /\ removed \subseteq Files

SaveInit ==
    /\ link \in Files
    /\ \E text \in Contents \ Tiny : file = [f \in Files |-> text]
    /\ backups = [f \in Files |-> {}]
    /\ baseline = Gone
    /\ view = Gone
    /\ reading = Gone
    /\ saving = Gone
    /\ asked = {}
    /\ foreign = 0
    /\ removed = {}

------------------------------------------------------------------------------
(* fileView: open the tab, or reload it.  The confirmation a save asked for is *)
(* modal: whoever does anything else has canceled it first.                    *)

View ==
    /\ registered /\ state = "ready"
    /\ reading = Gone
    /\ reading' = [at |-> "resolve", of |-> link]
    /\ asked' = {}
    /\ UNCHANGED <<link, file, backups, baseline, view, saving, foreign, removed>>

ViewResolved ==
    /\ reading # Gone /\ reading.at = "resolve"
    /\ reading' = [reading EXCEPT !.at = "read", !.of = link]
    /\ UNCHANGED <<link, file, backups, baseline, view, saving, asked, foreign, removed>>

\* The bytes read become the baseline and the text of the tab.
ViewRead ==
    /\ reading # Gone /\ reading.at = "read"
    /\ file[reading.of] # Gone
    /\ LET seen == [of |-> reading.of, text |-> file[reading.of]]
       IN  baseline' = seen /\ view' = seen
    /\ reading' = Gone
    /\ UNCHANGED <<link, file, backups, saving, asked, foreign, removed>>

\* The tab shows the error in place of the text; the baseline stays.
ViewFails ==
    /\ reading # Gone
    /\ reading' = Gone
    /\ view' = Gone
    /\ UNCHANGED <<link, file, backups, baseline, saving, asked, foreign, removed>>

\* The user closes the tab; the registry is not told.
CloseFile ==
    /\ view # Gone /\ reading = Gone
    /\ view' = Gone
    /\ asked' = {}
    /\ UNCHANGED <<link, file, backups, baseline, reading, saving, foreign, removed>>

------------------------------------------------------------------------------
(* fileSave                                                                   *)

\* Ctrl+S, or the confirmation of what the last save asked.  Without a baseline,
\* or beside a save in flight, the handler throws and nothing changes.
Save(text, gates) ==
    /\ registered /\ state = "ready"
    /\ view # Gone /\ baseline # Gone
    /\ saving = Gone
    /\ gates \in {{}, asked}
    /\ saving' = [at |-> "resolve", text |-> text, gates |-> gates,
                  base |-> baseline, existed |-> TRUE, moved |-> Gone,
                  knew |-> view, late |-> FALSE]
    /\ asked' = {}
    /\ UNCHANGED <<link, file, backups, baseline, view, reading, foreign, removed>>

Doing(stage) == saving # Gone /\ saving.at = stage

Proceed(stage) == saving' = [saving EXCEPT !.at = stage]

\* What no request of a save changes; the files and their backups; all of it.
unsaved == <<link, baseline, view, reading, foreign>>
stored == <<file, backups, removed>>
unwritten == <<unsaved, stored>>

\* The handler throws, or answers with the gate the user has to open.
Throw == saving' = Gone /\ UNCHANGED asked
Ask(gate) == saving' = Gone /\ asked' = saving.gates \cup {gate}

\* Variant: the path is not resolved again, so the buffer goes where it leads now.
SaveFollows ==
    /\ Doing("resolve")
    /\ saving' = [saving EXCEPT !.at = "stat", !.base.of = link]
    /\ UNCHANGED <<asked, unwritten>>

\* The path is resolved again: a link that leads elsewhere is refused.
SaveResolved ==
    /\ Doing("resolve")
    /\ IF link = saving.base.of THEN Proceed("stat") /\ UNCHANGED asked ELSE Throw
    /\ UNCHANGED unwritten

Truncates(old, new) == new \in Tiny /\ old \notin Tiny

\* What the shrink gate compares with: the remote length, or the baseline's.
RemoteText == IF saving.existed THEN file[saving.base.of] ELSE saving.base.text

\* The stat; with the conflict gate open nothing is compared.
SaveStat ==
    /\ Doing("stat")
    /\ LET there == file[saving.base.of] # Gone
       IN  \/ /\ "conflict" \in saving.gates
              /\ saving' = [saving EXCEPT !.at = "temp", !.existed = there]
              /\ UNCHANGED asked
           \/ /\ "conflict" \notin saving.gates /\ there
              /\ Proceed("compare") /\ UNCHANGED asked
           \/ /\ "conflict" \notin saving.gates /\ ~there
              /\ Ask("conflict")
    /\ UNCHANGED unwritten

\* remoteChangedSince reads the file again.
SaveCompare ==
    /\ Doing("compare")
    /\ file[saving.base.of] # Gone
    /\ IF file[saving.base.of] = saving.base.text
       THEN Proceed("temp") /\ UNCHANGED asked
       ELSE Ask("conflict")
    /\ UNCHANGED unwritten

\* The shrink gate, then the temporary file beside the target.
SaveTemp ==
    /\ Doing("temp")
    /\ IF "shrink" \notin saving.gates /\ Truncates(RemoteText, saving.text)
       THEN Ask("shrink")
       ELSE Proceed("rename") /\ UNCHANGED asked
    /\ UNCHANGED unwritten

\* What the requests do to the target: it is replaced; renamed to a backup; put
\* back; and the backup removed.
Replace ==
    /\ file' = [file EXCEPT ![saving.base.of] = saving.text]
    /\ removed' = removed \ {saving.base.of}
    /\ UNCHANGED backups

SetAside ==
    /\ file[saving.base.of] # Gone
    /\ backups' = [backups EXCEPT ![saving.base.of] = @ \cup {file[saving.base.of]}]
    /\ file' = [file EXCEPT ![saving.base.of] = Gone]
    /\ UNCHANGED removed

PutBack ==
    /\ file[saving.base.of] = Gone
    /\ file' = [file EXCEPT ![saving.base.of] = saving.moved]
    /\ backups' = [backups EXCEPT ![saving.base.of] = @ \ {saving.moved}]
    /\ removed' = removed \ {saving.base.of}

Discard ==
    /\ backups' = [backups EXCEPT ![saving.base.of] = @ \ {saving.moved}]
    /\ UNCHANGED <<file, removed>>

\* posix-rename replaces the target at once, where the server has it.
SaveRename ==
    /\ Doing("rename")
    /\ Replace /\ Proceed("confirm")
    /\ UNCHANGED <<asked, unsaved>>

SaveRenameUnsupported ==
    /\ Doing("rename")
    /\ IF "nonAtomic" \in saving.gates
       THEN /\ Proceed(IF saving.existed THEN "aside" ELSE "place")
            /\ UNCHANGED asked
       ELSE Ask("nonAtomic")
    /\ UNCHANGED unwritten

\* Variant: the target is removed, to be written anew.
SaveUnlink ==
    /\ Doing("aside")
    /\ saving' = [saving EXCEPT !.at = "place", !.moved = file[saving.base.of]]
    /\ file' = [file EXCEPT ![saving.base.of] = Gone]
    /\ UNCHANGED <<asked, unsaved, backups, removed>>

\* degradedReplace: the target is renamed to a backup,
SaveAside ==
    /\ Doing("aside")
    /\ SetAside
    /\ saving' = [saving EXCEPT !.at = "place", !.moved = file[saving.base.of]]
    /\ UNCHANGED <<asked, unsaved>>

\* the temporary file to the target (SFTP's rename does not replace),
SavePlace ==
    /\ Doing("place")
    /\ file[saving.base.of] = Gone
    /\ Replace
    /\ Proceed(IF saving.existed THEN "discard" ELSE "confirm")
    /\ UNCHANGED <<asked, unsaved>>

SavePlaceFails ==
    /\ Doing("place")
    /\ IF saving.existed THEN Proceed("restore") /\ UNCHANGED asked ELSE Throw
    /\ UNCHANGED unwritten

\* or the backup back again; that this fails is not reported,
SaveRestore ==
    /\ Doing("restore")
    /\ PutBack \/ UNCHANGED stored
    /\ Throw
    /\ UNCHANGED unsaved

\* and at the end the backup goes, if it can.
SaveDiscard ==
    /\ Doing("discard")
    /\ Discard \/ UNCHANGED stored
    /\ Proceed("confirm")
    /\ UNCHANGED <<asked, unsaved>>

\* Written: the baseline moves on, and the tab's text with it, if it is open.
SaveConfirmed ==
    /\ Doing("confirm")
    /\ LET mine == [of |-> saving.base.of, text |-> saving.text]
       IN  /\ baseline' = mine
           /\ view' = IF view = Gone THEN Gone ELSE mine
    /\ Throw
    /\ UNCHANGED <<link, reading, foreign, stored>>

\* A request fails: nothing is undone, the baseline stays.
SaveFails ==
    /\ saving # Gone
    /\ saving.at \notin {"place", "restore", "discard"}
    /\ Throw
    /\ UNCHANGED unwritten

------------------------------------------------------------------------------
(* Other programs on the machine, and the session                             *)

Compared == saving # Gone /\ saving.at \notin {"resolve", "stat", "compare"}

Change(f, content) ==
    /\ foreign < MaxForeign
    /\ foreign' = foreign + 1
    /\ file[f] # content
    /\ file' = [file EXCEPT ![f] = content]
    /\ removed' = IF content = Gone THEN removed \cup {f} ELSE removed \ {f}
    /\ saving' = IF Compared THEN [saving EXCEPT !.late = TRUE] ELSE saving
    /\ UNCHANGED <<link, backups, baseline, view, reading, asked>>

Retarget(f) ==
    /\ foreign < MaxForeign
    /\ foreign' = foreign + 1
    /\ link # f /\ link' = f
    /\ UNCHANGED <<file, backups, baseline, view, reading, saving, asked, removed>>

\* The requests in flight are rejected with their client; the one a save awaits
\* may have been served, and nobody was told.
Rejected ==
    /\ \/ UNCHANGED stored
       \/ Doing("rename") /\ Replace
       \/ Doing("place") /\ file[saving.base.of] = Gone /\ Replace
       \/ Doing("aside") /\ SetAside
       \/ Doing("restore") /\ PutBack
       \/ Doing("discard") /\ Discard
    /\ saving' = Gone
    /\ reading' = Gone
    /\ view' = IF reading = Gone THEN view ELSE Gone

ChannelLost == Rejected /\ UNCHANGED <<link, baseline, asked, foreign>>

\* close(): forgetSessionBaselines, and the client goes.
BaselinesForgotten ==
    /\ Rejected
    /\ baseline' = Gone
    /\ UNCHANGED <<link, asked, foreign>>

SaveStep ==
    \/ View \/ ViewResolved \/ ViewRead \/ ViewFails \/ CloseFile
    \/ \E text \in Contents, gates \in SUBSET Gates : Save(text, gates)
    \/ SaveResolved \/ SaveStat \/ SaveCompare \/ SaveTemp
    \/ SaveRename \/ SaveRenameUnsupported
    \/ SaveAside \/ SavePlace \/ SavePlaceFails \/ SaveRestore \/ SaveDiscard
    \/ SaveConfirmed \/ SaveFails

ForeignStep ==
    \/ \E f \in Files, content \in Contents \cup {Gone} : Change(f, content)
    \/ \E f \in Files : Retarget(f)

EditedSession ==
    \/ (Begin \/ Authenticate \/ Retry \/ Ready) /\ UNCHANGED saveVars
    \/ (Lose \/ GiveUp \/ Again) /\ ChannelLost
    \/ End /\ BaselinesForgotten

SaveNext ==
    \/ (SaveStep \/ ForeignStep) /\ UNCHANGED sessionVars
    \/ EditedSession

SaveSpec ==
    SessionInit /\ SaveInit /\ [][SaveNext]_<<sessionVars, saveVars>>

------------------------------------------------------------------------------
\* A request of the save takes the target's content away.
Overwrites ==
    /\ Doing("rename") \/ Doing("aside")
    /\ file' # file /\ foreign' = foreign

\* No silent overwrite: unless the user confirmed the conflict, a save replaces
\* only the very file and content its tab was showing when it was asked for.
\* Another program, a retargeted link or a reload may interfere at any point but
\* the last: what changes after the comparison (late) is overwritten unseen.
NoLostUpdate ==
    [][Overwrites /\ "conflict" \notin saving.gates /\ ~saving.late
         => [of |-> saving.base.of, text |-> file[saving.base.of]] = saving.knew
      ]_<<sessionVars, saveVars>>

\* A file does not vanish: wherever a save fails or loses its connection, the
\* target, unless another program removed it, exists or its content is in a backup.
FileNeverVanishes ==
    \A f \in Files : file[f] = Gone => f \in removed \/ backups[f] # {}
==============================================================================
