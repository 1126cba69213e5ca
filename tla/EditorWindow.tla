----------------------------- MODULE EditorWindow -----------------------------
(* The window of the editor: its tabs (stores/useEditorStore.ts), the one      *)
(* editor that shows them in turn (features/editor/CodeEditor.tsx,             *)
(* draftSwap.ts), its questions (EditorWindowShell.tsx), and what the main     *)
(* process does to open it, close it and quit (main/editorWindow.ts).  What a  *)
(* save does on the remote machine is in RemoteSave; here it writes the text,  *)
(* asks for a confirmation, or fails.  Encodings are left out, and so are      *)
(* saves that main refuses because one is under way.                           *)
EXTENDS Naturals, Sequences, SequencesExt

CONSTANTS
    Files, NoFile, NoText,
    MaxTyped,       \* bound: changes that the user types
    MaxAsks,        \* bound: requests to open a file, close the window, quit
    MaxReads,       \* bound: reads of a file under way at a time
    MaxCrashes      \* bound: crashes of the window's page

(* A path is no message, and there is a text for each change only.             *)
ASSUME EditorAssumption ==
    /\ NoFile \notin Files /\ "closeRequest" \notin Files
    /\ MaxTyped \in Nat /\ MaxReads \in Nat
    /\ NoText \notin Files \X (0..MaxTyped)

VARIABLES
    win, ready,     \* the window exists; rendererReady
    pending,        \* files to open once the page is ready
    toEditor,       \* messages on their way to the page, in order
    closeNow,       \* editor:closeNow is on its way to the main process
    quit,           \* requestEditorCloseForQuit()
    asks, crashes,
    status, text,   \* by file: OpenFile.status, view.text
    dirty, active,
    editor,         \* the mounted CodeEditor with its stashes
    dialogs,        \* questions on the screen, the last one on top
    sent, confirmed,    \* by file: the text of a save under way, its gates
    reading,        \* by file: how many calls of sftp:fileView are under way
    remote,         \* by file: the text on the remote machine
    wanted,         \* by file: what the user typed last and did not discard
    edits

mainVars == <<win, ready, pending, toEditor, closeNow, quit, asks, crashes>>
tabVars == <<status, text, dirty, active, editor>>
callVars == <<sent, confirmed, reading, remote>>
userVars == <<dialogs, wanted, edits>>
editorVars == <<mainVars, tabVars, callVars, userVars>>

Texts == Files \X (0..MaxTyped)

NoTexts == [f \in Files |-> NoText]
NoEditor == [on |-> NoFile, doc |-> NoText, stash |-> NoTexts, base |-> NoTexts]

(* Texts are texts, and an editor shows the tab that is active.                *)
EditorTypeOK ==
    /\ {win, ready, closeNow} \subseteq BOOLEAN /\ (ready => win)
    /\ quit \in {"no", "asked", "done"}
    /\ status \in [Files -> {"closed", "loading", "ready", "error"}]
    /\ {text, sent, wanted, editor.stash, editor.base} \subseteq
           [Files -> Texts \cup {NoText}]
    /\ editor.on \in {active, NoFile}
    /\ remote \in [Files -> Texts]
    /\ reading \in [Files -> 0..MaxReads]

EditorInit ==
    /\ win = FALSE /\ ready = FALSE /\ pending = <<>> /\ toEditor = <<>>
    /\ closeNow = FALSE /\ quit = "no" /\ asks = 0 /\ crashes = 0
    /\ status = [f \in Files |-> "closed"] /\ text = NoTexts
    /\ dirty = [f \in Files |-> FALSE] /\ active = NoFile /\ editor = NoEditor
    /\ dialogs = <<>>
    /\ sent = NoTexts /\ confirmed = [f \in Files |-> FALSE]
    /\ reading = [f \in Files |-> 0]
    /\ remote = [f \in Files |-> <<f, 0>>]
    /\ wanted = NoTexts /\ edits = 0

-------------------------------------------------------------------------------
(* Rendering.                                                                  *)

(* Variant: every change of tab builds the editor from the text of the store.  *)
DraftSwapRebuilding(e, f, t) ==
    [e EXCEPT !.on = f, !.doc = IF e.on = f /\ t = e.base[f] THEN e.doc ELSE t,
              !.base[f] = t]

(* planDraftSwap() and what the effect does with it.  For the tab already      *)
(* mounted a new text replaces the draft, or equals it.                        *)
DraftSwap(e, f, t) ==
    LET left == IF e.on = NoFile THEN e.stash ELSE [e.stash EXCEPT ![e.on] = e.doc]
    IN  IF e.on = f
        THEN IF t = e.base[f] THEN e ELSE [e EXCEPT !.doc = t, !.base[f] = t]
        ELSE IF left[f] # NoText /\ e.base[f] = t
        THEN [e EXCEPT !.on = f, !.doc = left[f], !.stash = left]
        ELSE [e EXCEPT !.on = f, !.doc = t, !.stash = left, !.base[f] = t]

(* The stashes of closed tabs are dropped.                                     *)
Cleaned(e, st) ==
    LET gone(f) == st[f] = "closed" /\ e.stash[f] # NoText
    IN  [e EXCEPT !.stash = [f \in Files |-> IF gone(f) THEN NoText ELSE @[f]],
                  !.base = [f \in Files |-> IF gone(f) THEN NoText ELSE @[f]]]

(* Without a text to show there is no editor, and no stash.                    *)
Rendered(f, st, tx) ==
    IF f = NoFile \/ st[f] = "error" \/ tx[f] = NoText THEN NoEditor
    ELSE Cleaned(DraftSwap(editor, f, tx[f]), st)

(* The store changes and the page is rendered; a swap sets the tab's dirty flag.*)
Show(f, st, tx, d) ==
    LET e == Rendered(f, st, tx)
        swapped == e.on # editor.on \/ e.base[e.on] # editor.base[e.on]
    IN  /\ active' = f /\ status' = st /\ text' = tx /\ editor' = e
        /\ dirty' = IF e.on # NoFile /\ swapped
                    THEN [d EXCEPT ![e.on] = (e.doc # e.base[e.on])] ELSE d

-------------------------------------------------------------------------------
(* The window.                                                                 *)

Asks == asks < MaxAsks /\ asks' = asks + 1

OpenFile(f) ==
    /\ Asks
    /\ win' = TRUE
    /\ IF ready THEN toEditor' = Append(toEditor, f) /\ UNCHANGED pending
                ELSE pending' = Append(pending, f) /\ UNCHANGED toEditor
    /\ UNCHANGED <<ready, closeNow, quit, crashes, tabVars, callVars, userVars>>

PageReady ==
    /\ win /\ ~ready
    /\ ready' = TRUE
    /\ toEditor' = pending /\ pending' = <<>>
    /\ UNCHANGED <<win, closeNow, quit, asks, crashes, tabVars, callVars, userVars>>

(* The page is gone with its tabs and questions; a save it had asked for is    *)
(* carried out or not, and nobody is told.                                     *)
PageGone ==
    /\ status' = [f \in Files |-> "closed"] /\ text' = NoTexts
    /\ dirty' = [f \in Files |-> FALSE] /\ active' = NoFile /\ editor' = NoEditor
    /\ dialogs' = <<>> /\ toEditor' = <<>> /\ closeNow' = FALSE
    /\ sent' = NoTexts /\ reading' = [f \in Files |-> 0]
    /\ \E landed \in SUBSET {f \in Files : sent[f] # NoText} :
           remote' = [f \in Files |-> IF f \in landed THEN sent[f] ELSE remote[f]]
    /\ UNCHANGED <<confirmed, edits>>

Closed ==
    /\ PageGone
    /\ win' = FALSE /\ ready' = FALSE /\ pending' = <<>>
    /\ UNCHANGED <<crashes, wanted>>

(* 'close' of the window: a page that is ready is asked first.                 *)
CloseEvent(quitAfter, quitIfOpen) ==
    \/ ~ready /\ Closed /\ quit' = quitAfter
    \/ /\ ready
       /\ toEditor' = Append(toEditor, "closeRequest")
       /\ quit' = quitIfOpen
       /\ UNCHANGED <<win, ready, pending, closeNow, crashes, tabVars, callVars,
                      userVars>>

AfterClosed == IF quit = "asked" THEN "done" ELSE quit

(* The user closes this window, or the main window and this one with it.       *)
CloseWindow ==
    /\ win /\ Asks
    /\ CloseEvent(AfterClosed, quit)

RequestQuit ==
    /\ quit = "no" /\ Asks
    /\ \/ /\ ~win
          /\ quit' = "done"
          /\ UNCHANGED <<win, ready, pending, toEditor, closeNow, crashes, tabVars,
                         callVars, userVars>>
       \/ win /\ CloseEvent("done", "asked")

QuitTimeout ==
    /\ quit = "asked"
    /\ quit' = "no"
    /\ UNCHANGED <<win, ready, pending, toEditor, closeNow, asks, crashes, tabVars,
                   callVars, userVars>>

ConfirmClose ==
    /\ closeNow
    /\ Closed
    /\ quit' = AfterClosed
    /\ UNCHANGED asks

(* The page crashes and is loaded again: what was typed is lost with it.       *)
RenderProcessGone ==
    /\ ready /\ crashes < MaxCrashes
    /\ PageGone
    /\ ready' = FALSE
    /\ wanted' = NoTexts
    /\ crashes' = crashes + 1
    /\ UNCHANGED <<win, pending, quit, asks>>

-------------------------------------------------------------------------------
(* Messages to the page.                                                       *)

Received == toEditor # <<>> /\ toEditor' = Tail(toEditor)

(* Another read may be under way, of this tab or of one of the file that was    *)
(* closed.  Bound: no more than so many.                                       *)
Reload(f, act) ==
    /\ reading[f] < MaxReads
    /\ Show(act, [status EXCEPT ![f] = "loading"], text, dirty)
    /\ reading' = [reading EXCEPT ![f] = @ + 1]
    /\ UNCHANGED <<sent, confirmed, remote>>

OnOpen ==
    /\ Received
    /\ LET f == Head(toEditor)
       IN  /\ f \in Files
           /\ \/ /\ status[f] # "closed"
                 /\ Show(f, status, text, dirty)
                 /\ UNCHANGED callVars
              \/ status[f] = "closed" /\ Reload(f, f)
    /\ UNCHANGED <<win, ready, pending, closeNow, quit, asks, crashes, userVars>>

OnCloseRequest ==
    /\ Received
    /\ Head(toEditor) = "closeRequest"
    /\ \/ /\ \A f \in Files : ~dirty[f]
          /\ closeNow' = TRUE
          /\ UNCHANGED dialogs
       \/ /\ \E f \in Files : dirty[f]
          /\ dialogs' = Append(dialogs, [kind |-> "closeWindow", file |-> NoFile])
          /\ UNCHANGED closeNow
    /\ UNCHANGED <<win, ready, pending, quit, asks, crashes, tabVars, callVars, wanted,
                   edits>>

-------------------------------------------------------------------------------
(* Replies to the page.                                                        *)

(* Each reply is taken for the file, whichever read it answers.                *)
ReadDone(f) ==
    /\ reading[f] > 0
    /\ reading' = [reading EXCEPT ![f] = @ - 1]
    /\ \/ status[f] = "closed" /\ UNCHANGED tabVars
       \/ /\ status[f] # "closed"
          /\ Show(active, [status EXCEPT ![f] = "ready"],
                  [text EXCEPT ![f] = remote[f]], [dirty EXCEPT ![f] = FALSE])
    /\ UNCHANGED <<mainVars, userVars, sent, confirmed, remote>>

ReadFails(f) ==
    /\ reading[f] > 0
    /\ reading' = [reading EXCEPT ![f] = @ - 1]
    /\ \/ status[f] = "closed" /\ UNCHANGED tabVars
       \/ /\ status[f] # "closed"
          /\ Show(active, [status EXCEPT ![f] = "error"],
                  [text EXCEPT ![f] = NoText], dirty)
    /\ UNCHANGED <<mainVars, userVars, sent, confirmed, remote>>

SaveDone(f) ==
    /\ sent[f] # NoText
    /\ remote' = [remote EXCEPT ![f] = sent[f]]
    /\ sent' = [sent EXCEPT ![f] = NoText]
    /\ \/ status[f] = "closed" /\ UNCHANGED tabVars
       \/ /\ status[f] # "closed"
          /\ Show(active, status, [text EXCEPT ![f] = sent[f]],
                  [dirty EXCEPT ![f] = FALSE])
    /\ UNCHANGED <<mainVars, userVars, confirmed, reading>>

(* Bound: a save asks for one confirmation.                                    *)
SaveAsks(f) ==
    /\ sent[f] # NoText /\ ~confirmed[f]
    /\ sent' = [sent EXCEPT ![f] = NoText]
    /\ dialogs' = Append(dialogs, [kind |-> "gate", file |-> f])
    /\ UNCHANGED <<mainVars, tabVars, confirmed, reading, remote, wanted, edits>>

SaveRefused(f) ==
    /\ sent[f] # NoText
    /\ sent' = [sent EXCEPT ![f] = NoText]
    /\ UNCHANGED <<mainVars, tabVars, userVars, confirmed, reading, remote>>

-------------------------------------------------------------------------------
(* The user, while no question is on the screen.                               *)

Unasked == ready /\ dialogs = <<>>

(* A change, or one that takes the changes back.                               *)
Type(f) ==
    /\ Unasked
    /\ editor.on = f /\ status[f] = "ready"
    /\ edits < MaxTyped /\ edits' = edits + 1
    /\ \E doc \in {<<f, edits + 1>>, editor.base[f]} \ {editor.doc} :
           /\ editor' = [editor EXCEPT !.doc = doc]
           /\ dirty' = [dirty EXCEPT ![f] = (doc # editor.base[f])]
           /\ wanted' = [wanted EXCEPT ![f] = doc]
    /\ UNCHANGED <<mainVars, status, text, active, callVars, dialogs>>

SetActive(f) ==
    /\ Unasked
    /\ status[f] # "closed" /\ active # f
    /\ Show(f, status, text, dirty)
    /\ UNCHANGED <<mainVars, callVars, userVars>>

Saves(f, allowed) ==
    /\ sent' = [sent EXCEPT ![f] = editor.doc]
    /\ confirmed' = [confirmed EXCEPT ![f] = allowed]

Save(f) ==
    /\ Unasked
    /\ editor.on = f /\ status[f] = "ready" /\ sent[f] = NoText
    /\ Saves(f, FALSE)
    /\ UNCHANGED <<mainVars, tabVars, userVars, reading, remote>>

(* Another tab becomes active; which one does not matter here.                 *)
CloseFile(f) ==
    LET others == {g \in Files : status[g] # "closed"} \ {f}
        st == [status EXCEPT ![f] = "closed"]
        tx == [text EXCEPT ![f] = NoText]
        d == [dirty EXCEPT ![f] = FALSE]
    IN  /\ \/ active # f /\ Show(active, st, tx, d)
           \/ active = f /\ \E g \in others : Show(g, st, tx, d)
           \/ active = f /\ others = {} /\ Show(NoFile, st, tx, d)
        /\ UNCHANGED callVars

TryClose(f) ==
    /\ Unasked
    /\ status[f] # "closed"
    /\ \/ ~dirty[f] /\ CloseFile(f) /\ UNCHANGED dialogs
       \/ /\ dirty[f]
          /\ dialogs' = Append(dialogs, [kind |-> "close", file |-> f])
          /\ UNCHANGED <<tabVars, callVars>>
    /\ UNCHANGED <<mainVars, wanted, edits>>

(* The button of the tab that is shown, in any status.                         *)
TryReload(f) ==
    /\ Unasked
    /\ active = f
    /\ \/ ~dirty[f] /\ Reload(f, f) /\ UNCHANGED dialogs
       \/ /\ dirty[f]
          /\ dialogs' = Append(dialogs, [kind |-> "reload", file |-> f])
          /\ UNCHANGED <<tabVars, callVars>>
    /\ UNCHANGED <<mainVars, wanted, edits>>

(* doSave() again, with the text that docRef gives now.                        *)
Confirmed(f) ==
    IF editor.on = NoFile \/ status[f] = "closed" \/ text[f] = NoText \/ sent[f] # NoText
    THEN UNCHANGED <<sent, confirmed>>
    ELSE Saves(f, TRUE)

Cancel ==
    /\ dialogs # <<>>
    /\ dialogs' = Front(dialogs)
    /\ UNCHANGED <<mainVars, tabVars, callVars, wanted, edits>>

Agree ==
    /\ dialogs # <<>>
    /\ dialogs' = Front(dialogs)
    /\ LET f == Last(dialogs).file
           kind == Last(dialogs).kind
       IN  /\ \/ /\ kind = "gate" /\ Confirmed(f)
                 /\ UNCHANGED <<tabVars, reading, remote, wanted, closeNow>>
              \/ /\ kind = "close" /\ CloseFile(f)
                 /\ wanted' = [wanted EXCEPT ![f] = NoText]
                 /\ UNCHANGED closeNow
              \/ /\ kind = "reload" /\ Reload(f, active)
                 /\ wanted' = [wanted EXCEPT ![f] = NoText]
                 /\ UNCHANGED closeNow
              \/ /\ kind = "closeWindow" /\ closeNow' = TRUE
                 /\ wanted' = NoTexts
                 /\ UNCHANGED <<tabVars, callVars>>
    /\ UNCHANGED <<win, ready, pending, toEditor, quit, asks, crashes, edits>>

-------------------------------------------------------------------------------
EditorSystem ==
    \/ PageReady \/ ConfirmClose \/ RenderProcessGone \/ QuitTimeout
    \/ OnOpen \/ OnCloseRequest
    \/ \E f \in Files : \/ ReadDone(f) \/ ReadFails(f)
                        \/ SaveDone(f) \/ SaveAsks(f) \/ SaveRefused(f)

EditorNext ==
    /\ quit # "done"
    /\ \/ EditorSystem \/ CloseWindow \/ RequestQuit \/ Cancel \/ Agree
       \/ \E f \in Files : \/ OpenFile(f) \/ Type(f) \/ SetActive(f) \/ Save(f)
                           \/ TryClose(f) \/ TryReload(f)

EditorSpec == EditorInit /\ [][EditorNext]_editorVars

(* A user who waits for what was asked to be done, opens or reads files again   *)
(* only while no other has changes, and neither closes nor reads again a tab   *)
(* that is being read.                                                         *)
Calm == dialogs = <<>> /\ ~closeNow /\ sent = NoTexts
Clean(fs) == \A f \in fs : ~dirty[f]
AllShown ==
    /\ pending = <<>> /\ Files \cap ToSet(toEditor) = {}
    /\ \A f \in Files : status[f] \in {"closed", "ready"}

PatientNext ==
    /\ quit # "done"
    /\ \/ EditorSystem \/ CloseWindow \/ RequestQuit \/ Cancel \/ Agree
       \/ \E f \in Files :
              \/ Calm /\ Clean(Files) /\ OpenFile(f)
              \/ Calm /\ AllShown /\ (Type(f) \/ Save(f))
              \/ Calm /\ SetActive(f)
              \/ Calm /\ reading[f] = 0 /\ TryClose(f)
              \/ Calm /\ reading[f] = 0 /\ Clean(Files \ {f}) /\ TryReload(f)

PatientSpec == EditorInit /\ [][PatientNext]_editorVars

-------------------------------------------------------------------------------
(* What the tab of the file holds, or would when it is shown.                  *)
Content(f) ==
    IF editor.on = f THEN editor.doc
    ELSE IF editor.stash[f] # NoText /\ editor.base[f] = text[f] THEN editor.stash[f]
    ELSE text[f]

(* What the user has typed last into a file and has not agreed to discard is   *)
(* in its tab or on the remote machine, through changes of tab, reloads,       *)
(* saves with their questions, closing and quitting.                           *)
DraftsSurvive ==
    \A f \in Files : wanted[f] # NoText => wanted[f] \in {Content(f), remote[f]}
===============================================================================
