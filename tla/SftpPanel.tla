------------------------------- MODULE SftpPanel -------------------------------
(* What the window shows of the uploads of a session: the rows of its transfer *)
(* list (stores/useTransferStore.ts), fed by the batches of the queue          *)
(* (TransferQueue.ts, publish and flushStates), and the listing of the SFTP    *)
(* panel (features/sftp/SftpPane.tsx), which is read again when an upload has  *)
(* landed.  Everything main sends or replies at once goes to the window in one *)
(* order (mail); a directory is read on the remote machine, and its reply      *)
(* comes at any time.                                                          *)
(*                                                                             *)
(* How the queue gets a task from queued to its end is in TransferQueue.  The  *)
(* panel watches by row and by bytes; a row that waits for a minute (paused,   *)
(* or behind other sessions) is left out, and so is the deadline of six hours. *)
EXTENDS Naturals, Sequences

CONSTANTS
    Dirs, NoDir,    \* remote directories; the panel is not there
    Home,           \* where the panel begins
    MaxUploads,     \* bound: uploads
    MaxActs         \* bound: what the user does, and crashes of the page

ASSUME PanelAssumption ==
    /\ NoDir \notin Dirs
    /\ Home \in Dirs
    /\ {MaxUploads, MaxActs} \subseteq Nat

VARIABLES
    (* main process *)
    entry,      \* the state of each task, "none" where entries has none, and
                \* "active" for all that are not final
    target,     \* the directory of each upload
    landed,     \* uploads that the remote machine has
    buffer,     \* pendingStates; its timer runs unless it is empty
    mail,       \* on the way to the window, in order
    (* the window *)
    page,       \* "open", or "loading" after a crash
    rows,       \* its row of each task, or "none"
    watch,      \* watchTransfers of each upload: "no" when it is over
    cwd, listing, error,
    loads,      \* loadSeqRef
    requests,   \* loads whose reply has not come
    change,     \* the directory of a mkdir, rename or delete under way
    (* bounds and history *)
    acts,
    again,      \* the uploads that were repeated
    wish        \* the directory the user last asked for

panelVars == <<entry, target, landed, buffer, mail, page, rows, watch, cwd, listing,
               error, loads, requests, change, acts, again, wish>>

Uploads == 1 .. MaxUploads
Over == {"done", "error"}

Unread == {0}   \* the directory has not been read for a request

PanelInit ==
    /\ entry = [t \in Uploads |-> "none"]
    /\ target = [t \in Uploads |-> NoDir]
    /\ landed = {}
    /\ buffer = {}
    /\ mail = <<>>
    /\ page = "open"
    /\ rows = [t \in Uploads |-> "none"]
    /\ watch = [t \in Uploads |-> "no"]
    /\ cwd = Home /\ listing = {} /\ error = FALSE
    /\ loads = 0 /\ requests = {}
    /\ change = NoDir
    /\ acts = 0
    /\ again = {}
    /\ wish = Home

-------------------------------------------------------------------------------
(* The queue                                                                   *)

Snapshot(S) == [t \in {u \in S : entry[u] # "none"} |-> entry[t]]

\* A message that finds no subscriber is lost.
Send(m) == mail' = IF page = "open" THEN Append(mail, m) ELSE mail

BecomesState(t, s) ==
    /\ entry' = [entry EXCEPT ![t] = s]
    /\ buffer' = buffer \cup {t}

TaskEnds(t) ==
    /\ entry[t] = "active"
    /\ \/ BecomesState(t, "done") /\ landed' = landed \cup {t}
       \/ BecomesState(t, "error") /\ UNCHANGED landed
    /\ UNCHANGED <<target, mail, page, rows, watch, cwd, listing, error, loads,
                   requests, change, acts, wish, again>>

\* The timer, or a batch that is full.
FlushStates ==
    /\ buffer # {}
    /\ buffer' = {}
    /\ IF DOMAIN Snapshot(buffer) = {} THEN UNCHANGED mail
       ELSE Send([kind |-> "states", rows |-> Snapshot(buffer)])
    /\ UNCHANGED <<entry, target, landed, page, rows, watch, cwd, listing, error,
                   loads, requests, change, acts, wish, again>>

-------------------------------------------------------------------------------
(* The panel                                                                   *)

Loading == \E r \in requests : r.n = loads

Load(dir, silent) ==
    /\ loads' = loads + 1
    /\ requests' = requests \cup
           {[n |-> loads + 1, dir |-> dir, silent |-> silent, waited |-> Loading,
             list |-> Unread]}
    /\ error' = (error /\ silent)

Acts == page = "open" /\ acts < MaxActs /\ acts' = acts + 1

\* The user opens a directory, or the terminal's cd takes the panel there.
Navigate(dir, silent) ==
    /\ Acts
    /\ cwd # NoDir /\ change = NoDir
    /\ silent => dir # cwd
    /\ wish' = dir
    /\ Load(dir, silent)
    /\ UNCHANGED <<entry, target, landed, buffer, mail, page, rows, watch, cwd,
                   listing, change, again>>

\* mkdir, touch, rename, delete and chmod load the directory they began in.
ChangeBegins ==
    /\ Acts
    /\ cwd # NoDir /\ change = NoDir /\ ~Loading
    /\ change' = cwd
    /\ UNCHANGED <<entry, target, landed, buffer, mail, page, rows, watch, cwd,
                   listing, error, loads, requests, wish, again>>

ChangeEnds ==
    /\ change # NoDir
    /\ Load(change, FALSE) \/ UNCHANGED <<loads, requests, error>>   \* it failed
    /\ change' = NoDir
    /\ UNCHANGED <<entry, target, landed, buffer, mail, page, rows, watch, cwd,
                   listing, acts, wish, again>>

DirectoryRead(r) ==
    /\ r.list = Unread
    /\ requests' = (requests \ {r})
           \cup {[r EXCEPT !.list = {t \in landed : target[t] = r.dir}]}
    /\ UNCHANGED <<entry, target, landed, buffer, mail, page, rows, watch, cwd,
                   listing, error, loads, change, acts, wish, again>>

(* Variant: a reply counts whenever it comes.                                  *)
IsLatestAlways(r) == r.n > 0

IsLatest(r) == r.n = loads

LoadSucceeds(r) ==
    /\ r.list # Unread
    /\ requests' = requests \ {r}
    /\ IF IsLatest(r)
       THEN cwd' = r.dir /\ listing' = r.list /\ error' = FALSE
       ELSE UNCHANGED <<cwd, listing, error>>
    /\ UNCHANGED <<entry, target, landed, buffer, mail, page, rows, watch, loads,
                   change, acts, wish, again>>

\* A cd that cannot be followed leaves the panel alone, the refresh that it took
\* the turn of included: the terminal follows only a panel that is not loading.
LoadFails(r) ==
    /\ ~(r.silent /\ r.waited)
    /\ requests' = requests \ {r}
    /\ error' = (error \/ (IsLatest(r) /\ ~r.silent))
    /\ UNCHANGED <<entry, target, landed, buffer, mail, page, rows, watch, cwd,
                   listing, loads, change, acts, wish, again>>

-------------------------------------------------------------------------------
(* Uploads and the rows of the window                                          *)

\* watchTransfers() subscribes before the task is enqueued.
Upload(t, dir) ==
    /\ Acts
    /\ cwd # NoDir
    /\ entry[t] = "none" /\ target[t] = NoDir
    /\ \A u \in Uploads : u < t => target[u] # NoDir
    /\ target' = [target EXCEPT ![t] = dir]
    /\ watch' = [watch EXCEPT ![t] = "subscribed"]
    /\ BecomesState(t, "active")
    /\ Send([kind |-> "enqueued", rows |-> [u \in {t} |-> "active"]])
    /\ UNCHANGED <<landed, page, rows, cwd, listing, error, loads, requests, change,
                   wish, again>>

RetryUpload(t) ==
    /\ Acts
    /\ entry[t] = "error" /\ rows[t] = "error"
    /\ again' = again \cup {t}
    /\ BecomesState(t, "active")
    /\ UNCHANGED <<target, landed, mail, page, rows, watch, cwd, listing, error,
                   loads, requests, change, wish>>

Clear ==
    /\ Acts
    /\ \E t \in Uploads : rows[t] \in Over
    /\ entry' = [t \in Uploads |-> IF entry[t] \in Over THEN "none" ELSE entry[t]]
    /\ Send([kind |-> "cleared", rows |-> <<>>])
    /\ UNCHANGED <<target, landed, buffer, page, rows, watch, cwd, listing, error,
                   loads, requests, change, wish, again>>

(* Variant: a watch settles when no row is active, be its own there or not.    *)
CheckedAtOnce(new, w) ==
    LET settle == IF \E t \in Uploads : new[t] = "active" THEN {}
                  ELSE {t \in Uploads : w[t] = "asked"}
    IN  /\ watch' = [t \in Uploads |-> IF t \in settle THEN "no" ELSE w[t]]
        /\ IF settle # {} THEN Load(cwd, FALSE) ELSE UNCHANGED <<loads, requests, error>>

\* The settle function of each watch looks at the rows it now finds; all that
\* settle in one event ask for the same directory, and the last one counts.
Checked(new, w) ==
    LET seen == [t \in Uploads |->
                    IF w[t] = "asked" /\ new[t] # "none" THEN "seen" ELSE w[t]]
        settle == IF \E t \in Uploads : new[t] = "active" THEN {}
                  ELSE {t \in Uploads : seen[t] = "seen"}
    IN  /\ watch' = [t \in Uploads |-> IF t \in settle THEN "no" ELSE seen[t]]
        /\ IF settle # {} THEN Load(cwd, FALSE) ELSE UNCHANGED <<loads, requests, error>>

Upserted(m) == [t \in Uploads |-> IF t \in DOMAIN m.rows THEN m.rows[t] ELSE rows[t]]

Inserted(m) ==
    [t \in Uploads |-> IF t \in DOMAIN m.rows /\ rows[t] = "none" THEN m.rows[t] ELSE rows[t]]

Uncleared == [t \in Uploads |-> IF rows[t] \in Over THEN "none" ELSE rows[t]]

Asked(t) == [watch EXCEPT ![t] = IF @ = "subscribed" THEN "asked" ELSE @]

MessageArrives ==
    /\ mail # <<>>
    /\ mail' = Tail(mail)
    /\ LET m == Head(mail)
       IN  \/ m.kind = "states" /\ rows' = Upserted(m) /\ Checked(rows', watch)
           \/ m.kind = "list" /\ rows' = Inserted(m) /\ Checked(rows', watch)
           \/ m.kind = "cleared" /\ rows' = Uncleared /\ Checked(rows', watch)
           \/ /\ m.kind = "enqueued"
              /\ rows' = rows
              /\ \E t \in DOMAIN m.rows : Checked(rows, Asked(t))
    /\ UNCHANGED <<entry, target, landed, buffer, page, cwd, listing, change, acts, wish, again>>

\* A minute without a byte: nothing moves in the queue or on the way.
SettleTimesOut ==
    /\ \E t \in Uploads : watch[t] # "no"
    /\ mail = <<>> /\ buffer = {}
    /\ \A t \in Uploads : entry[t] # "active"
    /\ watch' = [t \in Uploads |-> "no"]
    /\ Load(cwd, FALSE)
    /\ UNCHANGED <<entry, target, landed, buffer, mail, page, rows, cwd, listing,
                   change, acts, wish, again>>

\* The page crashes and is loaded again, without the panel.
PageCrashes ==
    /\ Acts
    /\ page' = "loading"
    /\ mail' = <<>>
    /\ rows' = [t \in Uploads |-> "none"]
    /\ watch' = [t \in Uploads |-> "no"]
    /\ cwd' = NoDir /\ listing' = {} /\ error' = FALSE
    /\ requests' = {}
    /\ change' = NoDir
    /\ UNCHANGED <<entry, target, landed, buffer, loads, wish, again>>

(* Variant: the list is fed by events alone.                                   *)
PageStartsEmpty ==
    /\ page = "loading"
    /\ page' = "open"
    /\ UNCHANGED <<entry, target, landed, buffer, mail, rows, watch, cwd, listing,
                   error, loads, requests, change, acts, wish, again>>

PageStarts ==
    /\ page = "loading"
    /\ page' = "open"
    /\ mail' = <<[kind |-> "list", rows |-> Snapshot(Uploads)]>>
    /\ UNCHANGED <<entry, target, landed, buffer, rows, watch, cwd, listing, error,
                   loads, requests, change, acts, wish, again>>

-------------------------------------------------------------------------------
PanelProgress ==
    \/ \E t \in Uploads : TaskEnds(t)
    \/ FlushStates
    \/ MessageArrives
    \/ SettleTimesOut
    \/ PageStarts
    \/ ChangeEnds
    \/ \E r \in requests : DirectoryRead(r) \/ LoadSucceeds(r) \/ LoadFails(r)

PanelNext ==
    \/ PanelProgress
    \/ \E t \in Uploads, dir \in Dirs : Upload(t, dir)
    \/ \E t \in Uploads : RetryUpload(t)
    \/ \E dir \in Dirs, silent \in BOOLEAN : Navigate(dir, silent)
    \/ ChangeBegins
    \/ Clear
    \/ PageCrashes

PanelSpec == PanelInit /\ [][PanelNext]_panelVars

-------------------------------------------------------------------------------
(* Properties                                                                  *)

PanelTypeOK ==
    /\ entry \in [Uploads -> {"none", "active"} \cup Over]
    /\ target \in [Uploads -> Dirs \cup {NoDir}]
    /\ landed \subseteq Uploads /\ buffer \subseteq Uploads /\ listing \subseteq Uploads
    /\ page \in {"open", "loading"}
    /\ rows \in [Uploads -> {"none", "active"} \cup Over]
    /\ watch \in [Uploads -> {"no", "subscribed", "asked", "seen"}]
    /\ {cwd, change} \subseteq Dirs \cup {NoDir}
    /\ wish \in Dirs
    /\ error \in BOOLEAN
    /\ \A r \in requests : r.n \in 1 .. loads
    /\ acts \in 0 .. MaxActs

\* Once nothing moves, the window shows every task of the queue in the state that
\* the queue gives it, over batches, clearing, and crashes of the page.
ViewConverges == <>[](\A t \in Uploads : entry[t] # "none" => rows[t] = entry[t])

\* Once nothing moves, the panel shows every upload that landed in its directory at
\* the first attempt, or an error, whatever else was loaded in between.
UploadShown ==
    <>[](\A t \in landed \ again : target[t] = cwd => t \in listing \/ error)

\* The panel goes to another directory only if it is the one the user last asked
\* for: not back to one whose reply was late, nor to one that is only read again.
GoesWhereAsked == [][cwd' \in {cwd, wish, NoDir}]_panelVars
==============================================================================
