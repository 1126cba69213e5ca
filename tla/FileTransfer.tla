------------------------------ MODULE FileTransfer ------------------------------
(* The way of a file, from the user's request to its final name: the question  *)
(* about a name that is taken (UploadConflictModal.tsx, SftpPane.tsx), the     *)
(* verdict applied before the queue (sftp/conflictProbe.ts, conflictPlan.ts),  *)
(* and the worker (sftp/TransferWorker.ts), which keeps several requests under *)
(* way, writes a .part file, resumes it, and renames it when it is whole.      *)
(*                                                                             *)
(* A file is the sequence of its blocks, each named after the job whose source *)
(* it came from, 0 for a hole.  Every job has a source of its own that does    *)
(* not change, and all of them ask for the same name of one directory on       *)
(* either side.  When a task runs is the matter of TransferQueue; two workers  *)
(* on one .part file are not followed.                                         *)
EXTENDS Naturals, Sequences, FiniteSets, FiniteSetsExt

CONSTANTS
    Policies,   \* settings.sftp.conflictPolicy: ask, overwrite, skip, rename
    Blocks,     \* of CHUNK_SIZE in a file
    Window,     \* CONCURRENCY
    MaxJobs,    \* bound: uploads and downloads the user asks for
    MaxOrders,  \* bound: pauses, cancels, resumes and retries
    MaxOthers,  \* bound: files that others put into the remote directory
    MaxFaults   \* bound: failures of requests

ASSUME TransferAssumption ==
    /\ Policies \subseteq {"ask", "overwrite", "skip", "rename"}
    /\ {Blocks, Window, MaxJobs} \subseteq Nat \ {0}
    /\ {MaxOrders, MaxOthers, MaxFaults} \subseteq Nat

VARIABLES
    policy,
    request,    \* the upload that the modal asks about, 0 for none
    aborted,    \* abortedRef
    result,     \* the modal shows names that are taken
    probes,     \* requests of the modal under way
    plans,      \* calls of transfer:enqueue that look at the directory first
    copies,     \* the tasks, in the order of their creation
    final,      \* files under final names, in the remote and the local directory
    part,       \* their .ofspart and .part files
    wants,      \* what the user asked for, and took back
    orders, others, faults

modalVars == <<request, aborted, result, probes>>
countVars == <<orders, others, faults>>
copyVars == <<policy, modalVars, plans, copies, final, part, wants, countVars>>

Directions == {"upload", "download"}
Jobs == 1 .. MaxJobs

(* The name that is asked for, and those dedupeName() gives after it.          *)
Names == 1 .. (1 + MaxJobs + MaxOrders + MaxOthers)

Foreign == [b \in 1 .. Blocks |-> MaxJobs + 1]

CopyInit ==
    /\ policy \in Policies
    /\ request = 0
    /\ aborted = FALSE
    /\ result = FALSE
    /\ probes = {}
    /\ plans = <<>>
    /\ copies = <<>>
    /\ \E taken \in {{}, {1}} :
          final = [d \in Directions |-> [n \in IF d = "upload" THEN taken ELSE {} |-> Foreign]]
    /\ part = [d \in Directions |-> [n \in {} |-> <<>>]]
    /\ wants = [j \in Jobs |-> "no"]
    /\ orders = 0
    /\ others = 0
    /\ faults = 0

-------------------------------------------------------------------------------
(* Files                                                                       *)

With(files, d, n, content) ==
    [files EXCEPT ![d] = [m \in DOMAIN @ \cup {n} |-> IF m = n THEN content ELSE @[m]]]
Without(files, d, n) == [files EXCEPT ![d] = [m \in DOMAIN @ \ {n} |-> @[m]]]

Exists(files, d, n) == n \in DOMAIN files[d]

(* A write at an offset beyond the end leaves a hole.                          *)
Written(content, b, j) ==
    [i \in 1 .. Max({Len(content), b}) |->
        IF i = b THEN j ELSE IF i <= Len(content) THEN content[i] ELSE 0]

(* The first name after n that nobody has.                                     *)
FreeName(n) == Min({m \in Names : m > n /\ ~Exists(final, "upload", m)})

FileOf(c) == <<c.kind, c.name>>
PartOf(c) == IF Exists(part, c.kind, c.name) THEN part[c.kind][c.name] ELSE <<>>

-------------------------------------------------------------------------------
(* The request of the user, and the question about names that are taken        *)

NewCopy(j, kind, n, action, state) ==
    [job |-> j, kind |-> kind, name |-> n, action |-> action, state |-> state,
     attempted |-> FALSE, stage |-> "idle", resume |-> FALSE, next |-> 1, flight |-> {},
     err |-> "none", pause |-> FALSE, cancel |-> FALSE, landing |-> 0]

(* What a worker knows is forgotten with it.                                   *)
Idle(c) == [c EXCEPT !.stage = "idle", !.resume = FALSE, !.next = 1, !.flight = {},
                     !.err = "none", !.pause = FALSE, !.cancel = FALSE, !.landing = 0]

(* transfer:enqueue: skip and rename are applied to the names first.           *)
Proceed(j, action) ==
    \/ /\ action \in {"skip", "rename"}
       /\ plans' = Append(plans, [job |-> j, action |-> action])
       /\ UNCHANGED copies
    \/ /\ action \notin {"skip", "rename"}
       /\ copies' = Append(copies, NewCopy(j, "upload", 1, action, "queued"))
       /\ UNCHANGED plans

(* The jobs are asked for one after the other.                                 *)
Asks(j) ==
    /\ wants[j] = "no"
    /\ \A i \in Jobs : i < j => wants[i] # "no"
    /\ wants' = [wants EXCEPT ![j] = "asked"]

StartUpload(j) ==
    /\ request = 0
    /\ Asks(j)
    /\ \/ /\ policy # "ask"
          /\ Proceed(j, policy)
          /\ UNCHANGED modalVars
       \/ /\ policy = "ask"
          /\ request' = j
          /\ aborted' = FALSE
          /\ result' = FALSE
          /\ probes' = probes \cup {j}
          /\ UNCHANGED <<plans, copies>>
    /\ UNCHANGED <<policy, final, part, countVars>>

StartDownload(j) ==
    /\ Asks(j)
    /\ copies' = Append(copies, NewCopy(j, "download", 1, "none", "queued"))
    /\ UNCHANGED <<policy, modalVars, plans, final, part, countVars>>

CancelUpload ==
    /\ request # 0
    /\ aborted' = TRUE
    /\ request' = 0
    /\ wants' = [wants EXCEPT ![request] = "withdrawn"]
    /\ UNCHANGED <<policy, result, probes, plans, copies, final, part, countVars>>

(* Variant: the answer is used although its request was taken back.            *)
ProbeAnsweredAlways(j) ==
    /\ j \in probes
    /\ probes' = probes \ {j}
    /\ \/ /\ Exists(final, "upload", 1)
          /\ result' = TRUE
          /\ UNCHANGED <<request, plans, copies>>
       \/ /\ request' = 0
          /\ Proceed(j, "none")
          /\ UNCHANGED result
    /\ UNCHANGED <<policy, aborted, final, part, wants, countVars>>

(* The answer to the probe of job j meets the modal of the job shown by then;  *)
(* the upload it goes on with is j's.  A probe that fails asks nothing.        *)
ProbeAnswered(j) ==
    /\ j \in probes
    /\ probes' = probes \ {j}
    /\ \/ /\ aborted
          /\ UNCHANGED <<request, result, plans, copies>>
       \/ /\ ~aborted
          /\ Exists(final, "upload", 1)
          /\ result' = TRUE
          /\ UNCHANGED <<request, plans, copies>>
       \/ /\ ~aborted
          /\ request' = 0
          /\ Proceed(j, "none")
          /\ UNCHANGED result
    /\ UNCHANGED <<policy, aborted, final, part, wants, countVars>>

Decide(action) ==
    /\ request # 0
    /\ result
    /\ result' = FALSE
    /\ request' = 0
    /\ Proceed(request, action)
    /\ UNCHANGED <<policy, aborted, probes, final, part, wants, countVars>>

(* applyConflictPlan(); a look at the directory that fails changes nothing.    *)
Planned(i) ==
    /\ i \in DOMAIN plans
    /\ plans' = [k \in 1 .. Len(plans) - 1 |-> IF k < i THEN plans[k] ELSE plans[k + 1]]
    /\ LET p == plans[i]
           taken == Exists(final, "upload", 1)
       IN  \/ copies' = Append(copies, NewCopy(p.job, "upload", 1, p.action, "queued"))
           \/ /\ taken /\ p.action = "skip"
              /\ copies' = Append(copies, NewCopy(p.job, "upload", 1, "skip", "skipped"))
           \/ /\ taken /\ p.action = "rename"
              /\ copies' = Append(copies, NewCopy(p.job, "upload", FreeName(1), "rename",
                                                  "queued"))
    /\ UNCHANGED <<policy, modalVars, final, part, wants, countVars>>

-------------------------------------------------------------------------------
(* Orders of the user to a task                                                *)

Ordered(t, c) ==
    /\ orders < MaxOrders
    /\ orders' = orders + 1
    /\ copies' = [copies EXCEPT ![t] = c]
    /\ UNCHANGED <<policy, modalVars, plans, final, part, wants, others, faults>>

Pause(t) ==
    \/ /\ copies[t].state = "running"
       /\ Ordered(t, [copies[t] EXCEPT !.pause = TRUE])
    \/ /\ copies[t].state = "queued"
       /\ Ordered(t, [copies[t] EXCEPT !.state = "paused"])

CancelCopy(t) ==
    /\ copies[t].state \in {"queued", "running", "paused"}
    /\ Ordered(t, [copies[t] EXCEPT !.state = "canceled",
                                    !.cancel = copies[t].stage # "idle"])

Again(t) ==
    /\ copies[t].state \in {"paused", "error", "canceled"}
    /\ Ordered(t, [copies[t] EXCEPT !.state = "queued"])

-------------------------------------------------------------------------------
(* The worker: its window of requests                                          *)

Becoming(t, c) == copies' = [copies EXCEPT ![t] = c]

UnchangedByWorker == UNCHANGED <<policy, modalVars, plans, wants, orders, others>>

(* resolveResume(): only a task that ran before goes on with a .part file.     *)
CopyStarts(t) ==
    LET c == copies[t]
    IN  /\ c.state = "queued"
        /\ c.stage = "idle"
        /\ \A u \in DOMAIN copies : copies[u].stage # "idle" => FileOf(copies[u]) # FileOf(c)
        /\ Becoming(t, [c EXCEPT !.state = "running", !.attempted = TRUE, !.stage = "open",
                                 !.resume = c.attempted /\ PartOf(c) # <<>>])
        /\ UnchangedByWorker
        /\ UNCHANGED <<final, part, faults>>

(* One turn of runWindow's loop: an abort is noticed, or requests are issued.  *)
Turn(c) ==
    IF c.pause \/ c.cancel THEN [c EXCEPT !.err = "aborted"]
    ELSE LET n == Min({Window - Cardinality(c.flight), Blocks + 1 - c.next})
         IN  [c EXCEPT !.flight = @ \cup (c.next .. c.next + n - 1), !.next = @ + n]

Eof(c) == c.next > Blocks /\ Cardinality(c.flight) < Window

AfterRequests(c, S) ==
    LET d == [c EXCEPT !.flight = @ \ S]
    IN  IF c.err # "none" \/ Eof(c) THEN d ELSE Turn(d)

Opened(t) ==
    LET c == copies[t]
        offset == IF c.resume /\ Len(PartOf(c)) <= Blocks THEN Len(PartOf(c)) ELSE 0
    IN  /\ c.stage = "open"
        /\ part' = With(part, c.kind, c.name, IF offset = 0 THEN <<>> ELSE PartOf(c))
        /\ Becoming(t, Turn([c EXCEPT !.stage = "window", !.next = offset + 1]))
        /\ UnchangedByWorker
        /\ UNCHANGED <<final, faults>>

(* Requests are served in any order: local reads and writes race each other.   *)
Transferred(t, b) ==
    LET c == copies[t]
    IN  /\ b \in c.flight
        /\ part' = With(part, c.kind, c.name, Written(PartOf(c), b, c.job))
        /\ Becoming(t, AfterRequests(c, {b}))
        /\ UnchangedByWorker
        /\ UNCHANGED <<final, faults>>

(* The requests S fail together: at most one of the errors is kept.            *)
RequestsFail(t, S) ==
    LET c == copies[t]
    IN  /\ S # {} /\ S \subseteq c.flight
        /\ faults < MaxFaults
        /\ faults' = faults + 1
        /\ Becoming(t, AfterRequests([c EXCEPT !.err = IF @ = "none" THEN "error" ELSE @], S))
        /\ UnchangedByWorker
        /\ UNCHANGED <<final, part>>

-------------------------------------------------------------------------------
(* The worker: its end                                                         *)

(* A task that was canceled meanwhile keeps that state when its work succeeds. *)
Ends(t, state) == Becoming(t, Idle([copies[t] EXCEPT !.state = state]))

(* Variant: an error or an order ends the window with requests under way.      *)
WindowIsOverAtOnce(c) == c.err # "none" \/ (c.flight = {} /\ c.next > Blocks)

WindowIsOver(c) == c.flight = {} /\ (c.err # "none" \/ c.next > Blocks)

(* The files are closed.  An error comes before an order, an order before the  *)
(* landing; the .part file is removed only for a cancel, if it can be.         *)
WindowEnds(t) ==
    LET c == copies[t]
    IN  /\ c.stage = "window"
        /\ WindowIsOver(c)
        /\ \/ /\ c.err = "error"
              /\ Ends(t, "error")
              /\ UNCHANGED <<part, faults>>
           \/ /\ c.err # "error" /\ c.cancel
              /\ Ends(t, "canceled")
              /\ \/ part' = Without(part, c.kind, c.name) /\ UNCHANGED faults
                 \/ faults < MaxFaults /\ faults' = faults + 1 /\ UNCHANGED part
           \/ /\ c.err # "error" /\ c.pause /\ ~c.cancel
              /\ Ends(t, "paused")
              /\ UNCHANGED <<part, faults>>
           \/ /\ c.err = "none" /\ ~c.pause /\ ~c.cancel
              /\ Becoming(t, [c EXCEPT !.stage = IF c.kind = "upload" THEN "stat" ELSE "replace",
                                       !.landing = c.name])
              /\ UNCHANGED <<part, faults>>
        /\ UnchangedByWorker
        /\ UNCHANGED final

(* Variant: the setting alone decides.                                         *)
EffectiveActionOfSetting(c) == IF policy = "ask" THEN "overwrite" ELSE policy

(* effectiveAction()                                                           *)
EffectiveAction(c) ==
    IF c.action # "none" THEN c.action
    ELSE IF policy = "ask" THEN "overwrite" ELSE policy

(* An upload looks once more whether its name is taken.                        *)
LandingChecked(t) ==
    LET c == copies[t]
        taken == Exists(final, "upload", c.name)
    IN  /\ c.stage = "stat"
        /\ \/ /\ ~taken
              /\ Becoming(t, [c EXCEPT !.stage = "rename"])
              /\ UNCHANGED part
           \/ /\ taken /\ EffectiveAction(c) = "skip"
              /\ Ends(t, "skipped")
              /\ part' = Without(part, c.kind, c.name)
           \/ /\ taken /\ EffectiveAction(c) = "rename"
              /\ Becoming(t, [c EXCEPT !.stage = "rename", !.landing = FreeName(c.name)])
              /\ UNCHANGED part
           \/ /\ taken /\ EffectiveAction(c) = "overwrite"
              /\ Becoming(t, [c EXCEPT !.stage = "replace"])
              /\ UNCHANGED part
        /\ UnchangedByWorker
        /\ UNCHANGED <<final, faults>>

(* A download always replaces what bears its name.                             *)
Replaced(t) ==
    LET c == copies[t]
    IN  /\ c.stage = "replace"
        /\ final' = Without(final, c.kind, c.name)
        /\ Becoming(t, [c EXCEPT !.stage = "rename"])
        /\ UnchangedByWorker
        /\ UNCHANGED <<part, faults>>

(* The rename of SFTP does not replace a file, the local one does.             *)
Landed(t) ==
    LET c == copies[t]
        done == [copies[t] EXCEPT !.name = c.landing,
                                  !.state = IF @ = "canceled" THEN @ ELSE "done"]
    IN  /\ c.stage = "rename"
        /\ \/ /\ Exists(part, c.kind, c.name)
              /\ c.kind = "upload" => ~Exists(final, c.kind, c.landing)
              /\ final' = With(final, c.kind, c.landing, PartOf(c))
              /\ part' = Without(part, c.kind, c.name)
              /\ Becoming(t, Idle(done))
           \/ /\ \/ ~Exists(part, c.kind, c.name)
                 \/ c.kind = "upload" /\ Exists(final, c.kind, c.landing)
              /\ Ends(t, "error")
              /\ UNCHANGED <<final, part>>
        /\ UnchangedByWorker
        /\ UNCHANGED faults

(* Any other request of the worker fails.                                      *)
CopyFails(t) ==
    LET c == copies[t]
    IN  /\ c.stage \in {"open", "stat", "replace", "rename"}
        /\ faults < MaxFaults
        /\ faults' = faults + 1
        /\ \/ UNCHANGED part
           \/ c.stage = "open" /\ ~c.resume /\ part' = Without(part, c.kind, c.name)
        /\ Ends(t, "error")
        /\ UnchangedByWorker
        /\ UNCHANGED final

-------------------------------------------------------------------------------
OtherWrites(n) ==
    /\ others < MaxOthers
    /\ others' = others + 1
    /\ ~Exists(final, "upload", n)
    /\ final' = With(final, "upload", n, Foreign)
    /\ UNCHANGED <<policy, modalVars, plans, copies, part, wants, orders, faults>>

UserBegins == \E j \in Jobs : StartUpload(j) \/ StartDownload(j)

UserOrders(t) == Pause(t) \/ CancelCopy(t) \/ Again(t)

CopyStep(t) ==
    \/ CopyStarts(t) \/ Opened(t) \/ WindowEnds(t) \/ LandingChecked(t) \/ Replaced(t)
    \/ Landed(t) \/ CopyFails(t)
    \/ \E b \in 1 .. Blocks : Transferred(t, b)

RequestStep ==
    \/ CancelUpload
    \/ \E j \in Jobs : ProbeAnswered(j)
    \/ \E action \in {"overwrite", "skip", "rename"} : Decide(action)
    \/ \E i \in DOMAIN plans : Planned(i)
    \/ \E n \in Names : OtherWrites(n)

CopyNext ==
    \/ UserBegins
    \/ RequestStep
    \/ \E t \in DOMAIN copies :
          UserOrders(t) \/ CopyStep(t) \/ \E S \in SUBSET copies[t].flight : RequestsFail(t, S)

CopySpec == CopyInit /\ [][CopyNext]_copyVars

(* The user asks for the name again only when no request or work for it is     *)
(* under way and no .part file is left of it (a paused task that is canceled   *)
(* leaves its own), and then lets the earlier task be; and what fails are the  *)
(* last of the requests, as when the connection is lost.                       *)
NothingAsked == request = 0 /\ probes = {} /\ plans = <<>>

Quiet == /\ NothingAsked
         /\ \A d \in Directions : DOMAIN part[d] = {}
         /\ \A t \in DOMAIN copies : copies[t].stage = "idle" /\ copies[t].state # "queued"

FailInOrder(t, m) ==
    /\ Len(PartOf(copies[t])) < m
    /\ RequestsFail(t, {b \in copies[t].flight : b >= m})

CarefulCopyNext ==
    \/ Quiet /\ UserBegins
    \/ RequestStep
    \/ \E t \in DOMAIN copies :
          \/ NothingAsked /\ t = Len(copies) /\ copies[t].stage = "idle" /\ Again(t)
          \/ Pause(t) \/ CancelCopy(t)
          \/ CopyStep(t)
          \/ \E m \in 1 .. Blocks : FailInOrder(t, m)

CarefulCopySpec == CopyInit /\ [][CarefulCopyNext]_copyVars

-------------------------------------------------------------------------------
(* Properties                                                                  *)

CopyTypeOK ==
    /\ policy \in Policies
    /\ request \in Jobs \cup {0}
    /\ {aborted, result} \subseteq BOOLEAN
    /\ probes \subseteq Jobs
    /\ \A t \in DOMAIN copies :
          /\ copies[t].kind \in Directions
          /\ copies[t].name \in Names
          /\ copies[t].stage \in {"idle", "open", "window", "stat", "replace", "rename"}
          /\ copies[t].flight \subseteq 1 .. Blocks
    /\ \A d \in Directions : DOMAIN final[d] \subseteq Names /\ DOMAIN part[d] \subseteq Names

(* A file under its final name is a whole copy of one source, whatever was     *)
(* paused, canceled, lost, resumed or retried on the way.                      *)
LandedWhole ==
    \A d \in Directions : \A n \in DOMAIN final[d] :
        \E j \in 1 .. MaxJobs + 1 : final[d][n] = [b \in 1 .. Blocks |-> j]

(* Whoever put a file into the remote directory, and whenever, it is replaced  *)
(* or removed only for an upload whose verdict is to overwrite.                *)
KeptUnlessOverwritten ==
    [][\A n \in DOMAIN final["upload"] :
          \/ n \in DOMAIN final'["upload"] /\ final'["upload"][n] = final["upload"][n]
          \/ \E t \in DOMAIN copies :
                /\ copies[t].kind = "upload" /\ copies[t].name = n
                /\ copies[t].stage # "idle"
                /\ \/ copies[t].action = "overwrite"
                   \/ copies[t].action = "none" /\ policy \notin {"skip", "rename"}]_copyVars

(* An upload that was taken back while its names were looked up has no task,   *)
(* and every other has one at most.                                            *)
OnlyWantedUploads ==
    \A t \in DOMAIN copies :
        /\ wants[copies[t].job] = "asked"
        /\ \A u \in DOMAIN copies : copies[u].job = copies[t].job => u = t
==============================================================================
