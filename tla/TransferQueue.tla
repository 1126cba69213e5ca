---------------------------- MODULE TransferQueue ----------------------------
(* The transfer queue of the main process (sftp/TransferQueue.ts).            *)
(*                                                                            *)
(* A task is an upload or a download of a file or a directory.  Two kinds of  *)
(* asynchronous activity work on tasks: start() transfers one, within limits  *)
(* per session and overall, and expandUpload() classifies an upload and lists *)
(* its directory, within a limit of its own.  Each occupies a slot until it   *)
(* ends; the code's counters running, runningBySession and expanding are the  *)
(* numbers of occupied slots.  What happens between two awaits is one step,   *)
(* so the operators below map a world (tasks, entries, expandQueue, slots) to *)
(* the next, in the order of the code's calls.                                *)
(*                                                                            *)
(* Abstracted: bytes, progress and event batching; the depth and size limits  *)
(* of an expansion are one nondeterministic refusal.                          *)
EXTENDS Naturals, Sequences, FiniteSets, FiniteSetsExt, SequencesExt

CONSTANTS
    Sessions,
    Kinds,          \* of the tasks the user enqueues: upload, download
    GlobalLimit,    \* settings.sftp.maxConcurrentGlobal
    SessionLimit,   \* settings.sftp.maxConcurrentPerSession
    ExpandLimit,    \* EXPAND_CONCURRENCY
    MaxTasks,       \* bound: tasks created in a behaviour
    MaxChildren,    \* bound: entries of one directory
    MaxCommands     \* bound: commands the user gives

ASSUME QueueAssumption ==
    /\ Kinds \subseteq {"upload", "download"}
    /\ {GlobalLimit, SessionLimit, ExpandLimit, MaxTasks} \subseteq Nat \ {0}
    /\ {MaxChildren, MaxCommands} \subseteq Nat

VARIABLES
    tasks,         \* every Entry ever created, by order of creation
    entries,       \* those in the map this.entries
    expandQueue,
    slots,         \* the activities under way
    open,          \* sessions in the manager's registry
    commands       \* commands given so far

vars == <<tasks, entries, expandQueue, slots, open, commands>>

Shapes == {"file", "dir"}
States == {"queued", "running", "paused", "done", "error", "canceled", "skipped"}
FinalStates == {"done", "error", "canceled", "skipped"}

TransferStages == {"acquire", "inspect", "listing", "resolve", "work"}
ExpandStages == {"lstat", "readdir", "mkdir"}

Slots == 1 .. (GlobalLimit + ExpandLimit)
FreeSlot == [stage |-> "free", task |-> 0, signal |-> "none"]

Entry ==
    [kind : {"upload", "download"}, shape : Shapes, session : Sessions,
     parent : Nat, children : SUBSET Nat, childTotal : Nat, isGroup : BOOLEAN,
     classified : BOOLEAN, attempted : BOOLEAN, handle : Slots \cup {0}, state : States]

Activity ==
    [stage : TransferStages \cup ExpandStages \cup {"free"}, task : Nat,
     signal : {"none", "pause", "cancel"}]

World == [tasks |-> tasks, entries |-> entries, expandQueue |-> expandQueue, slots |-> slots]

Becomes(w) ==
    \E v \in {w} :
        /\ tasks' = v.tasks
        /\ entries' = v.entries
        /\ expandQueue' = v.expandQueue
        /\ slots' = v.slots

Init ==
    /\ tasks = <<>>
    /\ entries = {}
    /\ expandQueue = <<>>
    /\ slots = [a \in Slots |-> FreeSlot]
    /\ open = Sessions
    /\ commands = 0

------------------------------------------------------------------------------
(* States of tasks and of the groups above them                               *)

EndedAs(w, t, S) == {c \in w.tasks[t].children : w.tasks[c].state \in S}

\* Variant: a group ends with its first child.
HasEndedEarly(w, t) == w.tasks[t].isGroup /\ w.tasks[t].state # "canceled"

HasEnded(w, t) ==
    /\ w.tasks[t].isGroup
    /\ w.tasks[t].state # "canceled"
    /\ Cardinality(EndedAs(w, t, FinalStates)) >= w.tasks[t].childTotal

Outcome(w, t) == IF EndedAs(w, t, {"error"}) # {} THEN "error" ELSE "done"

\* A world on the way up: the group that is looked at next is above, unless 0.
Put(w, t, s) ==
    [world |-> [w EXCEPT !.tasks[t].state = s],
     above |-> IF s \in FinalStates THEN w.tasks[t].parent ELSE 0]

Climb(m) ==
    IF m.above # 0 /\ HasEnded(m.world, m.above)
    THEN Put(m.world, m.above, Outcome(m.world, m.above))
    ELSE [m EXCEPT !.above = 0]

\* A state that is final settles the group above, whose state may be final, and so
\* on.  A task comes after the group it is in, so there are less than t groups.
SetState(w, t, s) ==
    LET level[n \in 0 .. t] == IF n = 0 THEN Put(w, t, s) ELSE Climb(level[n - 1])
    IN  level[t].world

SettleGroup(w, t) == IF HasEnded(w, t) THEN SetState(w, t, Outcome(w, t)) ELSE w

------------------------------------------------------------------------------
(* Scheduling                                                                 *)

Running(w) == {a \in Slots : w.slots[a].stage \in TransferStages}

RunningBySession(w, s) == {a \in Running(w) : w.tasks[w.slots[a].task].session = s}

Expanding(w) == {a \in Slots : w.slots[a].stage \in ExpandStages}

Occupy(w, t, stage) ==
    LET a == Min({b \in Slots : w.slots[b].stage = "free"})
    IN  [w EXCEPT !.slots[a] = [stage |-> stage, task |-> t, signal |-> "none"]]

\* start() up to its first await; sshManager.get throws for a closed session.
Start(w, t) ==
    IF w.tasks[t].session \in open
    THEN Occupy(SetState(w, t, "running"), t, "acquire")
    ELSE SetState(w, t, "error")

StartIfDue(w, t) ==
    IF /\ t \in w.entries
       /\ w.tasks[t].state = "queued"
       /\ w.tasks[t].classified
       /\ Cardinality(Running(w)) < GlobalLimit
       /\ Cardinality(RunningBySession(w, w.tasks[t].session)) < SessionLimit
    THEN Start(w, t)
    ELSE w

\* t is the first of the queue, as long as the limit is not reached.
ExpandIfDue(w, t) ==
    IF Cardinality(Expanding(w)) >= ExpandLimit THEN w
    ELSE LET v == [w EXCEPT !.expandQueue = Tail(@)]
         IN  IF t \in w.entries /\ w.tasks[t].state = "queued"
             THEN Occupy(v, t, "lstat")
             ELSE v

\* item: what the caller of enqueue() asks for, parent 0 when it has none.
NewEntry(item) ==
    [kind |-> item.kind, shape |-> item.shape, session |-> item.session,
     parent |-> item.parent, children |-> {}, childTotal |-> 0,
     isGroup |-> FALSE, classified |-> item.kind = "download",
     attempted |-> FALSE, handle |-> 0,
     state |-> IF item.skipExisting THEN "skipped" ELSE "queued"]

WithChild(e, t) == [e EXCEPT !.children = @ \cup {t}, !.childTotal = @ + 1]

TasksWith(w, item) ==
    LET t == Len(w.tasks) + 1
        ts == Append(w.tasks, NewEntry(item))
    IN  IF item.parent = 0 THEN ts
        ELSE [ts EXCEPT ![item.parent] = WithChild(ts[item.parent], t)]

AddTask(w, item) ==
    LET t == Len(w.tasks) + 1
    IN  [w EXCEPT
            !.tasks = TasksWith(w, item),
            !.entries = @ \cup {t},
            !.expandQueue = IF item.kind = "download" \/ item.skipExisting THEN @
                            ELSE Append(@, t)]

------------------------------------------------------------------------------
(* What a command does to one task                                            *)

\* A worker that is told both to pause and to cancel cancels.
Signal(w, t, s) ==
    LET a == w.tasks[t].handle
    IN  IF a = 0 \/ w.slots[a].signal = "cancel" THEN w
        ELSE [w EXCEPT !.slots[a].signal = s]

PauseEntry(w, t) ==
    CASE w.tasks[t].state = "running" -> Signal(w, t, "pause")
      [] w.tasks[t].state = "queued" -> SetState(w, t, "paused")
      [] OTHER -> w

CancelEntry(w, t) ==
    CASE w.tasks[t].state = "running" -> SetState(Signal(w, t, "cancel"), t, "canceled")
      [] w.tasks[t].state \notin FinalStates \cup {"running"} -> SetState(w, t, "canceled")
      [] w.tasks[t].state \in FinalStates -> IF w.tasks[t].isGroup
                                             THEN SetState(w, t, "canceled")
                                             ELSE w

\* Variant: an upload that was never classified is not queued for it again.
AgainEntryUnclassified(w, t) ==
    CASE w.tasks[t].state = "running" -> w
      [] w.tasks[t].state # "running" /\ w.tasks[t].isGroup ->
            SettleGroup(SetState(w, t, "running"), t)
      [] OTHER -> SetState(w, t, "queued")

\* resume and retry
AgainEntry(w, t) ==
    CASE w.tasks[t].state = "running" -> w
      [] w.tasks[t].state # "running" /\ w.tasks[t].isGroup ->
            SettleGroup(SetState(w, t, "running"), t)
      [] OTHER -> LET v == SetState(w, t, "queued")
                  IN  IF w.tasks[t].classified THEN v
                      ELSE [v EXCEPT !.expandQueue = Append(@, t)]

ApplyOp(w, t, op) ==
    CASE op = "pause" -> PauseEntry(w, t)
      [] op = "cancel" -> CancelEntry(w, t)
      [] op \in {"resume", "retry"} -> AgainEntry(w, t)

------------------------------------------------------------------------------
(* Loops                                                                      *)

\* selfAndDescendants of the roots, backwards: a task goes before the group it is
\* in, and behind what is there of it.
Visit(order, t, roots, w) ==
    LET above == {i \in DOMAIN order : t \in w.tasks[order[i]].children}
    IN  IF t \in roots THEN Append(order, t)
        ELSE IF above = {} THEN order
        ELSE InsertAt(order, Min(above), t)

\* The body of a loop, with x.
Body(w, x, loop) ==
    CASE loop.do = "start" -> StartIfDue(w, x)
      [] loop.do = "expand" -> ExpandIfDue(w, x)
      [] loop.do = "add" -> AddTask(w, x)
      [] loop.do = "apply" -> ApplyOp(w, x, loop.op)
      [] loop.do = "unless final" -> IF w.tasks[x].state \in FinalStates THEN w
                                     ELSE ApplyOp(w, x, loop.op)
      [] loop.do = "cancel" -> IF x \in loop.of THEN CancelEntry(w, x) ELSE w
      [] loop.do = "visit" -> Visit(w, x, loop.roots, loop.world)

Each(w, seq, loop) ==
    LET after[n \in 0 .. Len(seq)] ==
            IF n = 0 THEN w ELSE Body(after[n - 1], seq[n], loop)
    IN  after[Len(seq)]

\* Tasks are created in the order of their numbers, as a Map iterates them.
Numbers(w) == [t \in DOMAIN w.tasks |-> t]

Pump(w) == Each(w, Numbers(w), [do |-> "start"])

PumpExpand(w) == Each(w, w.expandQueue, [do |-> "expand"])

Enqueue(w, items) == Pump(PumpExpand(Each(w, items, [do |-> "add"])))

CancelEntries(w, S) == Each(w, Numbers(w), [do |-> "cancel", of |-> S])

LeavesFirst(w, roots) ==
    Each(<<>>, Numbers(w), [do |-> "visit", roots |-> roots, world |-> w])

\* The entries of t's directory, in order.
ChildItems(w, t, shapes) ==
    [i \in DOMAIN shapes |->
        [kind |-> w.tasks[t].kind, shape |-> shapes[i], session |-> w.tasks[t].session,
         parent |-> IF t \in w.entries THEN t ELSE 0, skipExisting |-> FALSE]]

Listings ==
    {shapes \in UNION {[1 .. n -> Shapes] : n \in 0 .. MaxChildren} :
        Len(tasks) + Len(shapes) <= MaxTasks}

------------------------------------------------------------------------------
(* Commands                                                                   *)

Command ==
    /\ commands < MaxCommands
    /\ commands' = commands + 1

EnqueueFiles ==
    /\ Command
    /\ Len(tasks) < MaxTasks
    /\ \E k \in Kinds, shape \in Shapes, s \in open, skip \in BOOLEAN :
        Becomes(Enqueue(World, <<[kind |-> k, shape |-> shape, session |-> s, parent |-> 0,
                                  skipExisting |-> skip]>>))
    /\ UNCHANGED open

Control(t, op) ==
    /\ Command
    /\ LET w == Each(World, LeavesFirst(World, {t}), [do |-> "apply", op |-> op])
       IN  Becomes(Pump(IF op \in {"resume", "retry"} THEN PumpExpand(w) ELSE w))
    /\ UNCHANGED open

ControlAll(op) ==
    /\ Command
    /\ LET roots == {t \in entries : tasks[t].parent = 0}
           w == Each(World, LeavesFirst(World, roots), [do |-> "unless final", op |-> op])
       IN  Becomes(Pump(IF op # "cancel" THEN PumpExpand(w) ELSE w))
    /\ UNCHANGED open

\* A group goes before what is in it: nobody counts its children any more.
ClearFinished ==
    /\ Command
    /\ LET gone == {t \in entries : tasks[t].state \in FinalStates}
           cut(t) == IF t \in entries \ gone THEN tasks[t].children \cap gone ELSE {}
           kept(t) == [tasks[t] EXCEPT
                        !.children = @ \ cut(t),
                        !.childTotal = @ - Cardinality(cut(t)),
                        !.parent = IF @ \in gone THEN 0 ELSE @]
       IN  /\ entries' = entries \ gone
           /\ tasks' = [t \in DOMAIN tasks |-> kept(t)]
    /\ UNCHANGED <<expandQueue, slots, open>>

\* sshManager.close: cancelForSession, then the session leaves the registry.
CloseSession(s) ==
    /\ Command
    /\ s \in open
    /\ Becomes(CancelEntries(World, {t \in entries : tasks[t].session = s}))
    /\ open' = open \ {s}

CancelAll ==
    /\ Command
    /\ Becomes([CancelEntries(World, entries) EXCEPT !.expandQueue = <<>>])
    /\ UNCHANGED open

UserStep ==
    \/ EnqueueFiles \/ ClearFinished \/ CancelAll
    \/ \E t \in entries, op \in {"pause", "resume", "cancel", "retry"} : Control(t, op)
    \/ \E op \in {"pause", "resume", "cancel"} : ControlAll(op)
    \/ \E s \in Sessions : CloseSession(s)

------------------------------------------------------------------------------
(* start(): a transfer, from one await to the next                            *)

TaskOf(a) == slots[a].task

Canceled(w, a) == w.tasks[w.slots[a].task].state = "canceled"

Goes(w, a, stage) == [w EXCEPT !.slots[a].stage = stage]

\* Variant: the slot is freed, and nobody is told.
FinishQuietly(w, a) ==
    [w EXCEPT !.slots[a] = FreeSlot, !.tasks[w.slots[a].task].handle = 0]

\* The finally block.
Finish(w, a) ==
    Pump([w EXCEPT !.slots[a] = FreeSlot, !.tasks[w.slots[a].task].handle = 0])

BeginWork(w, a) ==
    LET t == w.slots[a].task
    IN  [Goes(w, a, "work") EXCEPT !.tasks[t].handle = a, !.tasks[t].attempted = TRUE]

BeginWorkUnlessCanceled(w, a) == IF Canceled(w, a) THEN Finish(w, a) ELSE BeginWork(w, a)

\* resolveResume asks the disk or the server only for a task that ran before.
ResolveResume(w, a) ==
    IF w.tasks[w.slots[a].task].attempted
    THEN Goes(w, a, "resolve")
    ELSE BeginWorkUnlessCanceled(w, a)

Acquired(a) ==
    /\ slots[a].stage = "acquire"
    /\ Becomes(IF Canceled(World, a) THEN Finish(World, a)
               ELSE IF tasks[TaskOf(a)].kind = "download" THEN Goes(World, a, "inspect")
               ELSE ResolveResume(World, a))

InspectedFile(a) ==
    /\ slots[a].stage = "inspect"
    /\ tasks[TaskOf(a)].shape = "file"
    /\ Becomes(ResolveResume(World, a))

InspectedDir(a) ==
    /\ slots[a].stage = "inspect"
    /\ tasks[TaskOf(a)].shape = "dir"
    /\ Becomes([Goes(World, a, "listing") EXCEPT !.tasks[TaskOf(a)].isGroup = TRUE])

\* The directory is downloaded as one archive.
Packed(a) ==
    /\ slots[a].stage = "inspect"
    /\ tasks[TaskOf(a)].shape = "dir"
    /\ Becomes([BeginWork(World, a) EXCEPT
                    !.slots[a].signal = IF Canceled(World, a) THEN "cancel" ELSE "none"])

\* No look at the task's state before its children are enqueued.
Listed(a) ==
    /\ slots[a].stage = "listing"
    /\ \E shapes \in Listings :
        Becomes(Finish(SettleGroup(Enqueue(World, ChildItems(World, TaskOf(a), shapes)),
                                   TaskOf(a)), a))

ResumeResolved(a) ==
    /\ slots[a].stage = "resolve"
    /\ Becomes(BeginWorkUnlessCanceled(World, a))

WorkDone(a) ==
    /\ slots[a].stage = "work"
    /\ Becomes(Finish(IF Canceled(World, a) THEN World ELSE SetState(World, TaskOf(a), "done"), a))

\* TransferAborted
WorkAborted(a) ==
    /\ slots[a].stage = "work"
    /\ slots[a].signal # "none"
    /\ Becomes(Finish(SetState(World, TaskOf(a),
                               IF slots[a].signal = "pause" THEN "paused" ELSE "canceled"), a))

\* An upload that finds its target taken, and was told to skip it then.
WorkSkipped(a) ==
    /\ slots[a].stage = "work"
    /\ tasks[TaskOf(a)].kind = "upload"
    /\ Becomes(Finish(SetState(World, TaskOf(a), "skipped"), a))

\* Any other exception, whatever the task's state has become.
Fails(a) ==
    /\ slots[a].stage \in TransferStages
    /\ Becomes(Finish(SetState(World, TaskOf(a), "error"), a))

TransferStep(a) ==
    \/ Acquired(a) \/ InspectedFile(a) \/ InspectedDir(a) \/ Packed(a) \/ Listed(a)
    \/ ResumeResolved(a) \/ WorkDone(a) \/ WorkAborted(a) \/ WorkSkipped(a) \/ Fails(a)

------------------------------------------------------------------------------
(* expandUpload(): an upload is classified, and its directory listed          *)

EndExpansion(w, a) == Pump(PumpExpand([w EXCEPT !.slots[a] = FreeSlot]))

\* The path is gone, is a link, or nests too deep.
LstatEnds(a) ==
    /\ slots[a].stage = "lstat"
    /\ \E s \in {"error", "done"} : Becomes(EndExpansion(SetState(World, TaskOf(a), s), a))

LstatTooDeep(a) ==
    /\ slots[a].stage = "lstat"
    /\ tasks[TaskOf(a)].shape = "dir"
    /\ LET w == [World EXCEPT !.tasks[TaskOf(a)].isGroup = TRUE,
                              !.tasks[TaskOf(a)].classified = TRUE]
       IN  Becomes(EndExpansion(SetState(w, TaskOf(a), "error"), a))

LstatFile(a) ==
    /\ slots[a].stage = "lstat"
    /\ tasks[TaskOf(a)].shape = "file"
    /\ Becomes(EndExpansion([World EXCEPT !.tasks[TaskOf(a)].classified = TRUE], a))

\* No look at the task's state here either.
LstatDir(a) ==
    /\ slots[a].stage = "lstat"
    /\ tasks[TaskOf(a)].shape = "dir"
    /\ LET w == [World EXCEPT !.tasks[TaskOf(a)].isGroup = TRUE,
                              !.tasks[TaskOf(a)].classified = TRUE]
       IN  Becomes(Goes(SetState(w, TaskOf(a), "running"), a, "readdir"))

\* The directory cannot be read, or the empty one cannot be made remotely.
ExpansionFails(a) ==
    /\ slots[a].stage \in {"readdir", "mkdir"}
    /\ Becomes(EndExpansion(SetState(World, TaskOf(a), "error"), a))

Expand(w, a, shapes) ==
    LET t == w.slots[a].task
    IN  EndExpansion(SettleGroup(Enqueue(w, ChildItems(w, t, shapes)), t), a)

ReaddirDone(a) ==
    /\ slots[a].stage = "readdir"
    /\ \E shapes \in Listings :
        Becomes(IF Canceled(World, a) THEN EndExpansion(World, a)
                ELSE IF shapes = <<>> THEN Goes(World, a, "mkdir")
                ELSE Expand(World, a, shapes))

MkdirDone(a) ==
    /\ slots[a].stage = "mkdir"
    /\ Becomes(Expand(World, a, <<>>))

ExpandStep(a) ==
    \/ LstatEnds(a) \/ LstatTooDeep(a) \/ LstatFile(a) \/ LstatDir(a)
    \/ ExpansionFails(a) \/ ReaddirDone(a) \/ MkdirDone(a)

SlotStep(a) ==
    /\ TransferStep(a) \/ ExpandStep(a)
    /\ UNCHANGED <<open, commands>>

Next == UserStep \/ \E a \in Slots : SlotStep(a)

Spec == Init /\ [][Next]_vars

\* Every disk or network operation ends, well or badly: weak fairness of
\* SlotStep(a), which can be taken exactly while the slot is occupied.
Fairness == \A a \in Slots : []<>(slots[a].stage = "free") \/ []<><<SlotStep(a)>>_vars

FairSpec == Spec /\ Fairness

------------------------------------------------------------------------------
(* Properties                                                                 *)

TypeOK ==
    /\ tasks \in Seq(Entry)
    /\ \A t \in DOMAIN tasks :
        /\ tasks[t].children \subseteq t + 1 .. Len(tasks)
        /\ tasks[t].parent < t
        /\ tasks[t].handle # 0 =>
            slots[tasks[t].handle].stage = "work" /\ slots[tasks[t].handle].task = t
    /\ entries \subseteq DOMAIN tasks
    /\ expandQueue \in Seq(DOMAIN tasks)
    /\ slots \in [Slots -> Activity]
    /\ \A a \in Slots : slots[a].stage # "free" => slots[a].task \in DOMAIN tasks
    /\ open \subseteq Sessions
    /\ commands \in 0 .. MaxCommands

Unfinished(t) == {c \in tasks[t].children : tasks[c].state \notin FinalStates}

\* A queued task is held back only by a limit that is reached: after every step
\* the scheduler has been called where a slot or a task became available.
NeverStranded ==
    \A t \in entries : tasks[t].state = "queued" =>
        IF tasks[t].classified
        THEN \/ Cardinality(Running(World)) = GlobalLimit
             \/ Cardinality(RunningBySession(World, tasks[t].session)) = SessionLimit
        ELSE \/ \E a \in Slots : slots[a].task = t /\ slots[a].stage = "lstat"
             \/ /\ Contains(expandQueue, t)
                /\ Cardinality(Expanding(World)) = ExpandLimit

\* No activity closes a directory transferred file by file as done before each
\* child it has is finished, none having failed.  Left out: a worker packs it; it
\* is classified a second time, having been resumed while it was the first time;
\* the user removed it from the list.
DoneAfterChildren ==
    [][\A t \in DOMAIN tasks :
        /\ commands' = commands
        /\ t \in entries /\ tasks'[t].isGroup
        /\ \A a \in Slots : slots[a].task = t => slots[a].stage \notin {"work", "lstat"}
        /\ tasks[t].state # "done" /\ tasks'[t].state = "done"
        => \A c \in tasks'[t].children : tasks'[c].state \in FinalStates \ {"error"}]_vars

\* Once the user stops giving commands, every activity ends and no task is left
\* queued: each has ended, is paused, or is a directory with a paused child.
QueueDrains ==
    <>[](/\ \A a \in Slots : slots[a].stage = "free"
         /\ \A t \in entries : \/ tasks[t].state \in FinalStates \cup {"paused"}
                               \/ (tasks[t].isGroup /\ Unfinished(t) # {}))

\* What the user canceled stays canceled, and nothing is added to it, until the
\* user asks for it again.
CancelIsFinal ==
    [][commands' = commands =>
        \A t \in DOMAIN tasks : tasks[t].state = "canceled" =>
            /\ tasks'[t].state \in FinalStates
            /\ tasks'[t].children \subseteq tasks[t].children]_vars
==============================================================================
