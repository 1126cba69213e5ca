# openfinalshell in TLA+

openfinalshell is an SSH, SFTP and RDP client. Its logic runs in the main
process of an Electron application (`src/src/main`) and in its windows
(`src/src/renderer/src`). Each is one event loop, on which every handler runs to
completion and every `await` is a place where other handlers run. That is the
grain of the models here: one action is the code between two awaits or two
events, and what may happen at an await is left to interleaving.

Paths below are relative to `src/src/main` unless they start with `src/` or
`renderer/` (which is `src/src/renderer/src`).

## Inventory

| Component | State it keeps | Operations and events | What is hard | What makes it correct |
|---|---|---|---|---|
| SSH session life cycle: `ssh/SshConnection.ts`, `ssh/SshConnectionManager.ts` | state shown to the windows, current client, `intentionalClose`, backoff counter and timer, shells; the registry of sessions and of terminals | open, reconnect, close; `ready`, `error`, `close` of a client; backoff timer; openShell, exit, closeTerm | several attempts at a time, events of a replaced client, close during an await | one attempt, no orphan connection, a ready session can be used, closed is final, every attempt settles |
| Second connection: same object | reference count, client, promise of a client, cached SFTP channel, idle timer | acquire, release, idle timeout, disconnect; `ready`, `error`, `close` | shared dial, failure half way, timer against a new user | the count is exact, one connection, never ended under a user |
| Prompts: `ssh/PromptBroker.ts`, `renderer/features/prompts/PromptHost.tsx` | queue, outstanding question, a timer per question; the dialog | request, answer, timeout, cancel for a session, window closed | two processes, answers that cross timeouts and the next question | consent is for the question that was shown, every question settles |
| Transfer queue: `sftp/TransferQueue.ts` | tasks, groups with the total of their children, the expansion queue, counters of running activities | enqueue, pause, resume, cancel, retry, clear, session closed; the ends of list, stat, open, transfer | scheduling by explicit `pump` calls, cascades up and down the tree, commands during awaits | nothing queued is forgotten, a group ends when its children have, cancel is final |
| Transfer of one file: `sftp/TransferWorker.ts`, `sftp/conflictPlan.ts`, `sftp/conflictProbe.ts`, `renderer/features/sftp/UploadConflictModal.tsx` | requests under way, the `.part` file, the verdict on a name that is taken | probe, decide, transfer, abort, resume, land | several requests at once, a resume from the size of a file, others who take the name | what lands is whole and replaces nothing it was not told to |
| SFTP panel and transfer list: `renderer/features/sftp/SftpPane.tsx`, `renderer/stores/useTransferStore.ts` | directory shown, loads under way, a watch per upload; a copy of the queue | navigate, follow the terminal, rename and its kind, settle, clear, reload of the page | replies that overtake each other, batches, a refresh against the user | the list agrees with the queue, what landed is shown, the panel goes where it was asked |
| Forwarding: `forward/ForwardManager.ts` | active rules with their listeners, rules to restore | start, stop, session lost, session restored | start is awaited while its rule is stopped or lost | a rule is shown as it is, a lost one comes back |
| Monitoring: `monitor/MonitorCollector.ts` | channel, frame awaited, failures in a row, retry timer | start, stop, reattach, data, timeout | stop or reattachment during the opening of the channel | it comes back with the session, no collector without one |
| Remote editing: `sftp/fileSave.ts`, `sftp/remoteTextWrite.ts`, `sftp/editBaselines.ts` | baseline per open file, saves in flight | open, save, overwrite, session closed | read, check and rename are separate calls; a crash between two renames | no lost update, no lost file |
| Editor window: `editorWindow.ts`, `renderer/features/editor/` | tabs, drafts, questions on the screen, saves | open, type, save, reload, close, quit, crash of the page | one editor for all tabs, replies that come to another tab | no draft is lost |
| Terminal: `ssh/ShellSession.ts`, `ipc/term.ipc.ts`, `renderer/stores/useSessionStore.ts`, `renderer/features/terminal/` | shells, bytes in flight, paused; the tab, its pane and its terminal | open, exit, reconnect, remount, data, acknowledgement, close | events of the session against replies of calls; acknowledgements that never come | the tab tells the truth, gets a terminal, and its output flows |
| RDP: `rdp/RdpSessionManager.ts`, `renderer/features/sessions/RdpPane.tsx` | generation, worker process, prompts, deadlines; frames awaiting acknowledgement, ports | start, frame, ack, timeout, close, worker exit, reconnect | events of an old generation, timeout against answer, a port replaced under a frame | every call settles, a rejected password is not sent again, no frame is lost, frames flow |
| Instances: `instances/InstanceCoordinator.ts`, `index.ts`, `services/updater.ts` | heartbeats, leader, revisions and the installation owner in the shared database | register, poll, elect, publish, prepareInstall, prepareExit | several processes, crashes, missed messages, clocks | one leader acts, every window reaches the newest revision, no start during installation |
| LAN sync: `lansync/LanSyncManager.ts` | pairing code, phase, the single slot, timers; the sender's promise | receive on and off, connect, offer, confirm, cancel, timeouts, frames | a transfer that breaks off at any frame on either side | every send settles and the slot is free again |
| Stores: `store/`, import and export: `services/importData.ts`, `services/exportData.ts` | connections, groups, proxies, the vault; encryption marks and tokens | edit, delete, import, export; migration at a start | windows that edit at once, things that share a secret, starts with and without a key store | nothing vanishes from the panel, no password is taken from what uses it, no blind overwrite, plain text is found again |
| AI, updater's network side, i18n: `services/` | little | requests, conversions | network and formats | out of scope |
| Native worker, `src/android`, `src/windows` | other programs | | | out of scope |

How they interact:

- `SshConnectionManager` owns the sessions. Its `close` cancels the session's
  transfers, stops its monitors and forwards, forgets its edit baselines, drops
  its terminals and then calls `disconnect`, which cancels the session's
  prompts and ends both connections. All of that is one synchronous step.
- `SshConnection` tells the manager by events (`state`, `shell-exit`,
  `reestablished`), the manager broadcasts to the windows, drops the forwards of
  a session that is lost and restores them when it is back.
- An attempt to connect awaits `PromptBroker.request`, which a window answers by
  another call, in its own time.
- `TransferQueue.start` awaits `acquireTransferSftp` and calls
  `releaseTransferSftp` in a `finally`.
- The windows call over IPC and are told by events; replies and events of the
  main process reach a window in one order, except that a reply awaited longer comes later.
  What a window can ask, and when, is in the guards of the commands.
- The copies of the application share a database and talk over sockets.

The full list of what can go wrong, line by line, with the property for each or
the reason there is none, is `hazards` in `PROJECT.json`.

## Modules

| Module | Models | Composed in | Runs |
|---|---|---|---|
| `SshConnection` | session life cycle | | `ssh_orderly`, `ssh_close_during_retry`, `ssh_reconnect_overlap` |
| `Session` | the abstract session | `SshConnection` implements it; the four services extend it | `ssh_orderly`, `session_services` |
| `Forwarding`, `Monitor`, `RemoteSave`, `TermTab` | what lives on a session | `SessionServices` | `session_services` |
| `RdpSession`, `RdpFrames` | remote desktops | `Desktop` | `desktop`, `rdp_rejected_password` |
| `Instances`, `LanSync`, `PromptBroker`, `TransferConnection` | instances, LAN sync, prompts, second connection | `Desktop` | `desktop` |
| `TransferQueue`, `FileTransfer`, `SftpPanel` | transfers | `Transfers` | `transfers`, `transfer_cancel`, `transfer_resume` |
| `Connections`, `Encryption`, `EditorWindow` | the database, encryption at rest, the editor | `Storage` | `storage`, `encryption_restart`, `editor_drafts` |
| `Ordering` | numbers in order, the elements of a sequence at some of its places | used by `RdpFrames` and `PromptBroker` | |
| `SshConnectionProofs`, `SessionServicesProofs`, `DesktopProofs`, `RdpProofs`, `StorageProofs`, `EditorProofs`, `TransferQueueProofs`, `FileTransferProofs` | theorems about the module of that name and its parts; `RdpProofs` about `RdpSession` and `RdpFrames`, `EditorProofs` about `EditorWindow`, `FileTransferProofs` also about `SftpPanel` and the whole of `Transfers` | | |

The `MC` modules instantiate a module for TLC.

`SessionServices`, `Desktop`, `Storage` and `Transfers` put together parts that
share no state with each other (the services of a session share the session). A
property is about one part, and a step of another part changes nothing in it, so a
behaviour of the whole is known by its projections; `follows` says which part a
behaviour shows. Where parts do share state (the services with the session, main
with the windows, sender with receiver, instances with the database), they are
interleaved in full.

Definitions that begin with a comment `Variant:` are the code with a plausible
mistake in it. No specification uses them: they show that each property
notices such a mistake.

### SshConnection and Session

`establish()` is an activation that awaits twice, first the connect
configuration (key file, password prompt, proxy), then the handshake. Activations
overlap, so each is an element of `Attempts`, with a `phase` and the caller
(`kind`) that awaits it; the attempt also names the ssh2 client it creates.
`client` is `this.client`. `registered` says that the session is in the manager's
map, `terms` is the manager's map of terminals, `shells` that of the connection,
`channel` the client that carries each terminal. `state`, `intentionalClose`,
`reconnectAttempt` and `reconnectTimer` are the fields of those names.

Assumed of ssh2 (external): a handshake ends in `ready` or `error`, because of
`readyTimeout`; a client on which `end()` was called does not become ready any
more and may close without an error; what was ended closes in the end; channels
do not outlive their client.

`Spec` lets the windows ask for a reconnect or a close at any moment.
`OrderlySpec` lets them do so only where the code copes: a reconnect while no
attempt is in flight, a close while none is building its configuration. The two
runs that expect a violation show that each half of that condition is needed.

`Session` is what the other components may rely on: the states as broadcast, whether
the manager still holds the session, and the retries. `ImplementsSession` says that
`OrderlySpec` implements it, liveness included, under the mapping `Abstract`.

Left out: the browse channel, the exec probes, `closeAll` at quit, the connection
test of the profile editor.

### The services of a session

**Forwarding.** Each activation of `start()` is a slot of its rule; the entry in
the manager's map is one of them. `wanted` is history: started, neither stopped nor
refused since, through every loss and every reconnect. Requests of an old client are
rejected before its successor is ready. The user starts a rule again only after the first
start was answered, because the failure path deletes by rule id
(`forward/ForwardManager.ts:69`). When the user presses "reconnect", the handlers of the
`-R` rules go with the old client, but the manager is told neither `reconnecting` nor
`closed` and saves nothing. `forsaken` names the rules this happened to, and is the one
exception of `ForwardsRestored` (see the disagreements). Left out: the sockets inside a
forward, deleting a rule.

**Monitor.** The collector with its channel, the frame awaited, failures in a row,
retries, and the reattachment to a new session. A channel that was opened by a retry
which raced the reattachment is leaked (`monitor/MonitorCollector.ts:108`): the
model has it. Each frame has a timer of its own. `ownTimer` is the one in the field
`frameTimer`, `oldTimers` counts those that the field no longer refers to and nothing can
clear. They compare the number of the frame, and static frames all have the number 0:
`OldTimerFires` may drop the frame of a later start, which `robbed` remembers. A channel
that lives answers in time. Left out: parsers, the port traffic collector, the timers of
samples given up (no later frame has their number), and an interval of `tick` that two
starts which finish together leave running, whose ticks the pending frame turns away.

**RemoteSave.** One path that is a symbolic link to one of two files, an editor's
baseline, other writers, and the ladder of renames with its fallback. Contents are
told apart by hash (files up to 256 KB); reading and showing the text are one step;
requests in flight when the session is lost may have been served or not.

**TermTab.** From the opening of the session to the close of the tab. Messages and
replies to the window are one queue, except that the reply of `session:open` may be
late by any number of them; calls of the window are served in any order, `term:close`
at once. Output is counted in units. Left out: input, sizes, data of shells already
torn down, the repetition of a refused first attempt, what is on its way to a tab
that was closed.

### The desktop parts

**RdpSession** has generations of one session, each with its worker, prompts,
deadlines and the calls that await it. States before `ready` are merged where no
handler tells them apart; certificates are asked about before the worker is ready.
**RdpFrames** has the frames of one generation from the worker over the port to the
canvas, with acknowledgement, expiry, retry, replaced ports and a recreated renderer;
reading stops while the output is paused. Left out of both: clipboard, audio, resize, pointer.

**Instances** has processes, the shared database, notices that may be lost, crashes,
and the installer. A transaction is one step. Reading the revisions and electing are
one step at a start; the election of the oldest member is that of any member; an
installation takes less than the barrier's five minutes (an installer whose dialogs wait
for the user may take longer, and then nothing keeps instances from starting); a pid is not reused;
sockets, focus and the counting of activity are left out.

**LanSync** has one receiver and one sender with one connection after another and
every frame between them; `keyed` says whether both derived the same key. A derivation
that fails is a receiver that gives up. Discovery is left out.

**PromptBroker** has the broker and the window as two processes; `toWindow` and
`toMain` are the messages between them. `agreed` is history: what the user said yes to.

**TransferConnection**: a job is one activation of `TransferQueue.start`. Its
`stage` is where it is in `acquireTransferSftp`: waiting for a dial, for a channel, or
`holding` it. Several jobs wait for one dial through `transferClientPromise`; a client's
outcome moves all of its waiters in one step, as promise reactions do. `ready`
is the primary connection, which the environment changes.

### Transfers

**TransferQueue.** The methods of the queue call each other synchronously
(`setState` settles the group above, the end of an activity pumps both queues), so a
step is a composition of operators that take the world (`tasks`, `entries`,
`expandQueue`, `slots`) to the next one, in the order of the code's calls. A slot is
an activation of `start()` or `expandUpload()`, `stage` the await at which it is.
`tasks` keeps what `clearFinished` removed from the map, because an activity may
still hold the entry; `entries` is the map. Every loop of the code is `Each`, a
recursive function over a sequence whose `Body` depends on the loop: start what is due,
expand, add an item, apply a command, put descendants in order. What `setState` and
`settleGroup` do by calling each other is `SetState`, which takes one `Climb` per level
above the task. Bytes are abstracted, and the limits of an expansion are one
nondeterministic refusal. A command is accepted in any state of its task, since the
window's rows are up to a batch behind.

**FileTransfer.** A file is the sequence of its blocks, each named after the job
whose source it came from, 0 for a hole. Every job asks for the same name in one
directory of either side and has a source that does not change. Looks at several
names that the code makes one after another are one step; a rename over SFTP does not
replace, a local one does. The policy `resume` behaves as `overwrite` and is left out,
as are permissions, short reads, symbolic links, and directories sent as an archive.
`CopySpec` is the code; the `transfers` run follows `CarefulCopyNext`, a user who asks
for the name again only when nothing is under way, no probe of an upload that was
taken back is in flight and no `.part` file is left, and a network where failing
requests are the last ones (`FailInOrder`). The run `transfer_resume` shows why.

**SftpPanel.** `entry` is the queue (a task is active or has ended), `buffer` the
ids of the next batch, `mail` everything on its way to the window, `rows` the
window's copy, `watch` the state of `watchTransfers` for each upload, `requests` the
listings under way. What the code does not cope with is excluded in the guards, and listed under the
disagreements: the user does not navigate while a rename, deletion or the like is
under way, the terminal's `cd` fails only when it took the turn of no other load, and
no task stands still for a minute. A repeated upload is not waited for.

### Storage

**Connections.** Profiles, groups, proxies and the vault, windows with drafts, and
one export and imports. A profile's `pass` stands for its SSH and RDP passwords;
private keys have the shape of proxies and are left out. A row's revision is that of
`store/conflict.ts`. A draft holds the row its window has read and what its form says now:
the group and the proxy are chosen from those there are at that moment (`Choose`,
`OpenDraft`), and saved without another look, because `saveProfile` and `saveGroup` take
none. `strays` names the groups that a form was saved into when they were gone; they are
the exception of `TreeComplete`. An import runs without an await. `SavedElsewhere` is a file that
another machine wrote after importing ours. Left out: snippets, forwards, AI profiles, settings,
`touchProfile`, known hosts and command history, which `Encryption` has.

**Encryption.** Starts of the application, each with a secure backend for its whole
life or never. Rows of the entity tables are encrypted in place; rows of
`known_hosts` and `command_history` are found by a primary key that is plain text or a
token. Marking plain text and storing it are two steps where the code has two
statements outside a transaction. A data key that cannot be unwrapped counts as no backend.

**EditorWindow.** The window, its page, its single mounted editor with the stashes
of the other tabs, its questions, and what `editorWindow.ts` does to open, close and
quit. `reading` counts the calls of `sftp:fileView` under way for a file: a tab
may be reloaded in any state, or closed while it loads and opened again, and each reply is
taken for the tab there is. `storage` follows a patient user (`PatientSpec`), who waits for
saves and opens before typing or saving, opens or reloads only when nothing else has
unsaved text, and neither closes nor reloads a tab that is being read; `editor_drafts`
does not. Encodings are left out, and so are saves refused because one is under way.

## Runs

| Run | Question | Bounds | Distinct states, time |
|---|---|---|---|
| `ssh_orderly` | Does the connection implement the abstract session, with no leaked client, no forgotten terminal and one attempt at a time, and does it settle? | 3 attempts at once, 2 terminals, 2 retries | 77 000, 10 s |
| `session_services` | Are forwards shown as they are and restored, does the monitor come back, does the editor neither overwrite nor lose, does the tab get its terminal and its output? | 1 retry; 3 rules (local, automatic, -R), 2 activations; 2 files, 2 contents, 1 foreign change; 3 terminals, 2 mountings, 2 units of output | 836 000, 100 s |
| `desktop` | Do remote desktops, frames, instances, LAN sync, prompts and jobs each keep their promises? | 2 generations; 3 frames of which 2 in flight, 2 ports; 3 instances, 1 revision, 1 installation; 2 sends and receptions; 4 questions of 2 sessions; 3 jobs | 216 000, 90 s |
| `transfers` | Is nothing forgotten by the queue, does it drain, is what lands whole and wanted, does the window show it? | limits of 3, 2 per session, 2 expansions, 3 tasks, 3 commands; 3 blocks, 2 requests, 2 jobs; 2 directories, 2 uploads, 3 acts | 1 930 000, 125 s |
| `storage` | Is everything in its place, are passwords, drafts and other people's edits safe, is plain text found again? | 2 windows, 2 edits and 1 import over stored rows of an older version; 2 hosts, any starts; 2 files, 2 changes, 2 reads of a file at once, 1 crash | 306 000 up to symmetry, 40 s |
| `ssh_close_during_retry` | Does a closed session stay closed? It does not | 1 terminal | |
| `ssh_reconnect_overlap` | Does a ready session have a client? Not after a reconnect during an attempt | 1 terminal | |
| `transfer_cancel` | Does what was canceled stay canceled? It does not | 1 session, downloads, 2 commands | |
| `transfer_resume` | Is what lands whole if any request may fail? It is not | 1 job | |
| `rdp_rejected_password` | Is a rejected password never sent silently? It may be | 3 generations | |
| `encryption_restart` | Does the migration always succeed? It does not | 1 host, 1 command, 1 row | |
| `editor_drafts` | Are drafts safe from an impatient user? They are not | 2 files | |

Why the bounds are enough to be of interest:

- Three attempts let one be replaced while its successor is replaced too;
  attempts are reused once nothing refers to them, so the number bounds those
  alive together, not the length of a behaviour. Two retries are enough to reach the
  maximum, to be reset below it, and to give up.
- Two activations of a rule let an old start end under a new one. One retry gives
  a session lost and restored, lost for good, and reconnected by the user any number of times.
- A path over two files lets a link be changed between the look and the write; a
  content that looks truncated beside another reaches the warning about it.
- Two generations let the end of an old worker arrive in a new session; two frames in
  flight fill the window, and a replaced port leaves one frame on either side of it.
- Three instances let one crash while another installs and a third starts.
- Three jobs put one behind a shared dial, one that fails on its channel and one
  that comes between a release and the idle timeout.
- Four questions of two sessions put a queued question of the session being
  cancelled both before and behind one of the other session.
- Three tasks make a directory with two children, or one in another. The limit per
  session and that of expansions are reached by two (the code expands four at a time,
  `sftp/TransferQueue.ts:110`): two expansions may be of one task. Three commands allow
  an enqueue, an interruption and a retry. Three blocks with two requests under way are
  the least with a hole below the size, and two jobs the least that compete for a name.
- Two uploads let a watch wait for another's task; three acts are an upload and two
  navigations, or a crash and what it interrupts. With four acts the same holds (1.9 million
  states of `SftpPanel` alone).
- Two reads of a file at once are one that is answered and one that is late.
- Two windows are one with a form open and one that changes what the form names. A draft
  that could not be saved within the bound on edits is not kept (`Savable`).
- The stored rows are a connection in a group of a group, with a password and a
  proxy, and one that keeps its proxy in itself; an edit, a deletion and an import of
  a file that contains them all meet.

Deadlock is not checked in most runs: these systems may stop when the user does.

## Fairness

- `SshConnection`: timers fire; the connect configuration settles, since prompts
  and dials have timeouts; ssh2 settles handshakes and closes what was ended.
  Nothing is assumed of the user, and nothing says that a healthy connection is lost.
- `Session`, `Monitor`, `TermTab`: attempts end, timers fire, messages arrive,
  calls are served. The session need not stay.
- `PromptBroker`, `RdpSession`, `RdpFrames`, `Instances`, `LanSync`, `SftpPanel`: one weak
  fairness condition for each, on the disjunction of what the system does by itself
  (`…Progress`): as long as something is due, something that is due happens. Their
  progress cannot go on for ever without the environment, so this gives each
  step its turn. The user, crashes and the network's refusals are not in it.
- `TransferQueue`: an activity at an await goes on, well or badly. It is written as
  "free infinitely often or stepping infinitely often", which is weak fairness
  of the slot's step since that step is possible exactly while the slot is occupied;
  TLC evaluates this form faster. Commands are not fair and are
  bounded, so `QueueDrains` is about what happens once the user has stopped.

## Disagreements found

Each has a run that expects the violation:

- **A closed session comes back** (`ssh_close_during_retry`). `establish` does not
  look at `intentionalClose` after awaiting the configuration
  (`ssh/SshConnection.ts:103`): a close during that await ends nothing.
- **Ready without a client** (`ssh_reconnect_overlap`). The error handler of an
  older attempt sets `this.client = null` (`ssh/SshConnection.ts:129`) without
  asking whether the client is still its own, as `onClientClosed` does.
- **Cancel is not final** (`transfer_cancel`). The continuations after the listing
  of a download and after the `lstat` of an upload do not look at the task's state.
- **A hole in a file that is done** (`transfer_resume`). A request fails, a later one
  succeeds, and the retry resumes from the size of the part file (`sftp/TransferWorker.ts:300`).
- **A rejected password is sent again** (`rdp_rejected_password`). An account lockout on a
  later attempt clears the obligation to ask (`rdp/RdpSessionManager.ts:724`).
- **The application does not start any more** (`encryption_restart`). What is stored
  while the key store is missing clashes with what is there, and the migration fails at
  every later start (`store/encryptMigration.ts:98`).
- **Drafts vanish** (`editor_drafts`). Opening a second file unmounts the editor that
  holds the first one's text (`EditorWindowShell.tsx:412`).

Others were met and are excluded where the model says so, without a run of their own.
Of the first four TLC finds a trace as soon as the exception is taken out:

- **A `-R` rule does not come back after the user's reconnect.** `reconnect()` clears
  `remoteHandlers` with the old client (`ssh/SshConnection.ts:224-232`), but only the states
  `reconnecting` and `closed` make the manager save rules (`ssh/SshConnectionManager.ts:43`),
  and the late close of the old client is ignored on purpose (`ssh/SshConnection.ts:163-164`).
  The rule is shown active, nothing is forwarded, and nothing is pending, although
  `src/README.md:55` and `:167` say that forwards come back by themselves, also when the user
  reconnects at once. Without `forsaken` in `ForwardsRestored`: six states, with a start,
  its answer and `reconnectTab` (`renderer/features/layout/TitleBar.tsx:89`).
- **An old timer stops the monitor.** `start()` and `reattach()` put a new frame in
  `pendingFrame` without clearing the timer of the old one
  (`monitor/MonitorCollector.ts:153-167`). If a reattachment comes within the time of a
  static frame that was not answered, that timer drops the new static frame: the new
  start never settles and nothing is sampled on a live channel, although the comment on
  `reattach` (`:361-365`) says that it brings the monitor back without a wait. Without
  `~robbed` in `MonitorResumes`: fourteen states.
- **A connection or group saved into a group that is gone is never drawn.** The form keeps
  the choice (`renderer/features/connections/ProfileEditDrawer.tsx:169`,
  `ConnectionTreePanel.tsx:137-153`), `saveProfile` and `saveGroup` do not look whether the
  group exists (`store/connections.ts:82-151`, `256-267`), and the panel descends from the root
  (`ConnectionTreePanel.tsx:258-269`). Without `strays` in `TreeComplete`: five states,
  with a form, a deletion and a save.
- **A second read takes what was typed after the first.** Nothing stops a reload during a
  reload, or the closing of a loading tab that is then opened again, and each reply puts
  its text in the tab and clears the mark of changes (`renderer/stores/useEditorStore.ts:148-157`);
  closing then asks nothing. Without the patience of `PatientSpec` with tabs that are being
  read, `DraftsSurvive` fails after ten states.
- A frame that waits in a renderer when it is disposed of is acknowledged without having been
  painted (`renderer/features/sessions/RdpPane.tsx:236-243`), so what it held is missing from
  the canvas until the server draws there again, although the comment at
  `rdp/RdpSessionManager.ts:580` says that no frame may be dropped. `NothingLost` and
  `FramesFlow` count it as `discarded`.
- Acquiring the second connection cancels its idle timer; if the channel then fails
  to open, nothing arms it again (`ssh/SshConnection.ts:484`).
- A task canceled and retried during its first acquire runs twice; retrying a nested
  directory from the leaves settles its ancestors early, which is why
  `DoneAfterChildren` speaks of steps that are not user commands.
- An upload that is paused and resumed, or canceled and retried, during its `lstat` is
  queued for expansion again (`sftp/TransferQueue.ts:253`). Both activities list the
  directory and enqueue what is in it, although the comment eight lines above says that
  this must not happen because the whole tree would be there twice. And if the path
  has become a link in between, the second `lstat` closes the group as done while the
  children that the first one found are under way. `DoneAfterChildren` was false of the
  model for that reason as soon as two expansions were allowed, and now leaves out a group
  that is being classified.
- An upload that was taken back is enqueued after all if its probe is answered after
  the next request reset the flag (`UploadConflictModal.tsx:51`).
- Two tasks with one target share a `.part` file, also one after the other: what a
  canceled task left may be resumed by the next.
- Renaming, deleting and creating load the directory they began in when they are
  done (`SftpPane.tsx:578`, `595`, `619`, `698`): a user who went elsewhere is taken back,
  although the comment on `cwdRef` says that a refresh must use the newest directory.
- A settle that refreshes the panel while the user's navigation is under way
  discards that navigation (`SftpPane.tsx:384`), and a followed `cd` that fails
  discards a refresh (`SftpPane.tsx:194`).
- A watch gives up after a minute without a byte (`SftpPane.tsx:411`): an upload that
  was paused, or queued behind another session, is not shown when it lands, and
  neither is one that is repeated.
- Clearing in the tenth of a second between the end of a task and its batch leaves a
  row of a task that is gone, active for ever (`useTransferStore.ts:89`).
- The failure path of a forward's start deletes a newer entry (`forward/ForwardManager.ts:69`).
- An inline proxy that an import extracts keeps the reference to its password in common
  with the connection. An overwriting import of the connection then deletes a password
  the proxy still uses (`services/importData.ts:858`); and after the proxy's address was
  edited, importing again makes a second proxy with the same reference, so that deleting the
  connection and the first proxy deletes the second one's password
  (`store/savedRefs.ts:126`). `Kept` leaves inline references of several rows aside.

## Proofs

Eight modules prove theorems for any values of the constants (any attempts, rules,
files, rows, instances, generations, and bounds on their numbers), under the named
assumptions of the modules they extend and no others. Each theorem rests on an
inductive invariant that holds initially, is kept by every action (one lemma or
step each, or one for a group that is alike) and contains the property. TLC
checked the properties on the runs above, and the larger invariants as well, before
they were proved.

`SshConnectionProofs`:

- Of `Spec`: `TypeCorrect`, `NoTimerAfterCloseHolds`,
  `AttemptsOnlyWhileRegisteredHolds`. `NoTimerAfterClose` is not inductive alone: a first
  attempt's failure takes the session out of the registry, so the invariant `IInv` adds
  that a first attempt is alone (`FirstAlone`), that a session outside the registry
  which no user closed is inert (`InertUnlessRegistered`), and that a registered session was
  not closed. `TermsTrackedHolds` strengthens the property to every session that was not
  closed by the user, which is inductive.
- Of `OrderlySpec`: `ReadyHasClientHolds`, `NoOrphanClientHolds`, `OneAttemptHolds` and
  `ClosedStaysClosedHolds`; `OrderlyRefinesSpec` carries the first group over to what
  `ssh_orderly` checks. Their invariant `OInv` contains all four and `IInv`, and says what
  ties them together: an attempt in flight owns the session and its state
  (`FlightOwnsSession`), a client that is held is the current one
  (`HeldClientIsCurrent`), only an existing client is marked as ended.
- `OrderlyImplementsSession`: the safety part of the refinement `ImplementsSession`.
  Beyond `OInv` it needs that an attempt the user asked for starts counting at zero
  (`ManualFromZero`) and that a state which shows an attempt has one
  (`ShownAttemptExists`). The liveness part stays with TLC.

`SessionServicesProofs`:

- `ServedAsShownHolds` and `ForwardsRestoredHolds`, of `ForwardSpec`. A local start that
  goes on is the one its entry names (`LocalsTracked`), which is why the failure path,
  that deletes by rule id, removes no newer entry of a local rule; what waits to be
  restored never stands beside a live entry (`LostTogether`), which is why a second
  loss does not overwrite the first; and nothing is started before the first connection
  (`OpenedFirst`, `RegisteredFirst`). Like the property, `ForwardsRestoredHolds` makes an
  exception of the `-R` rules that stood when the user reconnected (`forsaken`).
- `FileNeverVanishesHolds` and the action property `NoLostUpdateHolds`, of `SaveSpec`.
  The tab and the registry agree while both know the file (`ShownIsBaseline`); what a
  save set aside it remembers (`AsideIsKnown`) and removes only once the target is
  placed (`PlacedBeforeDiscard`); what it compared is still there until another program
  comes in between (`ComparedIsBase`).
- `TabTellsTruthHolds`, of `Spec` of the composition, since the tab follows the session.
  The last word about the state that is on its way to the window is true, and if there
  is none, what the window was told is (`TruthUnderWay`); this has to hold in the two
  lives of a tab, before and after the reply of `session:open` is claimed (`ShowsTruth`).
- `ServicesKeepTheirPromises`: all of these of `Spec`. A part that is not followed is
  as it began, and a step of the session is one of each service's environment
  (`ServicesInvariance`).

`DesktopProofs`:

- `TransferTypeCorrect`, `RefsCountUsersHolds`, `OneTransferClientHolds`,
  `CachedSftpIsCurrentHolds` and the action property `NeverEndedInUseHolds`, of `TransferSpec`.
  The invariant adds: where a job stands says where its client
  stands (`JobsPlaced`), only a connected client is kept or ended (`EndedUp`), the three
  shared references agree on one client (`SharedAgree`), a job that opens or holds a
  channel has it on the current client or on one that is gone (`JobsOnCurrent`), and a
  client is dialling because a job waits for it (`DialAwaited`). `RefsCountUsers` is part of
  it: an exact count is what keeps the idle timer off a connection in use. Its proof is
  about cardinalities of `Users`, by the theorems on finite sets.
- `OneLeaderHolds` and `InstallAloneHolds`, of `InstancesSpec`. The flag of an instance
  agrees with the database while it serves (`LeaderIsCoordinator`, from
  `RowWhileStarted`). An installer has put up the barrier in its own name
  (`BarrierStands`), waits for whoever started before it (`PeersAwaited`), and goes on
  when they are gone (`OthersGone`, `NobodyWorks`).
- `ConsentIsPersonalHolds`, of `PromptSpec`: every answer under way was given by the
  user to the question it names (`RepliesAreGiven`).
- `LanTypeCorrect`, of `LanSpec`: a receiver that is switched off has no
  transfer, consent or token left (`FlagsTyped`).
- `TypeCorrect` and `DesktopKeepsItsPromises`, of the composed `Spec`, with the parts of
  `RdpProofs`: every step is a step of one part, and each part's invariant speaks of its
  own variables.

`RdpProofs`:

- The action property `RejectedNotRetriedHolds`, of `RdpSpec`: as long as no lockout was
  reported, a session whose stored password was refused has the obligation to ask
  (`RefusedAreAskedFor`), which the reconnections pass on.
- `NothingLostHolds`, of `FramesSpec`. A frame in flight has arrived or is on its way to
  the current port (`OnTheWay`), and what is on its way has no gap before it
  (`DownInOrder`): so the renderer may take a frame that is older than its latest one for a
  copy, and acknowledge it unseen (`RendererUpToDate`), whatever was sent again. A port
  that was replaced has nothing on its way (`PortsInOrder`).

`StorageProofs`:

- `TreeCompleteHolds` and the action property `NoBlindOverwriteHolds`, of
  `ConnectionsSpec`. What lies below the root and the strays is said without recursion: it
  is what lies in every set that holds them and, with a group, its children. That is not
  inductive where parents change, so the invariant (`TreeInv`) says it in two parts. Each
  parent is a group there is, the root or a stray (`Placed`), and each set of groups,
  those of the tables and of the file together, has one whose parents are outside of it
  (`NoLoops`). By `WholeTree` these give the property. `GroupAdded`, `MovedUp`,
  `ChildrenMoveUp` and `GroupsCopied` carry them over what the code does to groups: one
  that is created or saved, one that is deleted with its children moved up, and an
  import. `PlaceOfForm` says what a form may name. `NoLoops` is assumed of what is stored
  and of the old file, because an import with other parents could join two trees to a
  loop; the code keeps it, since no operation puts a group under another one later. A
  window may save over a row only if the row's revision is the one it read;
  that equal revisions are equal rows is in `Seen`, and holds because every write takes
  a new one, save for the migration of inline proxies, which is over before a window is
  open (`MigratesAlone`).
- `SecretsSurviveHolds`: a password bears the name of the row it was stored for, in the
  tables and in the file that was exported (`Secrets`), so what a step deletes belonged
  to a row that goes or gets another one (`OnlyOwnLost`).
- `PlaintextIsMarkedHolds`, of `EncryptionSpec`: the mark is there before the insertion
  that was announced (`AnnouncedIsMarked`), which dies with its process
  (`OnlyUpAccepts`).
- `StorageTypeCorrect` and `StorageKeepsWhatItIsGiven`, of the composed `Spec`, with the
  drafts of `EditorProofs`.

`EditorProofs`: `DraftsSurviveHolds`, of `PatientSpec`. What was typed last is what the
editor would show of the tab, in the mounted editor or in its stash (`Held`), and the tab
is dirty exactly when that is not what the remote machine has (`WantedHeld`). With
changes at risk, no other file is on its way and the window is not about to close
(`RiskIsShown`); a save is of the tab that is shown, and asks its questions alone
(`SavesShown`); a question to close or reload is about one tab, of which no read is under
way (`AskedIdle`), so that an answered read finds a tab without changes. These are the
places where the patience of `PatientSpec` is needed.

`TransferQueueProofs`, of `TransferQueue`'s `Spec`, for any sessions, limits, tasks, listings
and commands. A step of the queue is a composition of operators on worlds, so the
proofs are about worlds too, and each operator has a lemma on what it does to them:

- The loops first. That the recursive functions of `Each` and `SetState` exist is proved
  by a least counterexample (`EachUnfolds`, `ClimbUnfolds`); `EachKeeps` and `ClimbKeeps`
  say that if each turn leads from one set of a sequence into the next, the loop leads from
  the first into the last. Every later argument about a loop is an instance of these.
- `QueueInvariant`: the world is in `Good` (a child comes after its group and points to
  it, totals are exact, a handle names the slot that works on its task, and no limit
  is exceeded), each classified task that waits is held back by a limit (`AllHeld`), each
  unclassified one is in the expansion queue or at its `lstat` (`AllNoticed`), and the
  expansion queue is empty or as much is expanded as may be (`Full`).
  `QueueTypeCorrect` and `NeverStrandedHolds` follow. What makes it inductive is that a
  command or the end of an activity may break it for the tasks it is about only, and
  that `pump` and `pumpExpand` restore it: a turn of `pump` starts the task or leaves it
  held, and what is held stays so as long as no slot is freed (`Calmer`). The cascade of
  final states above a task never makes one queued (`Restated`), which is why it
  strands nobody.
- The action property `DoneAfterChildrenHolds`. Within one step groups are settled many
  times, on the way up from each task that ends or cannot start. The invariant of the
  cascade is a ladder (`ClosedBut`): each group that the step has made done has no
  child that is unfinished or failed, except that the group to be looked at next may have
  one that just failed; one `Climb` moves the exception up. It holds of the groups
  that are not done before the step, that no worker packs and that are not being
  classified (`Watched`), and every activity ends with no exception left (`Closed`).

`FileTransferProofs`:

- The action property `KeptUnlessOverwrittenHolds`, of `CopySpec`, for every user and
  network: a step changes at most its own task and its own file (`Keeps`).
- `OnlyWantedUploadsHolds`, of `CarefulCopySpec`: a user who asks again only when nothing
  is under way has one request between the question and its task (`ModalAsks`,
  `PlansOne`). The modal's flag `aborted` is one for all requests, which is why the proof
  fails for any other user, and so does the code.
- `LandedWholeHolds`, of `CarefulCopySpec`: the `.part` file holds blocks of its task's
  source, with gaps only where a request is under way (`Sound`), so that its size says how far
  the copy has come as soon as nothing is under way. This needs `FailInOrder`, and that a
  `.part` file is that of the last task (`LastOwns`).
- The action property `GoesWhereAskedHolds`, of `PanelSpec`: the request that counts is for
  the directory shown or asked for, and during a change for the one it began in
  (`WishInv`). `PanelTypeCorrect` adds what messages and replies carry.
- `TransfersKeepTheirPromises`: all of these, and those of the queue, of `TransfersSpec`.
  A behaviour of the whole is one of each part (`TransfersAreTheirParts`).

`Ordering` defines what the frame path and the queue of prompts need of sequences
without recursion; that finitely many numbers can be put in order is proved by a least
counterexample (`Least`, `OrderingExists`), because the induction theorems of the library cannot be
instantiated.

`NoTimerAfterClose`, `AttemptsOnlyWhileRegistered`, `RefsCountUsers`, `OneTransferClient`
and `CachedSftpIsCurrent` are proved and have no run of their own; `ClosedStaysClosed`
is proved of `OrderlySpec` and violated under `Spec`.

Only model-checked is all liveness, which is out of the prover's reach under fairness:
what settles, drains, comes back, converges or is shown in the end, and the liveness of
`ImplementsSession`. What the recursive functions of `TransferQueue` compute is proved as
far as its invariants need it; that `LeavesFirst` lists every descendant once, and
leaves before groups, is not, since no theorem depends on it.

`Monitor` promises liveness only.

## Plan

1. Models: the port traffic collector, whose reattachment races its opening as the
   monitor's did; the updater's download and the sequence of `before-quit`.
2. The expansion of a directory: that it is listed once is false (see above), and true of
   a user who does not resume during an `lstat`, which `QueueInvariant` should be enough
   to prove.

## Not modelled

- Drawing, layout and settings of the windows; the AI service: little state.
- File formats, key formats, proxy protocols, cryptography, SQL: conversions, seen
  from the models as something that succeeds or fails.
- The lock of `instances/storage.ts`, held only while the database is opened.
- The C++ worker and the Windows and Android applications: programs of their own.
