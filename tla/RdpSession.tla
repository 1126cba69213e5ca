------------------------------ MODULE RdpSession ------------------------------
(* One remote desktop of rdp/RdpSessionManager.ts through its reconnections:  *)
(* the registry slot of a session id, the session object of every generation, *)
(* its worker process, and the two prompts that hold up a start.              *)
(*                                                                            *)
(* A session object outlives its place in the registry: its close timer and   *)
(* its worker's exit still come, and must touch nothing of its successor.     *)
(* Resize, pointer, clipboard and audio are left out; frames are in RdpFrames.*)
EXTENDS Naturals, FiniteSets

CONSTANTS
    MaxGenerations,   \* bound: workers started under one session id
    MaxCalls,         \* bound: reconnect() calls awaiting one generation
    Passwords,        \* what the user may type, or have stored
    NoPassword

ASSUME RdpSessionAssumption ==
    /\ MaxGenerations \in Nat \ {0}
    /\ MaxCalls \in Nat \ {0}
    /\ NoPassword \notin Passwords

VARIABLES
    current,     \* generation of the object in the registry, 0: none
    born,        \* nextGeneration - 1
    session,     \* the session objects, by generation
    worker,      \* the process of each generation
    calls,       \* reconnect() calls that await its close
    stored,      \* the password in the vault under profile.passwordRef
    rejected,    \* history: passwords the server answered AUTH_FAILED to,
                 \* since the user last typed them
    lockedOut    \* history: the server reported ACCOUNT_LOCKED_OUT

rdpVars == <<current, born, session, worker, calls, stored, rejected, lockedOut>>

Generations == 1..MaxGenerations
MaybePassword == Passwords \cup {NoPassword}

(* The states shown before ready (starting, handshaking, connecting,          *)
(* authenticating, verifying) are one here, "starting"; failed is shown and   *)
(* left for closing in one step.                                              *)
SessionRecord ==
    [state: {"starting", "ready", "closing", "closed"},
     hello: BOOLEAN, workerReady: BOOLEAN, firstFrame: BOOLEAN,
     asking: BOOLEAN,                            \* rdp-password prompt open
     certificate: {"unseen", "asked", "answered"},
     sent: MaybePassword,                        \* last credential written
     force: BOOLEAN,                             \* forcePasswordPrompt
     startup: BOOLEAN, closeTimer: BOOLEAN,      \* timers set
     closing: BOOLEAN,                           \* closeReason is set
     done: BOOLEAN,                              \* closeCompleted
     remove: BOOLEAN,                            \* removeWhenClosed
     ended: BOOLEAN,                             \* processEnded
     broken: BOOLEAN]                            \* workerStdinBroken

RdpTypeOK ==
    /\ current \in 0..born
    /\ born \in 0..MaxGenerations
    /\ session \in [Generations -> SessionRecord]
    /\ worker \in [Generations -> {"none", "alive", "killed", "exited"}]
    /\ calls \in [Generations -> 0..MaxCalls]
    /\ stored \in MaybePassword
    /\ rejected \subseteq Passwords
    /\ lockedOut \in BOOLEAN

(* createSession                                                              *)
NewSession(forcePrompt) ==
    [state |-> "starting", hello |-> FALSE, workerReady |-> FALSE,
     firstFrame |-> FALSE, asking |-> FALSE, certificate |-> "unseen",
     sent |-> NoPassword, force |-> forcePrompt, startup |-> FALSE,
     closeTimer |-> FALSE, closing |-> FALSE, done |-> FALSE, remove |-> FALSE,
     ended |-> TRUE, broken |-> FALSE]

RdpInit ==
    /\ current = 0 /\ born = 0
    /\ session = [g \in Generations |-> NewSession(FALSE)]
    /\ worker = [g \in Generations |-> "none"]
    /\ calls = [g \in Generations |-> 0]
    /\ stored \in MaybePassword
    /\ rejected = {}
    /\ lockedOut = FALSE

IsCurrent(g) == g # 0 /\ current = g

(* The worker of an object made by NewSession is spawned before anything else *)
(* can run, so a session that is not ended has a worker.                      *)
IsRunning(g) == IsCurrent(g) /\ ~session[g].ended /\ ~session[g].closing

------------------------------------------------------------------------------
(* What the methods that end a session leave in its object.                   *)

(* Timers and prompts are cancelled.  What is not read of a closing session   *)
(* any more is forgotten here with them.                                      *)
Quiet(s) == [s EXCEPT !.startup = FALSE, !.asking = FALSE,
                      !.certificate = "unseen", !.sent = NoPassword,
                      !.workerReady = FALSE, !.firstFrame = FALSE]

(* finishClose: idempotent, and only a dead process clears the close timer.   *)
Finish(s, processEnded) ==
    LET t == [s EXCEPT !.ended = @ \/ processEnded,
                       !.closeTimer = @ /\ ~processEnded]
    IN IF s.done THEN t
       ELSE [Quiet(t) EXCEPT !.done = TRUE, !.state = "closed"]

Unreachable(s) == s.ended \/ s.broken

(* beginClose: the first call counts, a later one may only add removal.       *)
BeginClose(s, removing) ==
    LET t == [s EXCEPT !.remove = @ \/ removing]
        u == [Quiet(t) EXCEPT !.closing = TRUE, !.state = "closing"]
    IN IF s.closing THEN t
       ELSE IF Unreachable(s) THEN Finish(u, TRUE)
       ELSE [u EXCEPT !.closeTimer = TRUE]

(* fail: ignored once the session is closing.                                 *)
FailWith(s, code) ==
    IF s.closing THEN s
    ELSE BeginClose([s EXCEPT !.force = CASE code = "auth" -> TRUE
                                          [] code = "lockout" -> FALSE
                                          [] OTHER -> @], FALSE)

(* The object of generation g becomes s; a completed close that was asked to  *)
(* remove it takes it out of the registry, and a broken pipe costs the worker *)
(* its life.                                                                  *)
Becomes(g, s) ==
    /\ session' = [session EXCEPT ![g] = s]
    /\ current' = IF current = g /\ s.done /\ s.remove THEN 0 ELSE current
    /\ worker' = IF s.broken /\ s.closing /\ worker[g] = "alive"
                 THEN [worker EXCEPT ![g] = "killed"] ELSE worker

KeepsHistory == UNCHANGED <<stored, rejected, lockedOut>>

------------------------------------------------------------------------------
(* Calls of the renderer.                                                     *)

(* What is still read of an object that left the registry.                    *)
Retired(s) ==
    [NewSession(FALSE) EXCEPT !.state = "closed", !.closing = TRUE, !.done = TRUE,
                              !.closeTimer = s.closeTimer, !.ended = s.ended,
                              !.broken = s.broken]

(* startSession, over the object of generation old in the registry if any:    *)
(* the worker may be missing or impossible to spawn.                          *)
StartSession(old, forcePrompt) ==
    LET g == born + 1
        s == NewSession(forcePrompt)
        kept == [h \in Generations |-> IF h = old THEN Retired(session[h])
                                       ELSE session[h]]
    IN /\ born < MaxGenerations
       /\ born' = g
       /\ current' = g
       /\ \/ /\ session' = [kept EXCEPT ![g] =
                               [s EXCEPT !.ended = FALSE, !.startup = TRUE]]
             /\ worker' = [worker EXCEPT ![g] = "alive"]
          \/ /\ session' = [kept EXCEPT ![g] = FailWith(s, "other")]
             /\ UNCHANGED worker

Open ==
    /\ born = 0
    /\ StartSession(0, FALSE)
    /\ KeepsHistory /\ UNCHANGED calls

(* close (the user's tab) and closeAll (the application ends)                 *)
Close ==
    /\ current # 0
    /\ Becomes(current, BeginClose(session[current], TRUE))
    /\ KeepsHistory /\ UNCHANGED <<born, calls>>

(* reconnect up to its await.  forcePasswordPrompt, which it reads before it, *)
(* cannot change any more once the close has begun, and is set whenever       *)
(* failureCode is AUTH_FAILED.                                                *)
Reconnect ==
    /\ current # 0 /\ calls[current] < MaxCalls
    /\ calls' = [calls EXCEPT ![current] = @ + 1]
    /\ Becomes(current, BeginClose(session[current], FALSE))
    /\ KeepsHistory /\ UNCHANGED born

\* Variant: A reconnection that does not hand the obligation to prompt on.
ReconnectResumesAfresh(g) ==
    /\ calls[g] > 0 /\ session[g].done
    /\ calls' = [calls EXCEPT ![g] = @ - 1]
    /\ IF current = g THEN StartSession(g, FALSE)
       ELSE UNCHANGED <<current, born, session, worker>>
    /\ KeepsHistory

(* reconnect after its await: only the call that still finds its own object   *)
(* starts a successor.                                                        *)
ReconnectResumes(g) ==
    /\ calls[g] > 0 /\ session[g].done
    /\ calls' = [calls EXCEPT ![g] = @ - 1]
    /\ IF current = g
       THEN StartSession(g, session[g].force)
       ELSE UNCHANGED <<current, born, session, worker>>
    /\ KeepsHistory

------------------------------------------------------------------------------
(* The worker's messages, handled as they are read from its stdout.           *)

Heard(g) == IsCurrent(g) /\ worker[g] = "alive" /\ ~session[g].ended

(* Ready is published once, by whichever of worker state and first frame      *)
(* comes last (publishReadyIfComplete).                                       *)
Published(s) ==
    IF s.workerReady /\ s.firstFrame THEN [s EXCEPT !.state = "ready"] ELSE s

(* handleHello, with the synchronous part of sendPasswordIfAvailable: a       *)
(* stored password goes out unless a fresh one is to be asked for.            *)
HandleHello(g) ==
    /\ Heard(g) /\ ~session[g].closing /\ ~session[g].hello
    /\ LET silent == ~session[g].force /\ stored # NoPassword
       IN Becomes(g, [session[g] EXCEPT
              !.hello = TRUE, !.startup = TRUE,
              !.sent = IF silent THEN stored ELSE @,
              !.asking = ~silent])
    /\ KeepsHistory /\ UNCHANGED <<born, calls>>

(* sendPasswordIfAvailable after its await, with rememberRdpPassword: only a  *)
(* password the vault could keep makes the next prompt unnecessary; when the  *)
(* vault is not available the profile loses the one it had.                   *)
Remembering == {"no", "kept", "unavailable"}

PasswordAnswered(g, p, remember) ==
    /\ IsRunning(g) /\ session[g].asking
    /\ Becomes(g, [session[g] EXCEPT !.asking = FALSE, !.sent = p,
                                     !.force = remember # "kept",
                                     !.startup = TRUE])
    /\ stored' = CASE remember = "no" -> stored
                   [] remember = "kept" -> p
                   [] remember = "unavailable" -> NoPassword
    /\ rejected' = rejected \ {p}
    /\ UNCHANGED <<born, calls, lockedOut>>

(* The prompt is dismissed or times out.                                      *)
PasswordRefused(g) ==
    /\ IsRunning(g) /\ session[g].asking
    /\ Becomes(g, FailWith([session[g] EXCEPT !.asking = FALSE], "other"))
    /\ KeepsHistory /\ UNCHANGED <<born, calls>>

(* handleCertificatePrompt; under the strict policy it answers by itself.     *)
HandleCertificatePrompt(g) ==
    /\ Heard(g) /\ session[g].hello /\ ~session[g].closing
    /\ ~session[g].workerReady /\ session[g].certificate = "unseen"
    /\ \/ Becomes(g, [session[g] EXCEPT !.certificate = "answered"])
       \/ Becomes(g, [session[g] EXCEPT !.certificate = "asked",
                                        !.startup = TRUE])
    /\ KeepsHistory /\ UNCHANGED <<born, calls>>

(* Accepted or not, the answer goes to the worker, which fails by itself.     *)
CertificateAnswered(g) ==
    /\ IsRunning(g) /\ session[g].certificate = "asked"
    /\ Becomes(g, [session[g] EXCEPT
           !.certificate = "answered",
           !.startup = ~(session[g].workerReady /\ session[g].firstFrame)])
    /\ KeepsHistory /\ UNCHANGED <<born, calls>>

(* handleWorkerState: ready.  The server let the worker in, so the worker had *)
(* its password and its certificate was settled.                              *)
WorkerReady(g) ==
    /\ Heard(g) /\ ~session[g].closing /\ session[g].sent # NoPassword
    /\ ~session[g].workerReady /\ session[g].certificate # "asked"
    /\ Becomes(g, Published([session[g] EXCEPT !.workerReady = TRUE,
                                 !.startup = ~session[g].firstFrame]))
    /\ KeepsHistory /\ UNCHANGED <<born, calls>>

(* handleFrame, as far as the life of the session is concerned                *)
HandleFirstFrame(g) ==
    /\ Heard(g) /\ ~session[g].closing /\ session[g].sent # NoPassword
    /\ session[g].certificate # "asked" /\ ~session[g].firstFrame
    /\ Becomes(g, Published([session[g] EXCEPT !.firstFrame = TRUE,
                                 !.startup = @ /\ ~session[g].workerReady]))
    /\ KeepsHistory /\ UNCHANGED <<born, calls>>

(* handleWorkerState: failed.  The server judges a password it was sent.      *)
WorkerFails(g, code) ==
    /\ Heard(g) /\ session[g].hello
    /\ code # "other" => session[g].sent # NoPassword /\ ~session[g].workerReady
    /\ Becomes(g, FailWith(session[g], code))
    /\ rejected' = IF code = "auth" /\ ~session[g].closing
                   THEN rejected \cup {session[g].sent} ELSE rejected
    /\ lockedOut' = (lockedOut \/ (code = "lockout" /\ ~session[g].closing))
    /\ UNCHANGED <<born, calls, stored>>

\* Variant: A remote close that leaves the worker to end by itself.
WorkerClosedNoTimer(g) ==
    /\ Heard(g) /\ session[g].hello
    /\ LET s == session[g]
       IN Becomes(g, IF s.closing THEN Finish(s, FALSE)
                     ELSE Finish([s EXCEPT !.closing = TRUE], FALSE))
    /\ KeepsHistory /\ UNCHANGED <<born, calls>>

(* handleWorkerState: closed.  Unasked for, it is a failure whose worker has  *)
(* two seconds to go; while closing it is the answer beginClose waits for.    *)
WorkerClosed(g) ==
    /\ Heard(g) /\ session[g].hello
    /\ LET s == session[g]
       IN Becomes(g, IF s.closing THEN Finish(s, FALSE)
                     ELSE Finish([s EXCEPT !.closing = TRUE, !.closeTimer = TRUE],
                                 FALSE))
    /\ KeepsHistory /\ UNCHANGED <<born, calls>>

(* handleWorkerState: closing                                                 *)
WorkerClosing(g) ==
    /\ Heard(g) /\ session[g].hello /\ ~session[g].closing
    /\ Becomes(g, BeginClose(session[g], FALSE))
    /\ KeepsHistory /\ UNCHANGED <<born, calls>>

------------------------------------------------------------------------------
(* The worker process and the timers.                                         *)

(* stdout ends, a message cannot be parsed, or 'error' comes from the process.*)
WorkerBreaks(g) ==
    /\ Heard(g) /\ ~session[g].closing
    /\ Becomes(g, FailWith(session[g], "other"))
    /\ KeepsHistory /\ UNCHANGED <<born, calls>>

(* A write to stdin fails (stdinErrorListener).                               *)
StdinBreaks(g) ==
    /\ worker[g] = "alive" /\ ~session[g].ended /\ ~session[g].broken
    /\ LET s == [session[g] EXCEPT !.broken = TRUE]
       IN Becomes(g, IF s.closing THEN Finish(s, TRUE)
                     ELSE FailWith(s, "other"))
    /\ KeepsHistory /\ UNCHANGED <<born, calls>>

(* 'exit' of the process.  A generation that was replaced only marks itself.  *)
WorkerExits(g) ==
    /\ worker[g] \in {"alive", "killed"}
    /\ worker' = [worker EXCEPT ![g] = "exited"]
    /\ LET s == [session[g] EXCEPT !.ended = TRUE]
           t == IF ~IsCurrent(g) THEN s
                ELSE IF s.closing THEN Finish(s, TRUE)
                ELSE FailWith(s, "other")
       IN /\ session' = [session EXCEPT ![g] = t]
          /\ current' = IF current = g /\ t.done /\ t.remove THEN 0 ELSE current
    /\ KeepsHistory /\ UNCHANGED <<born, calls>>

(* The watchdog of hello, connection, prompt or first frame.                  *)
StartupExpires(g) ==
    /\ session[g].startup /\ IsRunning(g)
    /\ Becomes(g, FailWith([session[g] EXCEPT !.startup = FALSE], "other"))
    /\ KeepsHistory /\ UNCHANGED <<born, calls>>

(* The deadline of a close: the worker is killed, and the session is over     *)
(* whether or not the process has been seen to exit.                          *)
CloseTimerFires(g) ==
    /\ session[g].closeTimer
    /\ session' = [session EXCEPT ![g] = Finish(@, TRUE)]
    /\ current' = IF current = g /\ session[g].remove THEN 0 ELSE current
    /\ worker' = IF session[g].ended \/ worker[g] # "alive" THEN worker
                 ELSE [worker EXCEPT ![g] = "killed"]
    /\ KeepsHistory /\ UNCHANGED <<born, calls>>

WorkerSpeaks(g) ==
    \/ HandleHello(g)
    \/ HandleCertificatePrompt(g)
    \/ WorkerReady(g)
    \/ HandleFirstFrame(g)
    \/ \E code \in {"auth", "lockout", "other"} : WorkerFails(g, code)
    \/ WorkerClosed(g)
    \/ WorkerClosing(g)

RdpNext ==
    \/ Open
    \/ Close
    \/ Reconnect
    \/ \E g \in Generations :
        \/ ReconnectResumes(g)
        \/ WorkerSpeaks(g)
        \/ \E p \in Passwords, remember \in Remembering : PasswordAnswered(g, p, remember)
        \/ PasswordRefused(g)
        \/ CertificateAnswered(g)
        \/ WorkerBreaks(g)
        \/ StdinBreaks(g)
        \/ WorkerExits(g)
        \/ StartupExpires(g)
        \/ CloseTimerFires(g)

(* Timers fire, and the system ends a process that was killed: one of these   *)
(* happens as long as any is due.  Nothing is expected of a worker that is not*)
(* killed, of the server or of the user.                                      *)
RdpProgress ==
    \E g \in Generations :
        \/ StartupExpires(g)
        \/ CloseTimerFires(g)
        \/ worker[g] = "killed" /\ WorkerExits(g)

RdpFair == WF_rdpVars(RdpProgress)

RdpSpec == RdpInit /\ [][RdpNext]_rdpVars /\ RdpFair

------------------------------------------------------------------------------
(* No start hangs and no worker is left behind: whatever the worker does or   *)
(* fails to do, a session that was started becomes ready or is closed, and a  *)
(* session that closes is closed and its process ends, even after a reconnect *)
(* has put another session in its place.                                      *)
RdpSettles ==
    \A g \in Generations :
        born >= g ~> \/ session[g].state = "ready"
                     \/ session[g].done /\ worker[g] \in {"none", "exited"}

SentSilently(g) ==
    /\ session'[g].sent # session[g].sent
    /\ session'[g].sent # NoPassword
    /\ ~session[g].asking

(* "A rejected password must never be retried silently" (the comment at       *)
(* RdpSessionManager.ts:716): what is sent without a prompt is not a password *)
(* the server has refused since the user last typed it.  It holds through     *)
(* reconnections, concurrent ones too, until the server reports a lockout.    *)
RejectedNotRetried ==
    [][\A g \in Generations :
           SentSilently(g) /\ ~lockedOut => session'[g].sent \notin rejected]_rdpVars

(* The comment as it stands, with no exception: the code breaks it, because a *)
(* lockout clears the obligation to prompt that an earlier rejection set.     *)
NeverRetriedSilently ==
    [][\A g \in Generations :
           SentSilently(g) => session'[g].sent \notin rejected]_rdpVars

==============================================================================
