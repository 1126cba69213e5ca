-------------------------- MODULE TransferConnection --------------------------
(* The second SSH connection of a session, used by bulk transfers only        *)
(* (ssh/SshConnection.ts, from acquireTransferSftp to disconnect).            *)
(*                                                                            *)
(* It is dialled on first use, shared by every job of the session through a   *)
(* reference count, and closed when it has been idle for a minute.  A job is  *)
(* one activation of TransferQueue.start: it acquires once and, if that       *)
(* succeeds, releases once.  The primary connection is the environment: ready *)
(* says whether this.state is 'ready'.                                        *)
EXTENDS Naturals, FiniteSets

CONSTANTS
    Jobs,        \* activations that use the connection
    Clients,     \* ssh2 clients, the dialling ones included
    NoClient     \* null

ASSUME TransferAssumption ==
    /\ IsFiniteSet(Jobs)
    /\ NoClient \notin Clients

VARIABLES
    ready,           \* this.state = 'ready'
    disconnected,    \* disconnect() has run
    refs,            \* transferRefs
    idleTimer,       \* transferIdleTimer is pending
    transferClient,
    promise,         \* the client transferClientPromise resolves to
    transferSftp,    \* the client that carries this.transferSftp
    cphase,          \* where each client is
    ended,           \* clients on which end() was called
    stage,           \* where each job is: see Stages
    on               \* the client each job waits for or holds a channel of

sharedVars == <<refs, idleTimer, transferClient, promise, transferSftp>>
clientVars == <<cphase, ended>>
jobVars    == <<stage, on>>
transferVars == <<ready, disconnected, sharedVars, clientVars, jobVars>>

Stages == {"idle", "dial", "sftp", "holding"}
ClientOrNone == Clients \cup {NoClient}

TransferTypeOK ==
    /\ ready \in BOOLEAN
    /\ disconnected \in BOOLEAN
    /\ refs \in Nat
    /\ idleTimer \in BOOLEAN
    /\ transferClient \in ClientOrNone
    /\ promise \in ClientOrNone
    /\ transferSftp \in ClientOrNone
    /\ cphase \in [Clients -> {"idle", "dialling", "up"}]
    /\ ended \subseteq Clients
    /\ stage \in [Jobs -> Stages]
    /\ on \in [Jobs -> ClientOrNone]

TransferInit ==
    /\ ready = TRUE
    /\ disconnected = FALSE
    /\ refs = 0
    /\ idleTimer = FALSE
    /\ transferClient = NoClient
    /\ promise = NoClient
    /\ transferSftp = NoClient
    /\ cphase = [c \in Clients |-> "idle"]
    /\ ended = {}
    /\ stage = [j \in Jobs |-> "idle"]
    /\ on = [j \in Jobs |-> NoClient]

------------------------------------------------------------------------------
(* acquireTransferSftp and ensureTransferClient                               *)

Users == {j \in Jobs : stage[j] # "idle"}

Waiters(c) == {j \in Jobs : stage[j] = "dial" /\ on[j] = c}

Free(c) ==
    /\ cphase[c] = "idle"
    /\ c \notin {transferClient, promise, transferSftp}
    /\ \A j \in Jobs : on[j] # c

Goes(j, s, c) ==
    /\ stage' = [stage EXCEPT ![j] = s]
    /\ on' = [on EXCEPT ![j] = c]

\* Math.max(0, this.transferRefs - n)
RefsLess(n) == IF refs >= n THEN refs - n ELSE 0

\* Variant: a cached channel is handed out uncounted.
CountReferenceUnlessCached ==
    /\ refs' = IF transferSftp = NoClient THEN refs + 1 ELSE refs
    /\ idleTimer' = FALSE

CountReference ==
    /\ refs' = refs + 1
    /\ idleTimer' = FALSE

AcquireCached(j) ==
    /\ transferSftp # NoClient
    /\ CountReference
    /\ Goes(j, "holding", transferSftp)
    /\ UNCHANGED <<transferClient, promise, transferSftp, clientVars>>

AcquireOnClient(j) ==
    /\ transferSftp = NoClient
    /\ transferClient # NoClient
    /\ CountReference
    /\ Goes(j, "sftp", transferClient)
    /\ UNCHANGED <<transferClient, promise, transferSftp, clientVars>>

AcquireOnPromise(j) ==
    /\ transferSftp = NoClient
    /\ transferClient = NoClient
    /\ promise # NoClient
    /\ CountReference
    /\ Goes(j, "dial", promise)
    /\ UNCHANGED <<transferClient, promise, transferSftp, clientVars>>

AcquireDialling(j) ==
    /\ transferSftp = NoClient
    /\ transferClient = NoClient
    /\ promise = NoClient
    /\ ready
    /\ CountReference
    /\ \E c \in Clients :
        /\ Free(c)
        /\ cphase' = [cphase EXCEPT ![c] = "dialling"]
        /\ promise' = c
        /\ Goes(j, "dial", c)
    /\ UNCHANGED <<transferClient, transferSftp, ended>>

\* Session not ready: the reference is taken back, the timer stays cleared.
AcquireRefused(j) ==
    /\ transferSftp = NoClient
    /\ transferClient = NoClient
    /\ promise = NoClient
    /\ ~ready
    /\ idleTimer' = FALSE
    /\ UNCHANGED <<refs, transferClient, promise, transferSftp, clientVars, jobVars>>

\* A job finds its session in the manager, so it starts before disconnect().
Acquire(j) ==
    /\ stage[j] = "idle"
    /\ ~disconnected
    /\ \/ AcquireCached(j) \/ AcquireOnClient(j) \/ AcquireOnPromise(j)
       \/ AcquireDialling(j) \/ AcquireRefused(j)
    /\ UNCHANGED <<ready, disconnected>>

\* The dial succeeds; nothing checks that the session is still there.
DialReady(c) ==
    /\ cphase[c] = "dialling"
    /\ cphase' = [cphase EXCEPT ![c] = "up"]
    /\ transferClient' = c
    /\ stage' = [j \in Jobs |-> IF j \in Waiters(c) THEN "sftp" ELSE stage[j]]
    /\ UNCHANGED <<ready, disconnected, refs, idleTimer, promise, transferSftp, ended, on>>

\* The dial fails: every job awaiting it clears the promise and its reference.
DialFails(c) ==
    /\ cphase[c] = "dialling"
    /\ cphase' = [cphase EXCEPT ![c] = "idle"]
    /\ promise' = NoClient
    /\ refs' = RefsLess(Cardinality(Waiters(c)))
    /\ stage' = [j \in Jobs |-> IF j \in Waiters(c) THEN "idle" ELSE stage[j]]
    /\ on' = [j \in Jobs |-> IF j \in Waiters(c) THEN NoClient ELSE on[j]]
    /\ UNCHANGED <<ready, disconnected, idleTimer, transferClient, transferSftp, ended>>

SftpOpens(j) ==
    /\ stage[j] = "sftp"
    /\ cphase[on[j]] = "up"
    /\ transferSftp' = on[j]
    /\ stage' = [stage EXCEPT ![j] = "holding"]
    /\ UNCHANGED <<ready, disconnected, refs, idleTimer, transferClient, promise, clientVars, on>>

\* The channel is refused or its client is lost: no idle timer is armed here.
SftpFails(j) ==
    /\ stage[j] = "sftp"
    /\ refs' = RefsLess(1)
    /\ Goes(j, "idle", NoClient)
    /\ UNCHANGED <<ready, disconnected, idleTimer, transferClient, promise,
                   transferSftp, clientVars>>

------------------------------------------------------------------------------
(* releaseTransferSftp, the idle timer, loss and disconnect                   *)

Release(j) ==
    /\ stage[j] = "holding"
    /\ refs' = RefsLess(1)
    /\ idleTimer' = (idleTimer \/ refs' = 0)
    /\ Goes(j, "idle", NoClient)
    /\ UNCHANGED <<ready, disconnected, transferClient, promise, transferSftp, clientVars>>

\* closeTransferClient(); refs and the timer are its callers'.
CloseTransferClient ==
    /\ transferSftp' = NoClient
    /\ promise' = NoClient
    /\ transferClient' = NoClient
    /\ ended' = IF transferClient = NoClient THEN ended ELSE ended \cup {transferClient}

TransferIdleTimeout ==
    /\ idleTimer
    /\ idleTimer' = FALSE
    /\ \/ /\ refs > 0
          /\ UNCHANGED <<transferClient, promise, transferSftp, ended>>
       \/ /\ refs = 0
          /\ CloseTransferClient
    /\ UNCHANGED <<ready, disconnected, refs, cphase, jobVars>>

\* 'close' of a client, after a loss or an end().
ClientCloses(c) ==
    /\ cphase[c] = "up"
    /\ cphase' = [cphase EXCEPT ![c] = "idle"]
    /\ ended' = ended \ {c}
    /\ IF transferClient = c
       THEN /\ transferClient' = NoClient
            /\ promise' = NoClient
            /\ transferSftp' = NoClient
       ELSE UNCHANGED <<transferClient, promise, transferSftp>>
    /\ UNCHANGED <<ready, disconnected, refs, idleTimer, jobVars>>

\* The primary connection is lost or comes back; this one is not touched.
ReadyChanges ==
    /\ ~disconnected
    /\ ready' = ~ready
    /\ UNCHANGED <<disconnected, sharedVars, clientVars, jobVars>>

\* What disconnect() does to this connection.
TransferDisconnect ==
    /\ ~disconnected
    /\ disconnected' = TRUE
    /\ ready' = FALSE
    /\ idleTimer' = FALSE
    /\ refs' = 0
    /\ CloseTransferClient
    /\ UNCHANGED <<cphase, jobVars>>

TransferNext ==
    \/ \E j \in Jobs : Acquire(j) \/ SftpOpens(j) \/ SftpFails(j) \/ Release(j)
    \/ \E c \in Clients : DialReady(c) \/ DialFails(c) \/ ClientCloses(c)
    \/ TransferIdleTimeout \/ ReadyChanges \/ TransferDisconnect

TransferSpec == TransferInit /\ [][TransferNext]_transferVars

------------------------------------------------------------------------------
(* Properties                                                                 *)

\* The reference count is the number of jobs that use the connection, through
\* every failure of a dial or a channel.
RefsCountUsers == ~disconnected => refs = Cardinality(Users)

\* While the session lives, the connection is ended only when no job uses it:
\* the idle timer never pulls it from under a transfer.
NeverEndedInUse ==
    [][~disconnected' /\ ended' \ ended # {} => Users = {}]_transferVars

\* While the session lives there is at most one second connection: jobs that
\* arrive during a dial share it, and no client is forgotten un-ended.
OneTransferClient ==
    ~disconnected =>
        \A c, d \in Clients \ ended :
            cphase[c] # "idle" /\ cphase[d] # "idle" => c = d

\* The channel the next job is handed belongs to the current client, so it is
\* not a channel of a connection already closed.
CachedSftpIsCurrent ==
    ~disconnected /\ transferSftp # NoClient =>
        transferSftp = transferClient /\ cphase[transferClient] = "up"
==============================================================================
