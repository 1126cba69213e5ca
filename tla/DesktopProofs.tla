----------------------------- MODULE DesktopProofs -----------------------------
(* What Desktop.tla says of its parts, for every value of their constants: the  *)
(* second connection of a session, for every finite set of jobs and every set   *)
(* of clients, the instances, the transfer of the configuration and the         *)
(* questions to the user.  The remote desktop has a module of its own.          *)
EXTENDS Desktop, RdpProofs, FiniteSetTheorems

-------------------------------------------------------------------------------
(* The second connection.                                                      *)

(* Where a job stands says where its client stands. *)
JobsPlaced ==
    /\ \A j \in Jobs : stage[j] = "idle" <=> on[j] = NoClient
    /\ \A j \in Jobs : stage[j] = "dial" => cphase[on[j]] = "dialling"
    /\ \A j \in Jobs : stage[j] \in {"sftp", "holding"} => cphase[on[j]] # "dialling"

(* Only a connected client is kept or marked as ended. *)
EndedUp ==
    /\ \A c \in ended : cphase[c] = "up"
    /\ transferClient # NoClient => cphase[transferClient] = "up"

(* While the session lives, the three references agree on one client. *)
SharedAgree ==
    ~disconnected =>
        /\ \A c \in Clients : cphase[c] = "dialling" => promise = c /\ transferClient = NoClient
        /\ \A c \in Clients : cphase[c] = "up" /\ c \notin ended => transferClient = c
        /\ transferClient # NoClient =>
              cphase[transferClient] = "up" /\ promise = transferClient
              /\ transferClient \notin ended
        /\ transferClient = NoClient /\ promise # NoClient => cphase[promise] = "dialling"
        /\ transferSftp # NoClient => transferSftp = transferClient

(* A job's client is the current one, or is gone. *)
JobsOnCurrent ==
    ~disconnected =>
        \A j \in Jobs : stage[j] \in {"sftp", "holding"} =>
            on[j] = transferClient \/ cphase[on[j]] = "idle"

(* A client is dialling because a job waits for it. *)
DialAwaited ==
    \A c \in Clients : cphase[c] = "dialling" => \E j \in Jobs : stage[j] = "dial" /\ on[j] = c

TransferInv ==
    /\ TransferTypeOK
    /\ JobsPlaced
    /\ EndedUp
    /\ SharedAgree
    /\ JobsOnCurrent
    /\ DialAwaited
    /\ RefsCountUsers

------------------------------------------------------------------------------
(* Counting *)

LEMMA UsersFinite == IsFiniteSet(Users) /\ Cardinality(Users) \in Nat
<1>1. Users \in SUBSET Jobs
  BY DEF Users
<1> QED
  BY <1>1, FS_Subset, FS_CardinalityType, TransferAssumption DEF TransferAssumption

(* One more job, counted once. *)
LEMMA UserJoins ==
    ASSUME NEW j \in Jobs, stage[j] = "idle", Users' = Users \cup {j}
    PROVE  Cardinality(Users') = Cardinality(Users) + 1
BY UsersFinite, FS_AddElement DEF Users

(* One job fewer; the count was not zero. *)
LEMMA UserLeaves ==
    ASSUME NEW j \in Jobs, stage[j] # "idle", Users' = Users \ {j}
    PROVE  Cardinality(Users) >= 1 /\ Cardinality(Users') = Cardinality(Users) - 1
<1>1. j \in Users
  BY DEF Users
<1>2. Cardinality(Users \ {j}) = Cardinality(Users) - 1
  BY <1>1, UsersFinite, FS_RemoveElement
<1>3. IsFiniteSet(Users \ {j}) /\ Cardinality(Users \ {j}) \in Nat
  BY UsersFinite, FS_RemoveElement, FS_CardinalityType
<1> QED
  BY <1>2, <1>3, UsersFinite

(* Several jobs fewer at once: those whose dial failed. *)
LEMMA WaitersLeave ==
    ASSUME NEW c \in Clients, Users' = Users \ Waiters(c)
    PROVE  /\ Cardinality(Waiters(c)) \in Nat
           /\ Cardinality(Users) >= Cardinality(Waiters(c))
           /\ Cardinality(Users') = Cardinality(Users) - Cardinality(Waiters(c))
<1>1. Waiters(c) \in SUBSET Users /\ Users \cap Waiters(c) = Waiters(c)
  BY DEF Waiters, Users
<1>2. IsFiniteSet(Waiters(c)) /\ Cardinality(Waiters(c)) <= Cardinality(Users)
  BY <1>1, UsersFinite, FS_Subset
<1>3. Cardinality(Waiters(c)) \in Nat
  BY <1>2, FS_CardinalityType
<1>4. Cardinality(Users \ Waiters(c)) = Cardinality(Users) - Cardinality(Waiters(c))
  BY <1>1, <1>2, UsersFinite, FS_Difference
<1> QED
  BY <1>2, <1>3, <1>4, UsersFinite

LEMMA CountZero == Cardinality(Users) = 0 => Users = {}
BY UsersFinite, FS_EmptySet

------------------------------------------------------------------------------
(* Initial state, types *)

LEMMA TransferInvInit == TransferInit => TransferInv
<1> SUFFICES ASSUME TransferInit PROVE TransferInv
  OBVIOUS
<1>1. TransferTypeOK /\ JobsPlaced /\ EndedUp /\ SharedAgree /\ JobsOnCurrent /\ DialAwaited
  BY DEF TransferInit, TransferTypeOK, Stages, ClientOrNone, JobsPlaced, EndedUp, SharedAgree, JobsOnCurrent,
         DialAwaited
<1>2. Users = {}
  BY DEF TransferInit, Users
<1> QED
  BY <1>1, <1>2, FS_EmptySet DEF TransferInit, TransferInv, RefsCountUsers

LEMMA RefsLessNat ==
    ASSUME refs \in Nat, NEW n \in Nat
    PROVE  RefsLess(n) \in Nat
BY DEF RefsLess

LEMMA GoesTyped ==
    ASSUME TransferTypeOK, NEW j \in Jobs, NEW s \in Stages, NEW c \in ClientOrNone, Goes(j, s, c)
    PROVE  stage' \in [Jobs -> Stages] /\ on' \in [Jobs -> ClientOrNone]
BY DEF TransferTypeOK, Goes

LEMMA CountTyped ==
    ASSUME refs \in Nat, CountReference
    PROVE  refs' \in Nat /\ idleTimer' \in BOOLEAN
<1>1. refs' \in Nat
  BY DEF CountReference
<1>2. idleTimer' \in BOOLEAN
  BY Zenon DEF CountReference
<1> QED
  BY <1>1, <1>2

LEMMA TransferTypeStep ==
    ASSUME TransferTypeOK, [TransferNext]_transferVars
    PROVE  TransferTypeOK'
<1> USE DEF TransferTypeOK, Stages, ClientOrNone, sharedVars, clientVars, jobVars
<1>1. ASSUME NEW j \in Jobs, Acquire(j) PROVE TransferTypeOK'
  <2>1. CASE AcquireCached(j)
    <3>1. Goes(j, "holding", transferSftp) /\ CountReference
      BY <2>1 DEF AcquireCached
    <3> QED
      BY <1>1, <2>1, <3>1, GoesTyped, CountTyped DEF Acquire, AcquireCached
  <2>2. CASE AcquireOnClient(j)
    <3>1. Goes(j, "sftp", transferClient) /\ CountReference
      BY <2>2 DEF AcquireOnClient
    <3> QED
      BY <1>1, <2>2, <3>1, GoesTyped, CountTyped DEF Acquire, AcquireOnClient
  <2>3. CASE AcquireOnPromise(j)
    <3>1. Goes(j, "dial", promise) /\ CountReference
      BY <2>3 DEF AcquireOnPromise
    <3> QED
      BY <1>1, <2>3, <3>1, GoesTyped, CountTyped DEF Acquire, AcquireOnPromise
  <2>4. CASE AcquireDialling(j)
    <3>1. PICK c \in Clients : /\ cphase' = [cphase EXCEPT ![c] = "dialling"]
                               /\ promise' = c
                               /\ Goes(j, "dial", c)
      BY <2>4 DEF AcquireDialling
    <3> QED
      BY <1>1, <2>4, <3>1, GoesTyped, CountTyped DEF Acquire, AcquireDialling
  <2>5. CASE AcquireRefused(j)
    BY <1>1, <2>5 DEF Acquire, AcquireRefused
  <2> QED
    BY <1>1, <2>1, <2>2, <2>3, <2>4, <2>5 DEF Acquire
<1>2. ASSUME NEW j \in Jobs, SftpOpens(j) PROVE TransferTypeOK'
  BY <1>2 DEF SftpOpens
<1>3. ASSUME NEW j \in Jobs, SftpFails(j) PROVE TransferTypeOK'
  BY <1>3, RefsLessNat DEF SftpFails, Goes
<1>4. ASSUME NEW j \in Jobs, Release(j) PROVE TransferTypeOK'
  <2>1. refs' \in Nat /\ idleTimer' \in BOOLEAN
    BY <1>4, RefsLessNat DEF Release
  <2> QED
    BY <1>4, <2>1 DEF Release, Goes
<1>5. ASSUME NEW c \in Clients, DialReady(c) PROVE TransferTypeOK'
  BY <1>5 DEF DialReady
<1>6. ASSUME NEW c \in Clients, DialFails(c) PROVE TransferTypeOK'
  <2>1. Cardinality(Waiters(c)) \in Nat
    <3>1. Waiters(c) \in SUBSET Jobs
      BY DEF Waiters
    <3> QED
      BY <3>1, FS_Subset, FS_CardinalityType, TransferAssumption DEF TransferAssumption
  <2>2. refs' \in Nat
    BY <1>6, <2>1, RefsLessNat DEF DialFails
  <2> QED
    BY <1>6, <2>2 DEF DialFails
<1>7. ASSUME NEW c \in Clients, ClientCloses(c) PROVE TransferTypeOK'
  BY <1>7 DEF ClientCloses
<1>8. ASSUME TransferIdleTimeout PROVE TransferTypeOK'
  BY <1>8 DEF TransferIdleTimeout, CloseTransferClient
<1>9. ASSUME ReadyChanges PROVE TransferTypeOK'
  BY <1>9 DEF ReadyChanges
<1>10. ASSUME TransferDisconnect PROVE TransferTypeOK'
  BY <1>10 DEF TransferDisconnect, CloseTransferClient
<1>11. CASE UNCHANGED transferVars
  BY <1>11 DEF transferVars
<1> QED
  BY <1>1, <1>2, <1>3, <1>4, <1>5, <1>6, <1>7, <1>8, <1>9, <1>10, <1>11 DEF TransferNext

------------------------------------------------------------------------------
(* The count *)

LEMMA CountStep ==
    ASSUME TransferInv, [TransferNext]_transferVars
    PROVE  RefsCountUsers'
<1>0. TransferTypeOK
  BY DEF TransferInv
<1> SUFFICES ASSUME ~disconnected' PROVE refs' = Cardinality(Users')
  BY DEF RefsCountUsers
<1>1. ASSUME ~disconnected PROVE refs = Cardinality(Users) /\ Cardinality(Users) \in Nat
  BY <1>1, UsersFinite DEF TransferInv, RefsCountUsers
<1>2. ASSUME ~disconnected, refs' = refs, Users' = Users PROVE refs' = Cardinality(Users')
  BY <1>1, <1>2
<1>3. ASSUME NEW j \in Jobs, Acquire(j) PROVE refs' = Cardinality(Users')
  <2>1. ~disconnected /\ stage[j] = "idle"
    BY <1>3 DEF Acquire
  <2>2. CASE AcquireRefused(j)
    BY <1>2, <2>1, <2>2 DEF AcquireRefused, Users, jobVars
  <2>3. ASSUME CountReference, NEW s \in {"dial", "sftp", "holding"}, NEW c, Goes(j, s, c)
        PROVE  refs' = Cardinality(Users')
    <3>1. Users' = Users \cup {j}
      BY <1>0, <2>3 DEF Goes, Users, TransferTypeOK
    <3>2. Cardinality(Users') = Cardinality(Users) + 1
      BY <2>1, <3>1, UserJoins
    <3> QED
      BY <1>1, <2>1, <2>3, <3>2 DEF CountReference
  <2> QED
    BY <1>3, <2>2, <2>3
       DEF Acquire, AcquireCached, AcquireOnClient, AcquireOnPromise, AcquireDialling
<1>4. ASSUME NEW j \in Jobs, stage[j] # "idle", Goes(j, "idle", NoClient), refs' = RefsLess(1),
             ~disconnected
      PROVE  refs' = Cardinality(Users')
  <2>1. Users' = Users \ {j}
    BY <1>0, <1>4 DEF Goes, Users, TransferTypeOK
  <2>2. Cardinality(Users) >= 1 /\ Cardinality(Users') = Cardinality(Users) - 1
    BY <1>4, <2>1, UserLeaves
  <2> QED
    BY <1>1, <1>4, <2>2 DEF RefsLess
<1>5. ASSUME NEW j \in Jobs, SftpOpens(j) PROVE refs' = Cardinality(Users')
  <2>1. Users' = Users
    BY <1>0, <1>5 DEF SftpOpens, Users, TransferTypeOK
  <2> QED
    BY <1>2, <1>5, <2>1 DEF SftpOpens
<1>6. ASSUME NEW j \in Jobs, SftpFails(j) \/ Release(j) PROVE refs' = Cardinality(Users')
  BY <1>4, <1>6 DEF SftpFails, Release
<1>7. ASSUME NEW c \in Clients, DialReady(c) PROVE refs' = Cardinality(Users')
  <2>1. Users' = Users
    BY <1>0, <1>7 DEF DialReady, Users, Waiters, TransferTypeOK
  <2> QED
    BY <1>2, <1>7, <2>1 DEF DialReady
<1>8. ASSUME NEW c \in Clients, DialFails(c) PROVE refs' = Cardinality(Users')
  <2>1. Users' = Users \ Waiters(c)
    BY <1>0, <1>8 DEF DialFails, Users, Waiters, TransferTypeOK
  <2>2. /\ Cardinality(Waiters(c)) \in Nat
        /\ Cardinality(Users) >= Cardinality(Waiters(c))
        /\ Cardinality(Users') = Cardinality(Users) - Cardinality(Waiters(c))
    BY <2>1, WaitersLeave
  <2>3. ~disconnected /\ refs' = RefsLess(Cardinality(Waiters(c)))
    BY <1>8 DEF DialFails
  <2> QED
    BY <1>1, <2>2, <2>3 DEF RefsLess
<1>9. ASSUME NEW c \in Clients, ClientCloses(c) PROVE refs' = Cardinality(Users')
  BY <1>2, <1>9 DEF ClientCloses, jobVars, Users
<1>10. ASSUME TransferIdleTimeout \/ ReadyChanges PROVE refs' = Cardinality(Users')
  BY <1>2, <1>10 DEF TransferIdleTimeout, ReadyChanges, sharedVars, jobVars, Users
<1>11. ASSUME TransferDisconnect PROVE FALSE
  BY <1>11 DEF TransferDisconnect
<1>12. CASE UNCHANGED transferVars
  BY <1>2, <1>12 DEF transferVars, sharedVars, jobVars, Users
<1> QED
  BY <1>3, <1>5, <1>6, <1>7, <1>8, <1>9, <1>10, <1>11, <1>12 DEF TransferNext
------------------------------------------------------------------------------
(* Clients and references *)

LEMMA JobsPlacedStep ==
    ASSUME TransferInv, [TransferNext]_transferVars
    PROVE  JobsPlaced'
<1> USE DEF JobsPlaced, TransferTypeOK, Stages, ClientOrNone, sharedVars, clientVars, jobVars
<1>0. TransferTypeOK /\ JobsPlaced /\ EndedUp /\ NoClient \notin Clients
  BY TransferAssumption DEF TransferInv, TransferAssumption
<1>1. ASSUME NEW j \in Jobs, Acquire(j) PROVE JobsPlaced'
  <2>1. ~disconnected /\ stage[j] = "idle"
    BY <1>1 DEF Acquire
  <2>2. CASE AcquireRefused(j)
    BY <1>0, <2>2 DEF AcquireRefused
  <2>3. CASE AcquireCached(j)
    BY <1>0, <2>1, <2>3 DEF AcquireCached, Goes, TransferInv, SharedAgree
  <2>4. CASE AcquireOnClient(j)
    BY <1>0, <2>1, <2>4 DEF AcquireOnClient, Goes, TransferInv, SharedAgree
  <2>5. CASE AcquireOnPromise(j)
    BY <1>0, <2>1, <2>5 DEF AcquireOnPromise, Goes, TransferInv, SharedAgree
  <2>6. CASE AcquireDialling(j)
    <3>1. PICK c \in Clients : /\ Free(c)
                               /\ cphase' = [cphase EXCEPT ![c] = "dialling"]
                               /\ Goes(j, "dial", c)
      BY <2>6 DEF AcquireDialling
    <3> QED
      BY <1>0, <3>1 DEF Goes, Free
  <2> QED
    BY <1>1, <2>2, <2>3, <2>4, <2>5, <2>6 DEF Acquire
<1>2. ASSUME NEW j \in Jobs, SftpOpens(j) \/ SftpFails(j) \/ Release(j) PROVE JobsPlaced'
  BY <1>0, <1>2 DEF SftpOpens, SftpFails, Release, Goes
<1>3. ASSUME NEW c \in Clients, DialReady(c) PROVE JobsPlaced'
  BY <1>0, <1>3 DEF DialReady, Waiters
<1>4. ASSUME NEW c \in Clients, DialFails(c) PROVE JobsPlaced'
  BY <1>0, <1>4 DEF DialFails, Waiters
<1>5. ASSUME NEW c \in Clients, ClientCloses(c) PROVE JobsPlaced'
  BY <1>0, <1>5 DEF ClientCloses
<1>6. CASE TransferIdleTimeout \/ ReadyChanges \/ TransferDisconnect \/ UNCHANGED transferVars
  BY <1>0, <1>6 DEF TransferIdleTimeout, ReadyChanges, TransferDisconnect, transferVars
<1> QED
  BY <1>1, <1>2, <1>3, <1>4, <1>5, <1>6 DEF TransferNext

LEMMA SharedStep ==
    ASSUME TransferInv, [TransferNext]_transferVars
    PROVE  EndedUp' /\ SharedAgree'
<1> USE DEF EndedUp, SharedAgree, TransferTypeOK, Stages, ClientOrNone, sharedVars, clientVars, jobVars
<1>0. TransferTypeOK /\ JobsPlaced /\ EndedUp /\ SharedAgree /\ NoClient \notin Clients
  BY TransferAssumption DEF TransferInv, TransferAssumption
<1>1. ASSUME NEW j \in Jobs, Acquire(j) PROVE EndedUp' /\ SharedAgree'
  <2>1. CASE AcquireRefused(j) \/ AcquireCached(j) \/ AcquireOnClient(j) \/ AcquireOnPromise(j)
    BY <1>0, <1>1, <2>1
       DEF Acquire, AcquireRefused, AcquireCached, AcquireOnClient, AcquireOnPromise
  <2>2. CASE AcquireDialling(j)
    <3>1. PICK c \in Clients : /\ Free(c)
                               /\ cphase' = [cphase EXCEPT ![c] = "dialling"]
                               /\ promise' = c
      BY <2>2 DEF AcquireDialling
    <3>2. /\ ~disconnected /\ promise = NoClient /\ transferClient = NoClient
          /\ transferSftp = NoClient
          /\ UNCHANGED <<transferClient, transferSftp, ended, disconnected>>
      BY <1>1, <2>2 DEF Acquire, AcquireDialling
    <3> QED
      BY <1>0, <3>1, <3>2 DEF Free
  <2> QED
    BY <1>1, <2>1, <2>2 DEF Acquire
<1>2. ASSUME NEW j \in Jobs, SftpOpens(j) PROVE EndedUp' /\ SharedAgree'
  <2>1. ~disconnected => on[j] = transferClient
    BY <1>0, <1>2 DEF SftpOpens, JobsOnCurrent, TransferInv
  <2> QED
    BY <1>0, <1>2, <2>1 DEF SftpOpens
<1>3. ASSUME NEW j \in Jobs, SftpFails(j) \/ Release(j) PROVE EndedUp' /\ SharedAgree'
  BY <1>0, <1>3 DEF SftpFails, Release
<1>4. ASSUME NEW c \in Clients, DialReady(c) PROVE EndedUp' /\ SharedAgree'
  BY <1>0, <1>4 DEF DialReady
<1>5. ASSUME NEW c \in Clients, DialFails(c) PROVE EndedUp' /\ SharedAgree'
  BY <1>0, <1>5 DEF DialFails
<1>6. ASSUME NEW c \in Clients, ClientCloses(c) PROVE EndedUp' /\ SharedAgree'
  BY <1>0, <1>6 DEF ClientCloses
<1>7. ASSUME TransferIdleTimeout PROVE EndedUp' /\ SharedAgree'
  <2>1. CASE refs > 0
    BY <1>0, <1>7, <2>1 DEF TransferIdleTimeout, CloseTransferClient
  <2>2. CASE refs = 0 /\ CloseTransferClient
    <3>1. ~disconnected => \A c \in Clients : cphase[c] # "dialling"
      BY <2>2, CountZero DEF TransferInv, RefsCountUsers, Users, DialAwaited
    <3> QED
      BY <1>0, <1>7, <2>2, <3>1 DEF TransferIdleTimeout, CloseTransferClient
  <2> QED
    BY <1>0, <1>7, <2>1, <2>2 DEF TransferIdleTimeout
<1>8. ASSUME ReadyChanges \/ TransferDisconnect \/ UNCHANGED transferVars PROVE EndedUp' /\ SharedAgree'
  BY <1>0, <1>8 DEF ReadyChanges, TransferDisconnect, CloseTransferClient, transferVars
<1> QED
  BY <1>1, <1>2, <1>3, <1>4, <1>5, <1>6, <1>7, <1>8 DEF TransferNext

LEMMA JobsOnCurrentStep ==
    ASSUME TransferInv, [TransferNext]_transferVars
    PROVE  JobsOnCurrent'
<1> USE DEF JobsOnCurrent, TransferTypeOK, Stages, ClientOrNone, sharedVars, clientVars, jobVars
<1>0. /\ TransferTypeOK /\ JobsPlaced /\ EndedUp /\ SharedAgree /\ JobsOnCurrent
      /\ NoClient \notin Clients
  BY TransferAssumption DEF TransferInv, TransferAssumption
<1>1. ASSUME NEW j \in Jobs, Acquire(j) PROVE JobsOnCurrent'
  <2>1. ~disconnected /\ stage[j] = "idle" /\ UNCHANGED disconnected
    BY <1>1 DEF Acquire
  <2>2. CASE AcquireRefused(j)
    BY <1>0, <2>1, <2>2 DEF AcquireRefused
  <2>3. CASE AcquireCached(j)
    BY <1>0, <2>1, <2>3 DEF AcquireCached, Goes, SharedAgree
  <2>4. CASE AcquireOnClient(j)
    BY <1>0, <2>1, <2>4 DEF AcquireOnClient, Goes
  <2>5. CASE AcquireOnPromise(j)
    BY <1>0, <2>1, <2>5 DEF AcquireOnPromise, Goes
  <2>6. CASE AcquireDialling(j)
    <3>1. PICK c \in Clients : /\ Free(c)
                               /\ cphase' = [cphase EXCEPT ![c] = "dialling"]
                               /\ Goes(j, "dial", c)
      BY <2>6 DEF AcquireDialling
    <3> QED
      BY <1>0, <2>1, <2>6, <3>1 DEF AcquireDialling, Goes, Free
  <2> QED
    BY <1>1, <2>2, <2>3, <2>4, <2>5, <2>6 DEF Acquire
<1>2. ASSUME NEW j \in Jobs, SftpOpens(j) PROVE JobsOnCurrent'
  BY <1>0, <1>2 DEF SftpOpens
<1>3. ASSUME NEW j \in Jobs, SftpFails(j) \/ Release(j) PROVE JobsOnCurrent'
  BY <1>0, <1>3 DEF SftpFails, Release, Goes
<1>4. ASSUME NEW c \in Clients, DialReady(c) PROVE JobsOnCurrent'
  BY <1>0, <1>4 DEF DialReady, Waiters, SharedAgree, JobsPlaced
<1>5. ASSUME NEW c \in Clients, DialFails(c) PROVE JobsOnCurrent'
  BY <1>0, <1>5 DEF DialFails, Waiters, JobsPlaced
<1>6. ASSUME NEW c \in Clients, ClientCloses(c) PROVE JobsOnCurrent'
  BY <1>0, <1>6 DEF ClientCloses, JobsPlaced
<1>7. ASSUME TransferIdleTimeout PROVE JobsOnCurrent'
  <2>1. CASE refs > 0
    BY <1>0, <1>7, <2>1 DEF TransferIdleTimeout, CloseTransferClient
  <2>2. CASE refs = 0 /\ CloseTransferClient
    <3>1. ~disconnected => Users = {}
      BY <2>2, CountZero DEF TransferInv, RefsCountUsers
    <3> QED
      BY <1>7, <3>1 DEF TransferIdleTimeout, Users
  <2> QED
    BY <1>0, <1>7, <2>1, <2>2 DEF TransferIdleTimeout
<1>8. ASSUME ReadyChanges \/ TransferDisconnect \/ UNCHANGED transferVars PROVE JobsOnCurrent'
  BY <1>0, <1>8 DEF ReadyChanges, TransferDisconnect, transferVars
<1> QED
  BY <1>1, <1>2, <1>3, <1>4, <1>5, <1>6, <1>7, <1>8 DEF TransferNext

LEMMA DialAwaitedStep ==
    ASSUME TransferInv, [TransferNext]_transferVars
    PROVE  DialAwaited'
<1> USE DEF DialAwaited, TransferTypeOK, Stages, ClientOrNone, sharedVars, clientVars, jobVars
<1>0. TransferTypeOK /\ JobsPlaced /\ DialAwaited /\ NoClient \notin Clients
  BY TransferAssumption DEF TransferInv, TransferAssumption
<1>1. ASSUME NEW j \in Jobs, stage[j] # "dial", NEW s \in Stages, NEW c, Goes(j, s, c),
             UNCHANGED cphase
      PROVE  DialAwaited'
  BY <1>0, <1>1 DEF Goes
<1>2. ASSUME NEW j \in Jobs, Acquire(j) PROVE DialAwaited'
  <2>1. CASE AcquireDialling(j)
    <3>1. PICK c \in Clients : /\ cphase' = [cphase EXCEPT ![c] = "dialling"]
                               /\ Goes(j, "dial", c)
      BY <2>1 DEF AcquireDialling
    <3>2. stage[j] = "idle"
      BY <1>2 DEF Acquire
    <3> QED
      BY <1>0, <3>1, <3>2 DEF Goes
  <2>2. CASE AcquireRefused(j)
    BY <1>0, <2>2 DEF AcquireRefused
  <2> QED
    BY <1>1, <1>2, <2>1, <2>2 DEF Acquire, AcquireCached, AcquireOnClient, AcquireOnPromise
<1>3. ASSUME NEW j \in Jobs, SftpOpens(j) PROVE DialAwaited'
  BY <1>0, <1>3 DEF SftpOpens
<1>4. ASSUME NEW j \in Jobs, SftpFails(j) \/ Release(j) PROVE DialAwaited'
  BY <1>1, <1>4 DEF SftpFails, Release
<1>5. ASSUME NEW c \in Clients, DialReady(c) PROVE DialAwaited'
  BY <1>0, <1>5 DEF DialReady, Waiters
<1>6. ASSUME NEW c \in Clients, DialFails(c) PROVE DialAwaited'
  BY <1>0, <1>6 DEF DialFails, Waiters
<1>7. ASSUME NEW c \in Clients, ClientCloses(c) PROVE DialAwaited'
  BY <1>0, <1>7 DEF ClientCloses
<1>8. CASE TransferIdleTimeout \/ ReadyChanges \/ TransferDisconnect \/ UNCHANGED transferVars
  BY <1>0, <1>8 DEF TransferIdleTimeout, ReadyChanges, TransferDisconnect, transferVars
<1> QED
  BY <1>2, <1>3, <1>4, <1>5, <1>6, <1>7, <1>8 DEF TransferNext

------------------------------------------------------------------------------
(* Theorems *)

LEMMA TransferStep == TransferInv /\ [TransferNext]_transferVars => TransferInv'
<1> SUFFICES ASSUME TransferInv, [TransferNext]_transferVars PROVE TransferInv'
  OBVIOUS
<1>1. TransferTypeOK
  BY DEF TransferInv
<1> QED
  BY <1>1, TransferTypeStep, CountStep, JobsPlacedStep, SharedStep, JobsOnCurrentStep, DialAwaitedStep
     DEF TransferInv

LEMMA TransferInvariance == TransferSpec => []TransferInv
BY TransferInvInit, TransferStep, PTL DEF TransferSpec

(* Every variable keeps its type; the count stays a natural number although   *)
(* disconnect() zeroes it under jobs that still give their reference back.    *)
THEOREM TransferTypeCorrect == TransferSpec => []TransferTypeOK
<1>1. TransferInv => TransferTypeOK
  BY DEF TransferInv
<1> QED
  BY <1>1, TransferInvariance, PTL

(* transferRefs is exactly the number of jobs using the second connection.    *)
THEOREM RefsCountUsersHolds == TransferSpec => []RefsCountUsers
<1>1. TransferInv => RefsCountUsers
  BY DEF TransferInv
<1> QED
  BY <1>1, TransferInvariance, PTL

(* Jobs never cause two second connections, nor leave one behind un-ended.    *)
THEOREM OneTransferClientHolds == TransferSpec => []OneTransferClient
<1>1. TransferInv => OneTransferClient
  BY TransferAssumption DEF TransferInv, OneTransferClient, SharedAgree, TransferTypeOK, ClientOrNone, EndedUp,
     TransferAssumption
<1> QED
  BY <1>1, TransferInvariance, PTL

(* A cached channel is never one of a connection already closed.              *)
THEOREM CachedSftpIsCurrentHolds == TransferSpec => []CachedSftpIsCurrent
<1>1. TransferInv => CachedSftpIsCurrent
  BY DEF TransferInv, CachedSftpIsCurrent, SharedAgree, TransferTypeOK, ClientOrNone
<1> QED
  BY <1>1, TransferInvariance, PTL

(* A step that ends a client, but for disconnect(), ends one nobody uses.      *)
LEMMA EndedUnused ==
    TransferInv /\ [TransferNext]_transferVars =>
        [~disconnected' /\ ended' \ ended # {} => Users = {}]_transferVars
<1> SUFFICES ASSUME TransferInv, TransferNext, ~disconnected', ended' \ ended # {} PROVE Users = {}
  BY DEF transferVars, clientVars
<1>1. CASE TransferIdleTimeout
  <2>1. refs = 0 /\ ~disconnected
    BY <1>1 DEF TransferIdleTimeout
  <2> QED
    BY <2>1, CountZero DEF TransferInv, RefsCountUsers
<1>2. ASSUME NEW j \in Jobs, Acquire(j) PROVE FALSE
  BY <1>2 DEF Acquire, AcquireCached, AcquireOnClient, AcquireOnPromise, AcquireDialling,
              AcquireRefused, clientVars
<1>3. ASSUME NEW j \in Jobs, SftpOpens(j) \/ SftpFails(j) \/ Release(j) PROVE FALSE
  BY <1>3 DEF SftpOpens, SftpFails, Release, clientVars
<1>4. ASSUME NEW c \in Clients, DialReady(c) \/ DialFails(c) \/ ClientCloses(c) PROVE FALSE
  BY <1>4 DEF DialReady, DialFails, ClientCloses
<1>5. CASE ReadyChanges \/ TransferDisconnect
  BY <1>5 DEF ReadyChanges, TransferDisconnect, clientVars
<1> QED
  BY <1>1, <1>2, <1>3, <1>4, <1>5 DEF TransferNext

(* The idle timer never ends a connection under a transfer.                   *)
THEOREM NeverEndedInUseHolds == TransferSpec => NeverEndedInUse
BY EndedUnused, TransferInvariance, PTL DEF TransferSpec, NeverEndedInUse

-------------------------------------------------------------------------------
(* The running copies of the application.                                      *)

(* An instance between start() and stop() has its row.                         *)
RowWhileStarted ==
    \A i \in Instances :
        phase[i] \in {"registered", "running", "closing"} => i \in members

(* The flag of an instance agrees with the database for as long as it serves.  *)
LeaderIsCoordinator ==
    \A i \in Instances : leader[i] => Serving(i) /\ coordinator = i

(* An installation is the business of an instance that serves.                 *)
InstallsWhileServing == \A i \in Instances : install[i] # "no" => Serving(i)

Starting(j) == phase[j] \in {"registered", "running"}

Installing(i) == phase[i] = "running" /\ install[i] \in {"preparing", "installing"}

(* The barrier stands from prepareInstall on, in the name of one instance.     *)
BarrierStands ==
    \A i \in Instances : Installing(i) => barrier /\ owner = i

(* Whoever started before the barrier is waited for.                           *)
PeersAwaited ==
    \A i, j \in Instances : Installing(i) /\ Starting(j) => j = i \/ j \in peers[i]

(* When the wait is over the others are gone.                                  *)
OthersGone ==
    \A i, j \in Instances :
        phase[i] = "running" /\ install[i] = "installing" /\ Starting(j) => j = i

(* While the installer runs the barrier stands and nobody works.               *)
NobodyWorks == installer => barrier /\ \A j \in Instances : ~Starting(j)

InstancesInv ==
    /\ InstancesTypeOK
    /\ RowWhileStarted /\ LeaderIsCoordinator /\ InstallsWhileServing
    /\ BarrierStands /\ PeersAwaited /\ OthersGone /\ NobodyWorks

-------------------------------------------------------------------------------
LEMMA InstancesInvInit == InstancesInit => InstancesInv
<1> SUFFICES ASSUME InstancesInit PROVE InstancesInv
  OBVIOUS
<1>1. InstancesTypeOK
  <2>1. MaxRevision \in Nat /\ MaxInstalls \in Nat
    BY InstancesAssumption
  <2>2. /\ members \subseteq Instances /\ mail \subseteq Requests
        /\ revision \in 0..MaxRevision /\ installs \in 0..MaxInstalls
    BY <2>1 DEF InstancesInit
  <2>3. known \in [Instances -> 0..MaxRevision]
    BY <2>1 DEF InstancesInit
  <2> QED
    BY <2>2, <2>3 DEF InstancesInit, InstancesTypeOK, Phases
<1>2. /\ RowWhileStarted /\ LeaderIsCoordinator /\ InstallsWhileServing
      /\ BarrierStands /\ PeersAwaited /\ OthersGone /\ NobodyWorks
  BY DEF InstancesInit, RowWhileStarted, LeaderIsCoordinator, InstallsWhileServing,
         BarrierStands, PeersAwaited, OthersGone, NobodyWorks, Installing, Starting
<1> QED  BY <1>1, <1>2 DEF InstancesInv

(* Forgetting touches what only the process itself knows.                      *)
LEMMA ForgetsType ==
    ASSUME InstancesTypeOK, NEW i \in Instances, Forgets(i)
    PROVE  /\ leader' \in [Instances -> BOOLEAN] /\ ~leader'[i]
           /\ known' \in [Instances -> 0..MaxRevision]
           /\ install' \in [Instances -> {"no", "confirmed", "preparing", "installing"}]
           /\ install'[i] = "no"
           /\ peers' \in [Instances -> SUBSET Instances]
           /\ mail' \subseteq Requests
           /\ \A j \in Instances \ {i} : /\ leader'[j] = leader[j]
                                         /\ install'[j] = install[j]
                                         /\ peers'[j] = peers[j]
BY InstancesAssumption DEF InstancesTypeOK, Forgets

(* An election changes the coordinator only if it is gone, and nobody's flag   *)
(* but that of the instance that elects.                                       *)
LEMMA ElectKeeps ==
    ASSUME InstancesInv, NEW i \in Instances,
           phase[i] \in {"registered", "running", "closing"}, Elect(i)
    PROVE  /\ members' \subseteq Instances
           /\ coordinator' \in Instances
           /\ leader' \in [Instances -> BOOLEAN]
           /\ \A j \in Instances : j \in members /\ j \in Alive => j \in members'
           /\ leader'[i] => coordinator' = i
           /\ \A j \in Instances \ {i} :
                  leader'[j] => leader[j] /\ coordinator' = j
<1> USE DEF InstancesInv, InstancesTypeOK
<1>1. PICK next \in IF coordinator \in Pruned THEN {coordinator} ELSE Pruned :
          /\ members' = Pruned
          /\ coordinator' = next
          /\ leader' = [leader EXCEPT ![i] = (next = i)]
  BY DEF Elect
<1>2. \A j \in Instances : leader[j] => coordinator = j /\ coordinator \in Pruned
  BY DEF LeaderIsCoordinator, Serving, RowWhileStarted, Pruned, Alive
<1>3. Pruned \subseteq Instances
  BY DEF Pruned
<1> QED  BY <1>1, <1>2, <1>3 DEF Pruned

-------------------------------------------------------------------------------
(* Starts, polls, changes and notices: no installation moves.                  *)
LEMMA RegisterKeeps ==
    ASSUME InstancesInv, NEW i \in Instances, Register(i) \/ RegisterUpdated(i)
    PROVE  InstancesInv'
<1> USE DEF InstancesInv
<1>0. \A j \in Instances : j \in members /\ j \in Alive => j \in Pruned
  BY DEF Pruned
<1>1. Pruned \subseteq Instances
  BY DEF Pruned, InstancesTypeOK
<1>2. CASE Register(i)
  <2>1. InstancesTypeOK'
    BY <1>1, <1>2 DEF Register, InstancesTypeOK, Phases
  <2>2. RowWhileStarted'
    BY <1>0, <1>2 DEF Register, RowWhileStarted, InstancesTypeOK, Alive
  <2>3. LeaderIsCoordinator' /\ InstallsWhileServing'
    BY <1>2 DEF Register, LeaderIsCoordinator, InstallsWhileServing, Serving,
                InstancesTypeOK
  <2>4. (BarrierStands /\ PeersAwaited /\ OthersGone /\ NobodyWorks)'
    BY <1>2 DEF Register, BarrierStands, PeersAwaited, OthersGone, NobodyWorks,
                Installing, Starting, InstancesTypeOK
  <2> QED  BY <2>1, <2>2, <2>3, <2>4
<1>3. CASE RegisterUpdated(i)
  <2>1. InstancesTypeOK'
    BY <1>1, <1>3 DEF RegisterUpdated, InstancesTypeOK, Phases
  <2>2. RowWhileStarted'
    BY <1>0, <1>3 DEF RegisterUpdated, RowWhileStarted, InstancesTypeOK, Alive
  <2>3. LeaderIsCoordinator' /\ InstallsWhileServing'
    BY <1>3 DEF RegisterUpdated, LeaderIsCoordinator, InstallsWhileServing, Serving,
                InstancesTypeOK
  <2>4. \A j \in Instances : phase'[j] # "running"
    BY <1>3 DEF RegisterUpdated, NobodyWorks, Starting, InstancesTypeOK
  <2>5. (BarrierStands /\ PeersAwaited /\ OthersGone /\ NobodyWorks)'
    BY <1>3, <2>4 DEF RegisterUpdated, BarrierStands, PeersAwaited, OthersGone,
                      NobodyWorks, Installing
  <2> QED  BY <2>1, <2>2, <2>3, <2>5
<1> QED  BY <1>2, <1>3

LEMMA StartedKeeps ==
    ASSUME InstancesInv, NEW i \in Instances, Started(i)
    PROVE  InstancesInv'
<1> USE DEF InstancesInv
<1>1. phase[i] = "registered" /\ Elect(i)
  BY DEF Started
<1>2. InstancesTypeOK'
  BY <1>1, ElectKeeps DEF Started, InstancesTypeOK, Phases
<1>3. RowWhileStarted'
  BY <1>1, ElectKeeps DEF Started, RowWhileStarted, InstancesTypeOK, Alive
<1>4. LeaderIsCoordinator' /\ InstallsWhileServing'
  BY <1>1, ElectKeeps
     DEF Started, LeaderIsCoordinator, InstallsWhileServing, Serving, InstancesTypeOK
<1>5. /\ UNCHANGED <<owner, barrier, install, peers, installer>>
      /\ install[i] = "no" /\ phase'[i] = "running"
      /\ \A j \in Instances \ {i} : phase'[j] = phase[j]
  BY <1>1 DEF Started, InstallsWhileServing, Serving, InstancesTypeOK
<1>6. (BarrierStands /\ PeersAwaited /\ OthersGone /\ NobodyWorks)'
  <2>1. BarrierStands'
    BY <1>5 DEF BarrierStands, Installing
  <2>2. PeersAwaited' /\ OthersGone'
    BY <1>1, <1>5 DEF PeersAwaited, OthersGone, Installing, Starting
  <2>3. NobodyWorks'
    BY <1>1, <1>5 DEF NobodyWorks, Starting
  <2> QED  BY <2>1, <2>2, <2>3
<1> QED  BY <1>2, <1>3, <1>4, <1>6

LEMMA PollKeeps ==
    ASSUME InstancesInv, NEW i \in Instances, Poll(i)
    PROVE  InstancesInv'
<1> USE DEF InstancesInv
<1>1. phase[i] \in {"registered", "running", "closing"} /\ Elect(i) /\ Serving(i)
  BY DEF Poll, Serving
<1>2. mail' \subseteq Requests
  BY DEF Poll, Requests, Pruned, InstancesTypeOK
<1>3. InstancesTypeOK'
  BY <1>1, <1>2, ElectKeeps DEF Poll, InstancesTypeOK
<1>4. RowWhileStarted'
  BY <1>1, ElectKeeps DEF Poll, RowWhileStarted, Alive
<1>5. LeaderIsCoordinator' /\ InstallsWhileServing'
  BY <1>1, ElectKeeps DEF Poll, LeaderIsCoordinator, InstallsWhileServing, Serving
<1>6. (BarrierStands /\ PeersAwaited /\ OthersGone /\ NobodyWorks)'
  BY DEF Poll, BarrierStands, PeersAwaited, OthersGone, NobodyWorks, Installing, Starting
<1> QED  BY <1>3, <1>4, <1>5, <1>6

LEMMA ChangesKeep ==
    ASSUME InstancesInv, Change \/ LoseRequest \/ \E m \in mail : Changed(m)
    PROVE  InstancesInv'
<1> USE DEF InstancesInv
<1>1. UNCHANGED <<members, coordinator, owner, barrier, phase, leader, install, peers,
                  installer, installs>>
  BY DEF Change, LoseRequest, Changed, dbVars, processVars
<1>2. InstancesTypeOK'
  <2>1. CASE Change
    BY <2>1, InstancesAssumption DEF Change, InstancesTypeOK, processVars, Requests
  <2>2. CASE LoseRequest
    BY <2>2 DEF LoseRequest, InstancesTypeOK, dbVars, processVars
  <2>3. ASSUME NEW m \in mail, Changed(m) PROVE InstancesTypeOK'
    <3>1. m.to \in Instances /\ m.revision \in 0..MaxRevision
      BY <2>3 DEF Changed, InstancesTypeOK, Requests
    <3> QED  BY <1>1, <2>3, <3>1 DEF Changed, InstancesTypeOK, dbVars
  <2> QED  BY <2>1, <2>2, <2>3
<1> QED
  BY <1>1, <1>2 DEF RowWhileStarted, LeaderIsCoordinator, InstallsWhileServing,
                    BarrierStands, PeersAwaited, OthersGone, NobodyWorks, Installing,
                    Starting, Serving

-------------------------------------------------------------------------------
(* An installation.                                                            *)
LEMMA ConfirmKeeps ==
    ASSUME InstancesInv, NEW i \in Instances, ConfirmInstall(i)
    PROVE  InstancesInv'
<1> USE DEF InstancesInv
<1>1. InstancesTypeOK'
  BY InstancesAssumption DEF ConfirmInstall, InstancesTypeOK, dbVars
<1>2. RowWhileStarted' /\ LeaderIsCoordinator' /\ InstallsWhileServing'
  BY DEF ConfirmInstall, RowWhileStarted, LeaderIsCoordinator, InstallsWhileServing,
         Serving, InstancesTypeOK, dbVars
<1>3. (BarrierStands /\ PeersAwaited /\ OthersGone /\ NobodyWorks)'
  BY DEF ConfirmInstall, BarrierStands, PeersAwaited, OthersGone, NobodyWorks,
         Installing, Starting, InstancesTypeOK, dbVars
<1> QED  BY <1>1, <1>2, <1>3

(* Without a barrier nobody is installing yet, and every row is a peer.        *)
LEMMA PrepareKeeps ==
    ASSUME InstancesInv, NEW i \in Instances, PrepareInstall(i)
    PROVE  InstancesInv'
<1> USE DEF InstancesInv
<1>1. RowWhileStarted' /\ LeaderIsCoordinator' /\ InstallsWhileServing'
  BY DEF PrepareInstall, RowWhileStarted, LeaderIsCoordinator, InstallsWhileServing,
         Serving, InstancesTypeOK
<1>2. CASE coordinator = i /\ ~barrier
  <2>1. InstancesTypeOK'
    BY <1>2 DEF PrepareInstall, InstancesTypeOK, Requests
  <2>2. /\ owner' = i /\ barrier' = TRUE /\ peers'[i] = members \ {i}
        /\ install' = [install EXCEPT ![i] = "preparing"]
        /\ UNCHANGED <<phase, installer, members>>
    BY <1>2 DEF PrepareInstall, InstancesTypeOK
  <2>3. \A j \in Instances : Installing(j)' => j = i
    BY <1>2, <2>2 DEF Installing, BarrierStands, InstancesTypeOK
  <2>4. (BarrierStands /\ PeersAwaited /\ OthersGone /\ NobodyWorks)'
    BY <2>2, <2>3 DEF BarrierStands, PeersAwaited, OthersGone, NobodyWorks, Installing,
                      Starting, RowWhileStarted, InstancesTypeOK
  <2> QED  BY <1>1, <2>1, <2>4
<1>3. CASE ~(coordinator = i /\ ~barrier)
  <2>1. InstancesTypeOK'
    BY <1>3 DEF PrepareInstall, InstancesTypeOK
  <2>2. (BarrierStands /\ PeersAwaited /\ OthersGone /\ NobodyWorks)'
    BY <1>3 DEF PrepareInstall, BarrierStands, PeersAwaited, OthersGone, NobodyWorks,
                Installing, Starting, InstancesTypeOK
  <2> QED  BY <1>1, <2>1, <2>2
<1> QED  BY <1>2, <1>3

LEMMA PrepareExitKeeps ==
    ASSUME InstancesInv, NEW m \in mail, PrepareExit(m)
    PROVE  InstancesInv'
<1> USE DEF InstancesInv
<1>1. m.to \in Instances
  BY DEF InstancesTypeOK, Requests
<1>2. InstancesTypeOK'
  BY <1>1 DEF PrepareExit, InstancesTypeOK, Phases, dbVars
<1>3. RowWhileStarted' /\ LeaderIsCoordinator' /\ InstallsWhileServing'
  BY <1>1 DEF PrepareExit, RowWhileStarted, LeaderIsCoordinator, InstallsWhileServing,
              Serving, InstancesTypeOK, dbVars
<1>4. (BarrierStands /\ PeersAwaited /\ OthersGone /\ NobodyWorks)'
  BY <1>1 DEF PrepareExit, BarrierStands, PeersAwaited, OthersGone, NobodyWorks,
              Installing, Starting, InstancesTypeOK, dbVars
<1> QED  BY <1>2, <1>3, <1>4

LEMMA PeersGoneKeeps ==
    ASSUME InstancesInv, NEW i \in Instances, PeersGone(i)
    PROVE  InstancesInv'
<1> USE DEF InstancesInv
<1>1. InstancesTypeOK'
  BY DEF PeersGone, InstancesTypeOK, dbVars
<1>2. RowWhileStarted' /\ LeaderIsCoordinator' /\ InstallsWhileServing'
  BY DEF PeersGone, RowWhileStarted, LeaderIsCoordinator, InstallsWhileServing,
         Serving, InstancesTypeOK, dbVars
<1>3. \A j \in Instances : Starting(j) => j = i
  BY DEF PeersGone, PeersAwaited, Installing, Starting, Alive
<1>4. (BarrierStands /\ PeersAwaited /\ OthersGone /\ NobodyWorks)'
  BY <1>3 DEF PeersGone, BarrierStands, PeersAwaited, OthersGone, NobodyWorks,
              Installing, Starting, InstancesTypeOK, dbVars
<1> QED  BY <1>1, <1>2, <1>4

(* Only the owner of the barrier installs, so cancelling frees nobody else.    *)
LEMMA CancelInstallKeeps ==
    ASSUME InstancesInv, NEW i \in Instances, CancelInstall(i)
    PROVE  InstancesInv'
<1> USE DEF InstancesInv
<1>1. InstancesTypeOK'
  BY DEF CancelInstall, LiftedBy, InstancesTypeOK
<1>2. RowWhileStarted' /\ LeaderIsCoordinator' /\ InstallsWhileServing'
  BY DEF CancelInstall, RowWhileStarted, LeaderIsCoordinator, InstallsWhileServing,
         Serving, InstancesTypeOK
<1>3. ~installer /\ owner = i
  BY DEF CancelInstall, NobodyWorks, BarrierStands, Installing, Starting
<1>4. \A j \in Instances : ~Installing(j)'
  BY <1>3 DEF CancelInstall, BarrierStands, Installing, InstancesTypeOK
<1>5. (BarrierStands /\ PeersAwaited /\ OthersGone /\ NobodyWorks)'
  BY <1>3, <1>4 DEF CancelInstall, BarrierStands, PeersAwaited, OthersGone,
                    NobodyWorks, Installing
<1> QED  BY <1>1, <1>2, <1>5

LEMMA QuitAndInstallKeeps ==
    ASSUME InstancesInv, NEW i \in Instances, QuitAndInstall(i)
    PROVE  InstancesInv'
<1> USE DEF InstancesInv
<1>1. InstancesTypeOK'
  BY DEF QuitAndInstall, InstancesTypeOK, Phases, dbVars
<1>2. RowWhileStarted' /\ LeaderIsCoordinator' /\ InstallsWhileServing'
  BY DEF QuitAndInstall, RowWhileStarted, LeaderIsCoordinator, InstallsWhileServing,
         Serving, InstancesTypeOK, dbVars
<1>3. \A j \in Instances : ~Starting(j)'
  BY DEF QuitAndInstall, OthersGone, Starting, InstancesTypeOK
<1>4. barrier'
  BY DEF QuitAndInstall, BarrierStands, Installing, dbVars
<1>5. (BarrierStands /\ PeersAwaited /\ OthersGone /\ NobodyWorks)'
  BY <1>3, <1>4 DEF QuitAndInstall, BarrierStands, PeersAwaited, OthersGone,
                    NobodyWorks, Installing, Starting
<1> QED  BY <1>1, <1>2, <1>5

LEMMA BarrierKeeps ==
    ASSUME InstancesInv, InstallerEnds \/ BarrierExpires
    PROVE  InstancesInv'
<1> USE DEF InstancesInv
<1>1. CASE InstallerEnds
  BY <1>1 DEF InstallerEnds, InstancesTypeOK, RowWhileStarted, LeaderIsCoordinator,
              InstallsWhileServing, BarrierStands, PeersAwaited, OthersGone,
              NobodyWorks, Installing, Starting, Serving, dbVars, processVars
<1>2. CASE BarrierExpires
  <2>1. \A j \in Instances : ~Installing(j)
    BY <1>2 DEF BarrierExpires, Installing, Alive
  <2> QED
    BY <1>2, <2>1 DEF BarrierExpires, InstancesTypeOK, RowWhileStarted,
                      LeaderIsCoordinator, InstallsWhileServing, BarrierStands,
                      PeersAwaited, OthersGone, NobodyWorks, Installing, Starting,
                      Serving, processVars
<1> QED  BY <1>1, <1>2

-------------------------------------------------------------------------------
(* Ending.                                                                     *)
LEMMA QuitKeeps ==
    ASSUME InstancesInv, NEW i \in Instances, Quit(i)
    PROVE  InstancesInv'
<1> USE DEF InstancesInv
<1>1. InstancesTypeOK'
  BY DEF Quit, InstancesTypeOK, Phases, dbVars
<1>2. RowWhileStarted' /\ LeaderIsCoordinator' /\ InstallsWhileServing'
  BY DEF Quit, RowWhileStarted, LeaderIsCoordinator, InstallsWhileServing, Serving,
         InstancesTypeOK, dbVars
<1>3. (BarrierStands /\ PeersAwaited /\ OthersGone /\ NobodyWorks)'
  BY DEF Quit, BarrierStands, PeersAwaited, OthersGone, NobodyWorks, Installing,
         Starting, InstancesTypeOK, dbVars
<1> QED  BY <1>1, <1>2, <1>3

LEMMA LeaveKeeps ==
    ASSUME InstancesInv, NEW i \in Instances, Stop(i) \/ Die(i)
    PROVE  InstancesInv'
<1> USE DEF InstancesInv
<1>1. Forgets(i) /\ UNCHANGED <<owner, barrier, installer, installs, revision>>
  BY DEF Stop, Die, dbVars
<1>2. /\ phase' \in [Instances -> Phases]
      /\ phase'[i] \in {"unregistered", "dead"}
      /\ \A j \in Instances \ {i} : phase'[j] = phase[j]
  BY DEF Stop, Die, InstancesTypeOK, Phases
<1>3. /\ members' \subseteq Instances
      /\ \A j \in Instances \ {i} : j \in members => j \in members'
      /\ coordinator' \in Instances \cup {NoInstance}
      /\ coordinator' = coordinator \/ coordinator = i
  BY DEF Stop, Die, InstancesTypeOK, dbVars
<1>4. InstancesTypeOK'
  BY <1>1, <1>2, <1>3, ForgetsType DEF InstancesTypeOK
<1>5. RowWhileStarted'
  BY <1>2, <1>3 DEF RowWhileStarted
<1>6. LeaderIsCoordinator' /\ InstallsWhileServing'
  BY <1>1, <1>2, <1>3, ForgetsType DEF LeaderIsCoordinator, InstallsWhileServing, Serving
<1>7. (BarrierStands /\ PeersAwaited /\ OthersGone /\ NobodyWorks)'
  BY <1>1, <1>2, ForgetsType DEF BarrierStands, PeersAwaited, OthersGone, NobodyWorks,
                                 Installing, Starting
<1> QED  BY <1>4, <1>5, <1>6, <1>7

-------------------------------------------------------------------------------
LEMMA InstancesStep == InstancesInv /\ [InstancesNext]_instanceVars => InstancesInv'
<1> SUFFICES ASSUME InstancesInv, [InstancesNext]_instanceVars PROVE InstancesInv'
  OBVIOUS
<1>1. CASE InstancesNext
  BY <1>1, RegisterKeeps, StartedKeeps, PollKeeps, ConfirmKeeps, PrepareKeeps,
     PeersGoneKeeps, CancelInstallKeeps, QuitAndInstallKeeps, QuitKeeps, LeaveKeeps,
     ChangesKeep, PrepareExitKeeps, BarrierKeeps
     DEF InstancesNext
<1>2. CASE UNCHANGED instanceVars
  BY <1>2 DEF instanceVars, dbVars, processVars, InstancesInv, InstancesTypeOK,
              RowWhileStarted, LeaderIsCoordinator, InstallsWhileServing,
              BarrierStands, PeersAwaited, OthersGone, NobodyWorks, Installing,
              Starting, Serving
<1> QED  BY <1>1, <1>2

(* The strengthened invariant: rows, flags, the barrier and those waited for.  *)
THEOREM InstancesInvariance == InstancesSpec => []InstancesInv
BY InstancesInvInit, InstancesStep, PTL DEF InstancesSpec

(* The instances are well typed: the database and each process hold only what  *)
(* the code can write there.                                                   *)
THEOREM InstancesTypeCorrect == InstancesSpec => []InstancesTypeOK
<1>1. InstancesInv => InstancesTypeOK  BY DEF InstancesInv
<1> QED  BY <1>1, InstancesInvariance, PTL

(* Of any number of instances at most one that serves believes to be the       *)
(* coordinator: elect() replaces a coordinator only when its process is gone.  *)
THEOREM OneLeaderHolds == InstancesSpec => []OneLeader
<1>1. InstancesInv => OneLeader  BY DEF InstancesInv, OneLeader, LeaderIsCoordinator
<1> QED  BY <1>1, InstancesInvariance, PTL

(* While an update is handed over or the installer runs, no other copy of any  *)
(* number of them works: prepareInstall waits for processes, not for answers,  *)
(* and start() looks at the barrier in the tx that writes its row.             *)
THEOREM InstallAloneHolds == InstancesSpec => []InstallAlone
<1>1. InstancesInv => InstallAlone
  BY DEF InstancesInv, InstallAlone, OthersGone, NobodyWorks, Starting
<1> QED  BY <1>1, InstancesInvariance, PTL

-------------------------------------------------------------------------------
(* The questions to the user.                                                  *)

(* An answer under way is one the user gave.                                   *)
RepliesAreGiven ==
    \A n \in 1..Len(toMain) : toMain[n].ok => toMain[n].id \in agreed

PromptInv == PromptTypeOK /\ RepliesAreGiven /\ ConsentIsPersonal

(* What is taken out of a queue of questions leaves a queue of questions.      *)
LEMMA WithoutTyped ==
    ASSUME NEW q \in Seq(Questions), NEW S
    PROVE  Without(q, S) \in Seq(Questions)
<1> DEFINE kept == {i \in DOMAIN q : q[i] \notin S}
<1>1. kept \subseteq DOMAIN q
  OBVIOUS
<1>2. Without(q, S) = At(q, kept)
  BY DEF Without
<1> HIDE DEF kept
<1> QED  BY <1>1, <1>2, AtOf

(* pump() moves one question at most, from the queue to the window.            *)
LEMMA PumpTyped ==
    ASSUME PromptTypeOK, NEW c \in Questions \cup {NoRequest}, NEW q \in Seq(Questions),
           PumpPrompts(c, q)
    PROVE  /\ queue' \in Seq(Questions) /\ toWindow' \in Seq(Questions)
           /\ outstanding' \in Questions \cup {NoRequest}
<1>1. toWindow \in Seq(Questions)
  BY DEF PromptTypeOK
<1>2. CASE c = NoRequest /\ q # <<>>
  <2>1. Head(q) \in Questions /\ Tail(q) \in Seq(Questions)
    BY <1>2
  <2>2. outstanding' = Head(q) /\ queue' = Tail(q) /\ toWindow' = Append(toWindow, Head(q))
    BY <1>2 DEF PumpPrompts
  <2> QED  BY <1>1, <2>1, <2>2
<1>3. CASE ~(c = NoRequest /\ q # <<>>)
  BY <1>1, <1>3 DEF PumpPrompts
<1> QED  BY <1>2, <1>3

(* Whatever the broker does next, it grants at most the request it finishes.   *)
LEMMA FinishGrants ==
    ASSUME PromptTypeOK, NEW r \in Questions, NEW ok \in BOOLEAN, FinishPrompt(r, ok)
    PROVE  /\ granted' \subseteq granted \cup (IF ok THEN {r} ELSE {})
           /\ queue' \in Seq(Questions) /\ toWindow' \in Seq(Questions)
           /\ outstanding' \in Questions \cup {NoRequest}
           /\ status' \in [Questions -> {"unmade", "pending", "settled"}]
           /\ granted' \subseteq Questions
<1> USE DEF PromptTypeOK
<1>1. CASE r \in ToSet(queue) \cup {outstanding}
  <2>1. /\ status' = [status EXCEPT ![r] = "settled"]
        /\ granted' = (IF ok THEN granted \cup {r} ELSE granted)
        /\ IF r = outstanding THEN PumpPrompts(NoRequest, queue)
                              ELSE PumpPrompts(outstanding, Without(queue, {r}))
    BY <1>1 DEF FinishPrompt
  <2>2. /\ queue' \in Seq(Questions) /\ toWindow' \in Seq(Questions)
        /\ outstanding' \in Questions \cup {NoRequest}
    BY <2>1, PumpTyped, WithoutTyped
  <2> QED  BY <2>1, <2>2
<1>2. CASE r \notin ToSet(queue) \cup {outstanding}
  BY <1>2 DEF FinishPrompt, brokerVars
<1> QED  BY <1>1, <1>2

LEMMA PromptInvInit == PromptInit => PromptInv
BY DEF PromptInit, PromptInv, PromptTypeOK, RepliesAreGiven, ConsentIsPersonal

(* A step of the broker that hears nothing from the user.                      *)
LEMMA NothingGranted ==
    ASSUME PromptInv, UNCHANGED windowVars, granted' \subseteq granted, PromptTypeOK'
    PROVE  PromptInv'
BY DEF PromptInv, RepliesAreGiven, ConsentIsPersonal, windowVars

LEMMA RequestKeeps ==
    ASSUME PromptInv, NEW r \in Questions, Request(r)
    PROVE  PromptInv'
<1>1. /\ PumpPrompts(outstanding, Append(queue, r))
      /\ UNCHANGED <<granted, windowVars>>
      /\ status' = [status EXCEPT ![r] = "pending"]
  BY DEF Request
<1>2. Append(queue, r) \in Seq(Questions) /\ PromptTypeOK
  BY DEF PromptInv, PromptTypeOK
<1>3. /\ queue' \in Seq(Questions) /\ toWindow' \in Seq(Questions)
      /\ outstanding' \in Questions \cup {NoRequest}
  BY <1>1, <1>2, PumpTyped DEF PromptTypeOK
<1>4. PromptTypeOK'
  BY <1>1, <1>2, <1>3 DEF PromptTypeOK, windowVars
<1> QED  BY <1>1, <1>4, NothingGranted

LEMMA TimeoutKeeps ==
    ASSUME PromptInv, NEW r \in Questions, Timeout(r)
    PROVE  PromptInv'
<1>1. FinishPrompt(r, FALSE) /\ UNCHANGED windowVars /\ PromptTypeOK
  BY DEF Timeout, PromptInv
<1>2. PromptTypeOK' /\ granted' \subseteq granted
  BY <1>1, FinishGrants DEF PromptTypeOK, windowVars
<1> QED  BY <1>1, <1>2, NothingGranted

LEMMA CancelKeeps ==
    ASSUME PromptInv, NEW s \in Sessions, CancelForSession(s)
    PROVE  PromptInv'
<1> DEFINE c == IF outstanding \in OfSession(s) THEN NoRequest ELSE outstanding
<1>1. /\ PumpPrompts(c, Without(queue, OfSession(s)))
      /\ UNCHANGED <<granted, windowVars>>
      /\ status' = [r \in Questions |-> IF r \in Waiting(s) THEN "settled" ELSE status[r]]
      /\ PromptTypeOK
  BY DEF CancelForSession, PromptInv
<1>2. /\ status' \in [Questions -> {"unmade", "pending", "settled"}]
      /\ c \in Questions \cup {NoRequest} /\ queue \in Seq(Questions)
  BY <1>1 DEF PromptTypeOK
<1> HIDE DEF c
<1>3. /\ queue' \in Seq(Questions) /\ toWindow' \in Seq(Questions)
      /\ outstanding' \in Questions \cup {NoRequest}
  BY <1>1, <1>2, PumpTyped, WithoutTyped
<1>4. PromptTypeOK'
  BY <1>1, <1>2, <1>3 DEF PromptTypeOK, windowVars
<1> QED  BY <1>1, <1>4, NothingGranted

(* The answer that arrives is the user's for the request it names.             *)
LEMMA ReplyArrivesKeeps ==
    ASSUME PromptInv, ReplyArrives
    PROVE  PromptInv'
<1> DEFINE R == [id : Questions, ok : BOOLEAN]
<1>1. /\ toMain # <<>> /\ toMain' = Tail(toMain) /\ UNCHANGED <<shown, agreed>>
      /\ FinishPrompt(Head(toMain).id, Head(toMain).ok)
      /\ PromptTypeOK /\ toMain \in Seq(R)
      /\ \A reply \in R : reply.id \in Questions /\ reply.ok \in BOOLEAN
  BY DEF ReplyArrives, PromptInv, PromptTypeOK
<1> HIDE DEF R
<1>2. /\ toMain' \in Seq(R) /\ Len(toMain') = Len(toMain) - 1
      /\ Len(toMain) \in Nat \ {0} /\ Head(toMain) = toMain[1] /\ Head(toMain) \in R
      /\ \A n \in 1..Len(toMain') : toMain'[n] = toMain[n + 1]
  BY <1>1
<1>3. RepliesAreGiven'
  BY <1>1, <1>2 DEF PromptInv, RepliesAreGiven
<1>4. Head(toMain).ok => Head(toMain).id \in agreed
  BY <1>2 DEF PromptInv, RepliesAreGiven
<1>5. /\ granted' \subseteq granted \cup (IF Head(toMain).ok THEN {Head(toMain).id} ELSE {})
      /\ queue' \in Seq(Questions) /\ toWindow' \in Seq(Questions)
      /\ outstanding' \in Questions \cup {NoRequest}
      /\ status' \in [Questions -> {"unmade", "pending", "settled"}]
      /\ granted' \subseteq Questions
  BY <1>1, <1>2, FinishGrants
<1>6. ConsentIsPersonal'
  BY <1>1, <1>4, <1>5 DEF PromptInv, ConsentIsPersonal
<1>7. PromptTypeOK'
  BY <1>1, <1>2, <1>5 DEF PromptTypeOK, R
<1> QED  BY <1>3, <1>6, <1>7 DEF PromptInv

(* The user answers the question on the screen, which the answer names.        *)
LEMMA UserRepliesKeeps ==
    ASSUME PromptInv, NEW ok \in BOOLEAN, UserReplies(ok)
    PROVE  PromptInv'
<1> DEFINE R == [id : Questions, ok : BOOLEAN]
           reply == [id |-> shown, ok |-> ok]
<1>1. /\ toMain' = Append(toMain, reply) /\ shown' = NoRequest
      /\ agreed' = (IF ok THEN agreed \cup {shown} ELSE agreed)
      /\ UNCHANGED <<queue, outstanding, status, granted, toWindow>>
  BY DEF UserReplies, brokerVars
<1>2. /\ reply.ok = ok /\ reply.id = shown /\ reply \in R /\ toMain \in Seq(R)
      /\ shown \in Questions
  BY DEF UserReplies, PromptInv, PromptTypeOK
<1> HIDE DEF reply, R
<1>3. /\ toMain' \in Seq(R) /\ Len(toMain') = Len(toMain) + 1
      /\ Len(toMain) \in Nat /\ toMain'[Len(toMain')] = reply
      /\ \A n \in 1..Len(toMain) : toMain'[n] = toMain[n]
  BY <1>1, <1>2
<1>4. RepliesAreGiven'
  BY <1>1, <1>2, <1>3 DEF PromptInv, RepliesAreGiven
<1>5. ConsentIsPersonal'
  BY <1>1 DEF PromptInv, ConsentIsPersonal
<1>6. PromptTypeOK'
  BY <1>1, <1>2, <1>3 DEF PromptInv, PromptTypeOK, R
<1> QED  BY <1>4, <1>5, <1>6 DEF PromptInv

LEMMA WindowShowsKeeps ==
    ASSUME PromptInv, WindowShows
    PROVE  PromptInv'
<1>1. /\ shown' = Head(toWindow) /\ toWindow' = Tail(toWindow) /\ toWindow # <<>>
      /\ UNCHANGED <<brokerVars, toMain, agreed>>
  BY DEF WindowShows
<1>2. toWindow' \in Seq(Questions) /\ shown' \in Questions
  BY <1>1 DEF PromptInv, PromptTypeOK
<1>3. PromptTypeOK'
  BY <1>1, <1>2 DEF PromptInv, PromptTypeOK, brokerVars
<1> QED  BY <1>1, <1>3 DEF PromptInv, RepliesAreGiven, ConsentIsPersonal, brokerVars

LEMMA PromptStep == PromptInv /\ [PromptNext]_promptVars => PromptInv'
<1> SUFFICES ASSUME PromptInv, [PromptNext]_promptVars PROVE PromptInv'
  OBVIOUS
<1>1. CASE PromptNext
  BY <1>1, RequestKeeps, TimeoutKeeps, CancelKeeps, ReplyArrivesKeeps, UserRepliesKeeps,
     WindowShowsKeeps
     DEF PromptNext
<1>2. CASE UNCHANGED promptVars
  BY <1>2 DEF promptVars, brokerVars, windowVars, PromptInv, PromptTypeOK,
              RepliesAreGiven, ConsentIsPersonal
<1> QED  BY <1>1, <1>2

(* The strengthened invariant: types, what is granted, and the answers under   *)
(* way.                                                                        *)
THEOREM PromptInvariance == PromptSpec => []PromptInv
BY PromptInvInit, PromptStep, PTL DEF PromptSpec

(* Whatever the number of questions, and however answers, timeouts, cancelled  *)
(* sessions and the next question cross: finish() looks up the request by the  *)
(* id the answer names, so nothing is granted that the user did not agree to.  *)
THEOREM ConsentIsPersonalHolds == PromptSpec => []ConsentIsPersonal
<1>1. PromptInv => ConsentIsPersonal  BY DEF PromptInv
<1> QED  BY <1>1, PromptInvariance, PTL

-------------------------------------------------------------------------------
(* The transfer of the configuration.                                          *)

(* The ends of a connection, and what a step may write on the wire.            *)
EndsTyped ==
    /\ sEnd \in [Connections -> {"none", "open", "destroyed", "closed"}]
    /\ rEnd \in [Connections -> {"none", "backlog", "open", "destroyed", "closed"}]
WireTyped ==
    /\ toReceiver \in [Connections -> UpFrames \cup {"none", "deriving"}]
    /\ toSender \in [Connections -> Seq(DownFrames)]
KeysTyped == keyed \in [Connections -> {"right", "wrong", "old", "same", "other"}]
ReceiverTyped ==
    /\ mode \in {"off", "starting", "on"}
    /\ showing \in {"idle", "waiting", "handshake", "receiving", "incoming",
                    "applying", "done"}
    /\ slot \in 0..MaxSends
    /\ applying \in {"no", "mine", "stale"}
    /\ receives \in 0..MaxReceives
FlagsTyped ==
    /\ confirmed \in BOOLEAN /\ token \in BOOLEAN
    /\ slot # 0 \/ confirmed \/ token => mode = "on"
SenderTyped ==
    /\ sendSession \in 0..MaxSends /\ sends \in 0..MaxSends
    /\ pending \subseteq Connections

LEMMA LanParts ==
    LanTypeOK <=> /\ EndsTyped /\ WireTyped /\ KeysTyped /\ ReceiverTyped /\ SenderTyped
                  /\ FlagsTyped
BY DEF LanTypeOK, EndsTyped, WireTyped, KeysTyped, ReceiverTyped, SenderTyped, FlagsTyped

LEMMA LanPartsNext ==
    /\ EndsTyped' /\ WireTyped' /\ KeysTyped' /\ ReceiverTyped' /\ SenderTyped'
    /\ FlagsTyped'
    => LanTypeOK'
BY DEF LanTypeOK, EndsTyped, WireTyped, KeysTyped, ReceiverTyped, SenderTyped, FlagsTyped

(* A frame of the receiver, and the end of either socket.                      *)
LEMMA LanWrites ==
    ASSUME WireTyped, EndsTyped, NEW c \in Connections
    PROVE  /\ RDestroys(c) => /\ toReceiver' \in [Connections -> UpFrames \cup {"none", "deriving"}]
                              /\ rEnd' \in [Connections -> {"none", "backlog", "open", "destroyed", "closed"}]
           /\ SDestroys(c) => /\ toSender' \in [Connections -> Seq(DownFrames)]
                              /\ sEnd' \in [Connections -> {"none", "open", "destroyed", "closed"}]
           /\ \A frame \in DownFrames :
                  SendsDown(c, frame) => toSender' \in [Connections -> Seq(DownFrames)]
           /\ \A frame \in UpFrames :
                  SendsUp(c, frame) =>
                      toReceiver' \in [Connections -> UpFrames \cup {"none", "deriving"}]
           /\ RCloses(c) => /\ toReceiver' \in [Connections -> UpFrames \cup {"none", "deriving"}]
                            /\ rEnd' \in [Connections -> {"none", "backlog", "open", "destroyed", "closed"}]
<1> USE DEF WireTyped, EndsTyped
<1>1. \A frame \in DownFrames : Append(toSender[c], frame) \in Seq(DownFrames)
  <2> HIDE DEF EndsTyped
  <2>1. toSender[c] \in Seq(DownFrames)
    OBVIOUS
  <2> QED  BY <2>1
<1>2. <<>> \in Seq(DownFrames)
  OBVIOUS
<1>3. ASSUME NEW frame \in DownFrames, SendsDown(c, frame)
      PROVE  toSender' \in [Connections -> Seq(DownFrames)]
  <2>1. IF sEnd[c] = "open" THEN toSender' = [toSender EXCEPT ![c] = Append(toSender[c], frame)]
                            ELSE toSender' = toSender
    BY <1>3 DEF SendsDown
  <2> DEFINE D == Seq(DownFrames)
  <2>2. Append(toSender[c], frame) \in D /\ toSender \in [Connections -> D]
    BY <1>1
  <2> HIDE DEF D
  <2>3. toSender' \in [Connections -> D]
    BY <2>1, <2>2
  <2> QED  BY <2>3 DEF D
<1>4. ASSUME SDestroys(c)
      PROVE  /\ toSender' \in [Connections -> Seq(DownFrames)]
             /\ sEnd' \in [Connections -> {"none", "open", "destroyed", "closed"}]
  BY <1>2, <1>4 DEF SDestroys
<1>5. ASSUME RDestroys(c) \/ RCloses(c)
      PROVE  /\ toReceiver' \in [Connections -> UpFrames \cup {"none", "deriving"}]
             /\ rEnd' \in [Connections -> {"none", "backlog", "open", "destroyed", "closed"}]
  BY <1>5 DEF RDestroys, RCloses
<1>6. ASSUME NEW frame \in UpFrames, SendsUp(c, frame)
      PROVE  toReceiver' \in [Connections -> UpFrames \cup {"none", "deriving"}]
  BY <1>6 DEF SendsUp
<1> QED  BY <1>3, <1>4, <1>5, <1>6

LEMMA LanTypeInit == LanInit => LanTypeOK
<1> SUFFICES ASSUME LanInit PROVE LanTypeOK
  OBVIOUS
<1>1. MaxSends \in Nat /\ MaxReceives \in Nat
  BY LanAssumption
<1>2. EndsTyped /\ KeysTyped /\ SenderTyped
  BY <1>1 DEF LanInit, EndsTyped, KeysTyped, SenderTyped
<1>3. WireTyped
  BY DEF LanInit, WireTyped
<1>4. ReceiverTyped
  BY <1>1 DEF LanInit, ReceiverTyped
<1>5. FlagsTyped
  BY DEF LanInit, FlagsTyped
<1> QED  BY <1>2, <1>3, <1>4, <1>5, LanParts

(* Switching on and off: nothing is confirmed, and nobody is connected, but of *)
(* a receiver that is on.                                                      *)
LEMMA SwitchKeeps ==
    ASSUME LanTypeOK, StartReceive \/ ReceiveListens \/ StopReceive \/ IdleTimeout
    PROVE  LanTypeOK'
<1>1. EndsTyped /\ WireTyped /\ KeysTyped /\ ReceiverTyped /\ FlagsTyped /\ SenderTyped
  BY LanParts
<1>2. CASE StartReceive \/ ReceiveListens
  <2>1. UNCHANGED <<senderVars, wireVars>>
    BY <1>2 DEF StartReceive, ReceiveListens
  <2>2. ReceiverTyped'
    BY <1>1, <1>2, LanAssumption DEF StartReceive, ReceiveListens, ReceiverTyped
  <2>4. FlagsTyped'
    BY <1>1, <1>2 DEF StartReceive, ReceiveListens, FlagsTyped
  <2>3. EndsTyped' /\ WireTyped' /\ KeysTyped' /\ SenderTyped'
    BY <1>1, <2>1 DEF senderVars, wireVars, EndsTyped, WireTyped, KeysTyped, SenderTyped
  <2> QED  BY <2>2, <2>3, <2>4, LanPartsNext
<1>3. CASE StopReceive
  <2>1. ReceiverTyped'
    BY <1>1, <1>3, LanAssumption DEF StopReceive, ReceiverTyped
  <2>4. FlagsTyped'
    BY <1>1, <1>3 DEF StopReceive, FlagsTyped
  <2>5. KeysTyped' /\ SenderTyped'
    BY <1>1, <1>3 DEF StopReceive, KeysTyped, SenderTyped, senderVars
  <2>2. slot # 0 => slot \in Connections
    BY <1>1, LanAssumption DEF ReceiverTyped, Connections
  <2>3. EndsTyped' /\ WireTyped'
    BY <1>1, <1>3, <2>2, LanWrites DEF StopReceive, EndsTyped, WireTyped
  <2> QED  BY <2>1, <2>3, <2>4, <2>5, LanPartsNext
<1> QED  BY <1>2, <1>3 DEF IdleTimeout

(* The receiver's end of a connection, which is looked at while it holds the   *)
(* slot: what is confirmed or received is so of a receiver that is on.         *)
LEMMA ReceiverKeeps ==
    ASSUME LanTypeOK, NEW c \in Connections, ReceiverStep(c)
    PROVE  LanTypeOK'
<1>1. EndsTyped /\ WireTyped /\ KeysTyped /\ ReceiverTyped /\ FlagsTyped /\ SenderTyped
  BY LanParts
<1>2. c \in 0..MaxSends /\ c # 0 /\ "error" \in DownFrames /\ "hello-ack" \in DownFrames
      /\ "confirm-r" \in DownFrames /\ "received" \in DownFrames
  BY LanAssumption DEF Connections, DownFrames
<1>3. CASE OnIncomingConnection(c)
  <2>1. ReceiverTyped' /\ FlagsTyped' /\ SenderTyped' /\ KeysTyped'
    <3>1. ReceiverTyped'
      BY <1>1, <1>2, <1>3 DEF OnIncomingConnection, ReceiverTyped
    <3>2. FlagsTyped'
      BY <1>1, <1>2, <1>3 DEF OnIncomingConnection, FlagsTyped
    <3>3. SenderTyped' /\ KeysTyped'
      BY <1>1, <1>3 DEF OnIncomingConnection, SenderTyped, KeysTyped, senderVars
    <3> QED  BY <3>1, <3>2, <3>3
  <2>2. CASE mode = "on" /\ keyed[c] # "old" /\ slot = 0
    <3>1. EndsTyped'
      BY <1>1, <1>3, <2>2 DEF OnIncomingConnection, EndsTyped
    <3>2. WireTyped'
      BY <1>1, <1>3, <2>2 DEF OnIncomingConnection, WireTyped, UpFrames
    <3> QED  BY <2>1, <3>1, <3>2, LanPartsNext
  <2>3. CASE ~(mode = "on" /\ keyed[c] # "old" /\ slot = 0)
    <3>1. /\ RDestroys(c) /\ sEnd' = sEnd
          /\ SendsDown(c, "error") \/ toSender' = toSender
      BY <1>3, <2>3 DEF OnIncomingConnection
    <3>2. EndsTyped' /\ WireTyped'
      BY <1>1, <1>2, <3>1, LanWrites DEF EndsTyped, WireTyped
    <3> QED  BY <2>1, <3>2, LanPartsNext
  <2> QED  BY <2>2, <2>3
<1>4. CASE Hello(c) \/ Derived(c) \/ ConfirmS(c) \/ Payload(c)
  <2>1. /\ slot = c /\ UNCHANGED <<mode, slot, applying, receives, senderVars, sEnd>>
        /\ mode = "on"
    BY <1>1, <1>2, <1>4 DEF Hello, Derived, ConfirmS, Payload, Receives, FlagsTyped
  <2>2. ReceiverTyped' /\ FlagsTyped' /\ SenderTyped'
    <3>1. ReceiverTyped'
      BY <1>1, <1>4, <2>1 DEF Hello, Derived, ConfirmS, Payload, RotateCode, ReceiverTyped
    <3>2. FlagsTyped'
      BY <1>1, <1>4, <2>1 DEF Hello, Derived, ConfirmS, Payload, RotateCode, FlagsTyped
    <3> QED  BY <1>1, <2>1, <3>1, <3>2 DEF SenderTyped, senderVars
  <2>3. KeysTyped'
    BY <1>1, <1>4 DEF Hello, Derived, ConfirmS, Payload, RotateCode, KeysTyped
  <2>4. CASE rEnd' = rEnd
    <3>1. toReceiver' \in [Connections -> UpFrames \cup {"none", "deriving"}]
      BY <1>1, <1>4, <2>4, LanWrites
         DEF Hello, Derived, ConfirmS, Payload, WireTyped
    <3>2. toSender' \in [Connections -> Seq(DownFrames)]
      BY <1>1, <1>2, <1>4, LanWrites DEF Hello, Derived, ConfirmS, Payload, WireTyped
    <3>3. EndsTyped'
      BY <1>1, <2>1, <2>4 DEF EndsTyped
    <3> QED  BY <2>2, <2>3, <3>1, <3>2, <3>3, LanPartsNext DEF WireTyped
  <2>5. CASE rEnd' # rEnd
    <3>1. RDestroys(c) /\ (SendsDown(c, "error") \/ toSender' = toSender)
      BY <1>4, <2>5 DEF Hello, Derived, ConfirmS, Payload
    <3>2. EndsTyped' /\ WireTyped'
      BY <1>1, <1>2, <2>1, <3>1, LanWrites DEF EndsTyped, WireTyped
    <3> QED  BY <2>2, <2>3, <3>2, LanPartsNext
  <2> QED  BY <2>4, <2>5
<1>5. CASE ReceiverGivesUp(c)
  <2>1. ReceiverTyped' /\ FlagsTyped' /\ SenderTyped' /\ KeysTyped'
    BY <1>1, <1>5
       DEF ReceiverGivesUp, receiverVars, senderVars, ReceiverTyped, FlagsTyped,
           SenderTyped, KeysTyped
  <2>2. EndsTyped' /\ WireTyped'
    BY <1>1, <1>2, <1>5, LanWrites DEF ReceiverGivesUp, EndsTyped, WireTyped
  <2> QED  BY <2>1, <2>2, LanPartsNext
<1>6. CASE OnReceiveSocketClosed(c)
  <2>1. ReceiverTyped'
    BY <1>1, <1>2, <1>6, LanAssumption
       DEF OnReceiveSocketClosed, RCloses, RotateCode, ReceiverTyped
  <2>4. FlagsTyped'
    BY <1>1, <1>2, <1>6 DEF OnReceiveSocketClosed, RCloses, RotateCode, FlagsTyped
  <2>2. KeysTyped'
    BY <1>1, <1>6 DEF OnReceiveSocketClosed, RotateCode, KeysTyped
  <2>3. EndsTyped' /\ WireTyped' /\ SenderTyped'
    <3>1. RCloses(c) /\ UNCHANGED <<senderVars, sEnd, toSender>>
      BY <1>6 DEF OnReceiveSocketClosed, RCloses
    <3> QED  BY <1>1, <3>1, LanWrites DEF EndsTyped, WireTyped, SenderTyped, senderVars
  <2> QED  BY <2>1, <2>2, <2>3, <2>4, LanPartsNext
<1> QED  BY <1>3, <1>4, <1>5, <1>6 DEF ReceiverStep

(* What the receiver's user decides.                                           *)
LEMMA UserKeeps ==
    ASSUME LanTypeOK, ApplyIncoming \/ Applied \/ ApplyFails \/ DismissIncoming
    PROVE  LanTypeOK'
<1>1. EndsTyped /\ WireTyped /\ KeysTyped /\ ReceiverTyped /\ FlagsTyped /\ SenderTyped
  BY LanParts
<1>2. /\ slot # 0 => slot \in Connections
      /\ "applied" \in DownFrames /\ "rejected" \in DownFrames
  BY <1>1, LanAssumption DEF ReceiverTyped, Connections, DownFrames
<1>3. UNCHANGED senderVars
  BY DEF ApplyIncoming, Applied, ApplyFails, DismissIncoming
<1>4. SenderTyped'
  BY <1>1, <1>3 DEF SenderTyped, senderVars
<1>5. ReceiverTyped'
  BY <1>1, LanAssumption
     DEF ApplyIncoming, Applied, ApplyFails, DismissIncoming, RotateCode, ReceiverTyped
<1>7. FlagsTyped'
  <2>1. CASE ApplyIncoming \/ ApplyFails
    BY <1>1, <2>1 DEF ApplyIncoming, ApplyFails, FlagsTyped
  <2>2. CASE Applied /\ applying = "mine"
    BY <1>1, <2>2 DEF Applied, FlagsTyped
  <2>3. CASE Applied /\ applying # "mine"
    BY <1>1, <2>3 DEF Applied, FlagsTyped
  <2>4. CASE DismissIncoming
    BY <1>1, <2>4 DEF DismissIncoming, RotateCode, FlagsTyped
  <2> QED  BY <2>1, <2>2, <2>3, <2>4
<1>8. KeysTyped'
  BY <1>1 DEF ApplyIncoming, Applied, ApplyFails, DismissIncoming, RotateCode, KeysTyped,
              wireVars
<1>6. EndsTyped' /\ WireTyped'
  <2>1. CASE ApplyIncoming \/ ApplyFails
    BY <1>1, <2>1 DEF ApplyIncoming, ApplyFails, wireVars, EndsTyped, WireTyped
  <2>2. CASE Applied
    <3>1. /\ UNCHANGED <<sEnd, rEnd, toReceiver>>
          /\ (slot # 0 /\ SendsDown(slot, "applied")) \/ toSender' = toSender
      BY <2>2 DEF Applied
    <3> QED  BY <1>1, <1>2, <3>1, LanWrites DEF EndsTyped, WireTyped
  <2>3. CASE DismissIncoming
    <3>1. /\ sEnd' = sEnd
          /\ \/ slot # 0 /\ RDestroys(slot) /\ SendsDown(slot, "rejected")
             \/ UNCHANGED <<toSender, rEnd, toReceiver>>
      BY <2>3 DEF DismissIncoming
    <3> QED  BY <1>1, <1>2, <3>1, LanWrites DEF EndsTyped, WireTyped
  <2> QED  BY <2>1, <2>2, <2>3
<1> QED  BY <1>4, <1>5, <1>6, <1>7, <1>8, LanPartsNext

(* The sender's end of a connection.                                           *)
LEMMA SenderKeeps ==
    ASSUME LanTypeOK, NEW c \in Connections, SenderStep(c)
    PROVE  LanTypeOK'
<1>1. EndsTyped /\ WireTyped /\ KeysTyped /\ ReceiverTyped /\ FlagsTyped /\ SenderTyped
  BY LanParts
<1>2. 0 \in 0..MaxSends /\ "confirm-s" \in UpFrames /\ "payload" \in UpFrames
  BY LanAssumption DEF UpFrames
<1>3. UNCHANGED <<receiverVars, sends, keyed>>
  BY DEF SenderStep, Connected, HelloAck, ConfirmR, Received, Answered, ErrorFrame,
         CancelSend, SenderGivesUp, SocketClosed, Arrives, Heeds, senderVars
<1>4. ReceiverTyped' /\ FlagsTyped' /\ KeysTyped'
  BY <1>1, <1>3 DEF ReceiverTyped, FlagsTyped, KeysTyped, receiverVars
<1>5. SenderTyped'
  BY <1>1, <1>2, <1>3
     DEF SenderStep, Connected, HelloAck, ConfirmR, Received, Answered, ErrorFrame,
         CancelSend, SenderGivesUp, SocketClosed, CloseSend, Fails, SenderTyped, senderVars
<1>6. CASE Connected(c)
  BY <1>1, <1>4, <1>5, <1>6, LanPartsNext DEF Connected, EndsTyped, WireTyped
<1>7. CASE HelloAck(c) \/ ConfirmR(c) \/ Received(c)
  <2>1. /\ UNCHANGED <<sEnd, rEnd>>
        /\ toSender[c] # <<>> /\ toSender' = [toSender EXCEPT ![c] = Tail(toSender[c])]
        /\ SendsUp(c, "confirm-s") \/ SendsUp(c, "payload") \/ toReceiver' = toReceiver
    BY <1>7 DEF HelloAck, ConfirmR, Received, Heeds, Arrives
  <2>2. EndsTyped' /\ toReceiver' \in [Connections -> UpFrames \cup {"none", "deriving"}]
    BY <1>1, <1>2, <2>1, LanWrites DEF EndsTyped, WireTyped
  <2> DEFINE D == Seq(DownFrames)
  <2>3. toSender \in [Connections -> D] /\ Tail(toSender[c]) \in D
    <3>1. toSender[c] \in Seq(DownFrames)
      BY <1>1 DEF WireTyped
    <3> QED  BY <1>1, <2>1, <3>1 DEF WireTyped
  <2> HIDE DEF D
  <2>4. toSender' \in [Connections -> D]
    BY <2>1, <2>3
  <2> QED  BY <1>4, <1>5, <2>2, <2>4, LanPartsNext DEF D, WireTyped
<1>8. CASE Answered(c) \/ ErrorFrame(c) \/ CancelSend(c) \/ SenderGivesUp(c)
  <2>1. SDestroys(c) /\ UNCHANGED <<rEnd, toReceiver>>
    BY <1>8 DEF Answered, ErrorFrame, CancelSend, SenderGivesUp, CloseSend, Arrives
  <2>2. EndsTyped' /\ WireTyped'
    BY <1>1, <2>1, LanWrites DEF EndsTyped, WireTyped
  <2> QED  BY <1>4, <1>5, <2>2, LanPartsNext
<1>9. CASE SocketClosed(c)
  <2>1. EndsTyped' /\ WireTyped'
    BY <1>1, <1>9 DEF SocketClosed, EndsTyped, WireTyped
  <2> QED  BY <1>4, <1>5, <2>1, LanPartsNext
<1> QED  BY <1>6, <1>7, <1>8, <1>9 DEF SenderStep

LEMMA LanTypeStep == LanTypeOK /\ [LanNext]_lanVars => LanTypeOK'
<1> SUFFICES ASSUME LanTypeOK, [LanNext]_lanVars PROVE LanTypeOK'
  OBVIOUS
<1>1. ASSUME NEW typed \in {"right", "wrong"}, Send(typed) PROVE LanTypeOK'
  <2>1. EndsTyped /\ WireTyped /\ KeysTyped /\ ReceiverTyped /\ FlagsTyped /\ SenderTyped
    BY LanParts
  <2>2. sends + 1 \in 0..MaxSends /\ sends + 1 \in Connections
    BY <1>1, <2>1, LanAssumption DEF Send, SenderTyped, Connections
  <2>3. /\ EndsTyped' /\ WireTyped' /\ KeysTyped' /\ ReceiverTyped' /\ FlagsTyped'
        /\ SenderTyped'
    BY <1>1, <2>1, <2>2
       DEF Send, EndsTyped, WireTyped, KeysTyped, ReceiverTyped, FlagsTyped, SenderTyped,
           receiverVars
  <2> QED  BY <2>3, LanPartsNext
<1>2. CASE UNCHANGED lanVars
  BY <1>2 DEF lanVars, receiverVars, senderVars, wireVars, LanTypeOK
<1> QED  BY <1>1, <1>2, SwitchKeeps, UserKeeps, ReceiverKeeps, SenderKeeps DEF LanNext

(* Both computers are well typed, and nothing is confirmed, received or        *)
(* connected of a receiver that is not on: stopReceive clears what an await of *)
(* applyIncoming or of the key derivation may come back to.                    *)
THEOREM LanTypeCorrect == LanSpec => []LanTypeOK
BY LanTypeInit, LanTypeStep, PTL DEF LanSpec

-------------------------------------------------------------------------------
(* The whole.                                                                  *)
DesktopInv ==
    /\ RejectionInv /\ FramesInv /\ InstancesInv /\ LanTypeOK /\ PromptInv /\ TransferInv
    /\ follows \in Parts

(* Each part takes a step of its own or none.                                  *)
LEMMA PartsStep ==
    ASSUME [Next]_vars
    PROVE  /\ [RdpNext]_rdpVars /\ [FramesNext]_framesVars
           /\ [InstancesNext]_instanceVars /\ [LanNext]_lanVars
           /\ [PromptNext]_promptVars /\ [TransferNext]_transferVars
           /\ follows' = follows
BY DEF Next, vars, FollowSession, FollowFrames, FollowInstances, FollowSync,
       FollowPrompts, FollowTransfers

LEMMA DesktopInit == Init => DesktopInv
BY RejectionInit, FramesInitInv, InstancesInvInit, LanTypeInit, PromptInvInit,
   TransferInvInit
   DEF Init, DesktopInv

LEMMA DesktopStep == DesktopInv /\ [Next]_vars => DesktopInv'
BY PartsStep, RejectionStep, FramesStep, InstancesStep, LanTypeStep, PromptStep,
   TransferStep
   DEF DesktopInv

(* The strengthened invariants of the parts hold of the whole.                 *)
THEOREM DesktopInvariance == Spec => []DesktopInv
BY DesktopInit, DesktopStep, PTL DEF Spec

(* Every part is well typed whatever the others do.                            *)
THEOREM TypeCorrect == Spec => []TypeOK
<1>1. DesktopInv => TypeOK
  BY DEF DesktopInv, RejectionInv, FramesInv, InstancesInv, PromptInv, TransferInv, TypeOK
<1> QED  BY <1>1, DesktopInvariance, PTL

(* What each part promises holds of the whole: no frame of a remote desktop is *)
(* lost on its way to the canvas, one instance leads, an update is installed   *)
(* alone, a question is granted by its own answer, a refused password is not   *)
(* sent again, and the second connection is not ended under a job.             *)
THEOREM DesktopKeepsItsPromises ==
    Spec => /\ []NothingLost /\ []OneLeader /\ []InstallAlone /\ []ConsentIsPersonal
            /\ RejectedNotRetried /\ NeverEndedInUse
<1>1. DesktopInv => NothingLost /\ OneLeader /\ InstallAlone /\ ConsentIsPersonal
  <2>1. InstancesInv => OneLeader /\ InstallAlone
    BY DEF InstancesInv, OneLeader, InstallAlone, LeaderIsCoordinator, OthersGone,
           NobodyWorks, Starting
  <2> QED  BY <2>1 DEF DesktopInv, FramesInv, PromptInv
<1>2. DesktopInv /\ [Next]_vars =>
          [\A g \in Generations :
               SentSilently(g) /\ ~lockedOut => session'[g].sent \notin rejected]_rdpVars
  BY PartsStep, RejectionStep DEF DesktopInv, SentAfterAsking
<1>3. DesktopInv /\ [Next]_vars =>
          [~disconnected' /\ ended' \ ended # {} => Users = {}]_transferVars
  BY PartsStep, EndedUnused DEF DesktopInv
<1> QED
  BY <1>1, <1>2, <1>3, DesktopInvariance, PTL DEF Spec, RejectedNotRetried, NeverEndedInUse
===============================================================================
