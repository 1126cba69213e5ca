------------------------------- MODULE RdpProofs -------------------------------
(* What is proved of a remote desktop, for any bounds: of the passwords it     *)
(* sends (RdpSession.tla), and of its picture on the way to the window         *)
(* (RdpFrames.tla).                                                            *)
EXTENDS RdpSession, RdpFrames, FiniteSetTheorems, NaturalsInduction,
        WellFoundedInduction, TLAPS

(* A stored password the server has refused is not sent by the object in the   *)
(* registry: it has to ask.  The obligation survives the reconnections.        *)
RefusedAreAskedFor ==
    ~lockedOut /\ stored \in rejected /\ current # 0 => session[current].force

(* Before the first session nothing has been refused.                          *)
NothingRefusedYet == born = 0 => rejected = {}

RejectionInv == RdpTypeOK /\ RefusedAreAskedFor /\ NothingRefusedYet

(* What ending a session leaves: the obligation, and no password but its own.  *)
Ends(s, t) ==
    /\ t \in SessionRecord
    /\ t.force = s.force
    /\ t.sent \in {s.sent, NoPassword}

(* The object of generation g becomes s and may leave the registry.            *)
Moves(g, s) ==
    /\ session' = [session EXCEPT ![g] = s]
    /\ current' \in {current, 0}
    /\ worker' \in [Generations -> {"none", "alive", "killed", "exited"}]

SentAfterAsking ==
    \A g \in Generations :
        SentSilently(g) /\ ~lockedOut => session'[g].sent \notin rejected

-------------------------------------------------------------------------------
LEMMA NewSessionType ==
    ASSUME NEW force \in BOOLEAN
    PROVE  /\ NewSession(force) \in SessionRecord
           /\ NewSession(force).force = force
           /\ NewSession(force).sent = NoPassword
           /\ ~NewSession(force).closing /\ NewSession(force).ended
BY DEF NewSession, SessionRecord, MaybePassword

LEMMA QuietEnds ==
    ASSUME NEW s \in SessionRecord
    PROVE  Ends(s, Quiet(s))
BY DEF Quiet, Ends, SessionRecord, MaybePassword

LEMMA FinishEnds ==
    ASSUME NEW s \in SessionRecord, NEW ended \in BOOLEAN
    PROVE  Ends(s, Finish(s, ended))
<1> DEFINE t == [s EXCEPT !.ended = @ \/ ended, !.closeTimer = @ /\ ~ended]
<1>1. t \in SessionRecord /\ t.force = s.force /\ t.sent = s.sent
  BY ZenonT(60) DEF SessionRecord
<1>2. CASE s.done
  BY <1>1, <1>2 DEF Finish, Ends
<1>3. CASE ~s.done
  <2> DEFINE u == Quiet(t)
  <2>1. u \in SessionRecord /\ u.force = s.force /\ u.sent \in {s.sent, NoPassword}
    BY <1>1, QuietEnds DEF Ends
  <2>2. Finish(s, ended) = [u EXCEPT !.done = TRUE, !.state = "closed"]
    BY <1>3 DEF Finish
  <2> HIDE DEF u
  <2> QED  BY <2>1, <2>2 DEF Ends, SessionRecord
<1> QED  BY <1>2, <1>3 DEF SessionRecord

LEMMA BeginCloseEnds ==
    ASSUME NEW s \in SessionRecord, NEW removing \in BOOLEAN
    PROVE  Ends(s, BeginClose(s, removing))
<1> DEFINE t == [s EXCEPT !.remove = @ \/ removing]
           v == Quiet(t)
           u == [v EXCEPT !.closing = TRUE, !.state = "closing"]
<1>1. t \in SessionRecord /\ t.force = s.force /\ t.sent = s.sent
  BY DEF SessionRecord
<1>2. v \in SessionRecord /\ v.force = s.force /\ v.sent \in {s.sent, NoPassword}
  BY <1>1, QuietEnds DEF Ends
<1>3. BeginClose(s, removing) = IF s.closing THEN t
                                ELSE IF Unreachable(s) THEN Finish(u, TRUE)
                                ELSE [u EXCEPT !.closeTimer = TRUE]
  BY DEF BeginClose
<1> HIDE DEF t, v
<1>4. u \in SessionRecord /\ u.force = s.force /\ u.sent \in {s.sent, NoPassword}
  BY <1>2 DEF SessionRecord
<1> HIDE DEF u
<1>5. Ends(u, Finish(u, TRUE))
  BY <1>4, FinishEnds
<1>6. Ends(s, Finish(u, TRUE))
  BY <1>4, <1>5 DEF Ends
<1>7. Ends(s, [u EXCEPT !.closeTimer = TRUE])
  BY <1>4 DEF Ends, SessionRecord
<1> QED  BY <1>1, <1>3, <1>6, <1>7 DEF Ends

(* A failure keeps the obligation, except that a refused password sets it and  *)
(* a lockout clears it.                                                        *)
LEMMA FailWithEnds ==
    ASSUME NEW s \in SessionRecord, NEW code \in {"auth", "lockout", "other"}
    PROVE  /\ FailWith(s, code) \in SessionRecord
           /\ FailWith(s, code).sent \in {s.sent, NoPassword}
           /\ s.closing => FailWith(s, code) = s
           /\ ~s.closing /\ code = "auth" => FailWith(s, code).force
           /\ code = "other" => FailWith(s, code).force = s.force
<1>1. CASE s.closing
  BY <1>1 DEF FailWith, SessionRecord
<1>2. CASE ~s.closing
  <2> DEFINE t == [s EXCEPT !.force = CASE code = "auth" -> TRUE
                                        [] code = "lockout" -> FALSE
                                        [] OTHER -> @]
  <2>1. /\ t \in SessionRecord /\ t.sent = s.sent
        /\ code = "auth" => t.force
        /\ code = "other" => t.force = s.force
    BY DEF SessionRecord
  <2>2. FailWith(s, code) = BeginClose(t, FALSE)
    BY <1>2 DEF FailWith
  <2> HIDE DEF t
  <2>3. Ends(t, BeginClose(t, FALSE))
    BY <2>1, BeginCloseEnds
  <2> QED  BY <1>2, <2>1, <2>2, <2>3 DEF Ends
<1> QED  BY <1>1, <1>2

-------------------------------------------------------------------------------
LEMMA BecomesMoves ==
    ASSUME RejectionInv, NEW g \in Generations, NEW s, Becomes(g, s)
    PROVE  Moves(g, s)
BY DEF RejectionInv, RdpTypeOK, Becomes, Moves

(* Most steps only bring a session nearer to its end.                          *)
LEMMA EndsKeeps ==
    ASSUME RejectionInv, NEW g \in Generations, NEW s, Ends(session[g], s), Moves(g, s),
           KeepsHistory, born' = born, calls' \in [Generations -> 0..MaxCalls]
    PROVE  RejectionInv' /\ SentAfterAsking
<1> USE DEF RejectionInv, RdpTypeOK
<1>1. /\ session' \in [Generations -> SessionRecord]
      /\ \A h \in Generations : /\ session'[h].force = session[h].force
                                /\ session'[h].sent \in {session[h].sent, NoPassword}
  BY DEF Ends, Moves
<1>2. current \in Nat /\ (current # 0 => current \in Generations)
  BY RdpSessionAssumption DEF Generations
<1>3. RdpTypeOK'
  BY <1>1, RdpSessionAssumption DEF Moves, KeepsHistory
<1>4. RefusedAreAskedFor'
  BY <1>1, <1>2 DEF Moves, KeepsHistory, RefusedAreAskedFor
<1>5. SentAfterAsking
  BY <1>1 DEF SentAfterAsking, SentSilently
<1>6. NothingRefusedYet'
  BY DEF NothingRefusedYet, KeepsHistory
<1> QED  BY <1>3, <1>4, <1>5, <1>6

-------------------------------------------------------------------------------
LEMMA ClosesKeep ==
    ASSUME RejectionInv, Close \/ Reconnect
    PROVE  RejectionInv' /\ SentAfterAsking
<1> USE DEF RejectionInv, RdpTypeOK
<1>1. current \in Generations
  <2>1. current # 0
    BY DEF Close, Reconnect
  <2> QED  BY <2>1, RdpSessionAssumption DEF Generations
<1>2. PICK removing \in BOOLEAN : Becomes(current, BeginClose(session[current], removing))
  BY DEF Close, Reconnect
<1>3. calls' \in [Generations -> 0..MaxCalls] /\ KeepsHistory /\ born' = born
  <2>1. CASE Close
    BY <2>1 DEF Close
  <2>2. CASE Reconnect
    <3>1. calls[current] \in 0..MaxCalls /\ calls[current] < MaxCalls
      BY <1>1, <2>2 DEF Reconnect
    <3>2. calls[current] + 1 \in 0..MaxCalls
      BY <3>1, RdpSessionAssumption
    <3> QED  BY <1>1, <2>2, <3>2 DEF Reconnect
  <2> QED  BY <2>1, <2>2
<1>4. session[current] \in SessionRecord
  BY <1>1
<1>5. Ends(session[current], BeginClose(session[current], removing))
  BY <1>4, BeginCloseEnds
<1> QED  BY <1>1, <1>2, <1>3, <1>5, BecomesMoves, EndsKeeps

(* A failure other than a refused password and a lockout.                      *)
LEMMA OtherFailureEnds ==
    ASSUME NEW s \in SessionRecord, NEW t \in SessionRecord, Ends(s, t)
    PROVE  Ends(s, FailWith(t, "other"))
BY FailWithEnds DEF Ends

LEMMA FailuresKeep ==
    ASSUME RejectionInv, NEW g \in Generations,
           PasswordRefused(g) \/ WorkerBreaks(g) \/ StartupExpires(g)
    PROVE  RejectionInv' /\ SentAfterAsking
<1> USE DEF RejectionInv, RdpTypeOK
<1>1. session[g] \in SessionRecord
  OBVIOUS
<1>2. PICK t \in SessionRecord : Ends(session[g], t) /\ Becomes(g, FailWith(t, "other"))
  <2>1. CASE PasswordRefused(g)
    <3>1. Ends(session[g], [session[g] EXCEPT !.asking = FALSE])
      BY <1>1 DEF Ends, SessionRecord
    <3> QED  BY <2>1, <3>1 DEF PasswordRefused, Ends
  <2>2. CASE WorkerBreaks(g)
    <3>1. Ends(session[g], session[g])
      BY <1>1 DEF Ends
    <3> QED  BY <1>1, <2>2, <3>1 DEF WorkerBreaks
  <2>3. CASE StartupExpires(g)
    <3>1. Ends(session[g], [session[g] EXCEPT !.startup = FALSE])
      BY <1>1 DEF Ends, SessionRecord
    <3> QED  BY <2>3, <3>1 DEF StartupExpires, Ends
  <2> QED  BY <2>1, <2>2, <2>3
<1>3. Ends(session[g], FailWith(t, "other"))
  BY <1>1, <1>2, OtherFailureEnds
<1>4. KeepsHistory /\ UNCHANGED <<born, calls>>
  BY DEF PasswordRefused, WorkerBreaks, StartupExpires
<1> QED  BY <1>2, <1>3, <1>4, BecomesMoves, EndsKeeps

LEMMA StdinBreaksKeeps ==
    ASSUME RejectionInv, NEW g \in Generations, StdinBreaks(g)
    PROVE  RejectionInv' /\ SentAfterAsking
<1> USE DEF RejectionInv, RdpTypeOK
<1> DEFINE s == [session[g] EXCEPT !.broken = TRUE]
<1>1. Ends(session[g], s) /\ s \in SessionRecord
  BY ZenonT(60) DEF Ends, SessionRecord
<1>2. Becomes(g, IF s.closing THEN Finish(s, TRUE) ELSE FailWith(s, "other"))
  BY DEF StdinBreaks
<1> HIDE DEF s
<1>3. Ends(session[g], Finish(s, TRUE))
  BY <1>1, FinishEnds DEF Ends
<1>4. Ends(session[g], FailWith(s, "other"))
  BY <1>1, OtherFailureEnds
<1>5. KeepsHistory /\ UNCHANGED <<born, calls>>
  BY DEF StdinBreaks
<1> QED  BY <1>2, <1>3, <1>4, <1>5, BecomesMoves, EndsKeeps

(* Certificates, the worker's ready state and the first frame.                 *)
LEMMA ProgressKeeps ==
    ASSUME RejectionInv, NEW g \in Generations,
           \/ HandleCertificatePrompt(g) \/ CertificateAnswered(g)
           \/ WorkerReady(g) \/ HandleFirstFrame(g)
    PROVE  RejectionInv' /\ SentAfterAsking
<1> USE DEF RejectionInv, RdpTypeOK
<1>1. session[g] \in SessionRecord
  OBVIOUS
<1>2. \E s : Ends(session[g], s) /\ Becomes(g, s)
  <2>1. CASE HandleCertificatePrompt(g)
    BY <1>1, <2>1 DEF HandleCertificatePrompt, Ends, SessionRecord
  <2>2. CASE CertificateAnswered(g)
    BY <1>1, <2>2 DEF CertificateAnswered, Ends, SessionRecord
  <2>3. CASE WorkerReady(g)
    BY <1>1, <2>3 DEF WorkerReady, Published, Ends, SessionRecord
  <2>4. CASE HandleFirstFrame(g)
    BY <1>1, <2>4 DEF HandleFirstFrame, Published, Ends, SessionRecord
  <2> QED  BY <2>1, <2>2, <2>3, <2>4
<1>3. KeepsHistory /\ UNCHANGED <<born, calls>>
  BY DEF HandleCertificatePrompt, CertificateAnswered, WorkerReady, HandleFirstFrame
<1> QED  BY <1>2, <1>3, BecomesMoves, EndsKeeps

LEMMA WorkerEndsKeeps ==
    ASSUME RejectionInv, NEW g \in Generations, WorkerClosed(g) \/ WorkerClosing(g)
    PROVE  RejectionInv' /\ SentAfterAsking
<1> USE DEF RejectionInv, RdpTypeOK
<1>1. session[g] \in SessionRecord
  OBVIOUS
<1>2. \E s : Ends(session[g], s) /\ Becomes(g, s)
  <2>1. CASE WorkerClosed(g)
    <3> DEFINE s == [session[g] EXCEPT !.closing = TRUE, !.closeTimer = TRUE]
    <3>1. Ends(session[g], s) /\ s \in SessionRecord
      BY <1>1 DEF Ends, SessionRecord
    <3>2. Becomes(g, IF session[g].closing THEN Finish(session[g], FALSE)
                     ELSE Finish(s, FALSE))
      BY <2>1 DEF WorkerClosed
    <3> HIDE DEF s
    <3>3. Ends(session[g], Finish(s, FALSE))
      BY <3>1, FinishEnds DEF Ends
    <3>4. Ends(session[g], Finish(session[g], FALSE))
      BY <1>1, FinishEnds
    <3> QED  BY <3>2, <3>3, <3>4
  <2>2. CASE WorkerClosing(g)
    BY <1>1, <2>2, BeginCloseEnds DEF WorkerClosing
  <2> QED  BY <2>1, <2>2
<1>3. KeepsHistory /\ UNCHANGED <<born, calls>>
  BY DEF WorkerClosed, WorkerClosing
<1> QED  BY <1>2, <1>3, BecomesMoves, EndsKeeps

(* The end of a process and the deadline of a close.                           *)
LEMMA ProcessKeeps ==
    ASSUME RejectionInv, NEW g \in Generations, WorkerExits(g) \/ CloseTimerFires(g)
    PROVE  RejectionInv' /\ SentAfterAsking
<1> USE DEF RejectionInv, RdpTypeOK
<1>1. session[g] \in SessionRecord
  OBVIOUS
<1>2. \E s : Ends(session[g], s) /\ Moves(g, s)
  <2>1. CASE WorkerExits(g)
    <3> DEFINE s == [session[g] EXCEPT !.ended = TRUE]
               t == IF ~IsCurrent(g) THEN s
                    ELSE IF s.closing THEN Finish(s, TRUE)
                    ELSE FailWith(s, "other")
    <3>1. Ends(session[g], s) /\ s \in SessionRecord
      BY <1>1 DEF Ends, SessionRecord
    <3>2. session' = [session EXCEPT ![g] = t] /\ current' \in {current, 0}
      BY <2>1 DEF WorkerExits
    <3>3. worker' \in [Generations -> {"none", "alive", "killed", "exited"}]
      BY <2>1 DEF WorkerExits
    <3> HIDE DEF s
    <3>4. Ends(session[g], Finish(s, TRUE))
      BY <3>1, FinishEnds DEF Ends
    <3>5. Ends(session[g], FailWith(s, "other"))
      BY <3>1, <1>1, OtherFailureEnds
    <3> QED  BY <3>1, <3>2, <3>3, <3>4, <3>5 DEF Moves
  <2>2. CASE CloseTimerFires(g)
    <3>1. Ends(session[g], Finish(session[g], TRUE))
      BY <1>1, FinishEnds
    <3>2. Moves(g, Finish(session[g], TRUE))
      BY <2>2 DEF CloseTimerFires, Moves
    <3> QED  BY <3>1, <3>2
  <2> QED  BY <2>1, <2>2
<1>3. KeepsHistory /\ UNCHANGED <<born, calls>>
  BY DEF WorkerExits, CloseTimerFires
<1> QED  BY <1>2, <1>3, EndsKeeps

-------------------------------------------------------------------------------
(* The passwords.                                                              *)

(* Only here does a password go out that nobody was asked for.                 *)
LEMMA HelloKeeps ==
    ASSUME RejectionInv, NEW g \in Generations, HandleHello(g)
    PROVE  RejectionInv' /\ SentAfterAsking
<1> USE DEF RejectionInv, RdpTypeOK
<1> DEFINE silent == ~session[g].force /\ stored # NoPassword
           s == [session[g] EXCEPT !.hello = TRUE, !.startup = TRUE,
                                   !.sent = IF silent THEN stored ELSE @,
                                   !.asking = ~silent]
<1>1. /\ s \in SessionRecord /\ s.force = session[g].force
      /\ s.sent = IF silent THEN stored ELSE session[g].sent
  <2>1. session[g] \in SessionRecord /\ stored \in MaybePassword /\ silent \in BOOLEAN
    OBVIOUS
  <2> HIDE DEF silent, RejectionInv, RdpTypeOK
  <2> QED  BY <2>1 DEF SessionRecord
<1>2. Becomes(g, s) /\ KeepsHistory /\ UNCHANGED <<born, calls>> /\ current = g
  BY DEF HandleHello, Heard, IsCurrent
<1> HIDE DEF s
<1>3. Moves(g, s)
  BY <1>2, BecomesMoves
<1>4. RdpTypeOK'
  BY <1>1, <1>2, <1>3 DEF Moves, KeepsHistory
<1>5. RefusedAreAskedFor'
  BY <1>1, <1>2, <1>3 DEF Moves, KeepsHistory, RefusedAreAskedFor
<1>6. SentAfterAsking
  BY <1>1, <1>2, <1>3 DEF Moves, SentAfterAsking, SentSilently, RefusedAreAskedFor,
                          Generations
<1>7. NothingRefusedYet'
  BY <1>2 DEF NothingRefusedYet, KeepsHistory
<1> QED  BY <1>4, <1>5, <1>6, <1>7

(* A password the user types is kept, or the next one is asked for again.      *)
LEMMA AnswerKeeps ==
    ASSUME RejectionInv, NEW g \in Generations, NEW p \in Passwords,
           NEW remember \in Remembering, PasswordAnswered(g, p, remember)
    PROVE  RejectionInv' /\ SentAfterAsking
<1> USE DEF RejectionInv, RdpTypeOK
<1> DEFINE s == [session[g] EXCEPT !.asking = FALSE, !.sent = p,
                                   !.force = remember # "kept", !.startup = TRUE]
<1>1. s \in SessionRecord /\ s.force = (remember # "kept")
  <2>1. /\ session[g] \in SessionRecord /\ p \in MaybePassword
        /\ (remember # "kept") \in BOOLEAN
    BY DEF MaybePassword
  <2> QED  BY <2>1 DEF SessionRecord
<1>2. /\ Becomes(g, s) /\ UNCHANGED <<born, calls, lockedOut>>
      /\ current = g /\ session[g].asking /\ rejected' = rejected \ {p}
  BY DEF PasswordAnswered, IsRunning, IsCurrent
<1>3. /\ stored' \in MaybePassword
      /\ remember = "kept" => stored' = p
  BY DEF PasswordAnswered, Remembering, MaybePassword
<1> HIDE DEF s
<1>4. Moves(g, s)
  BY <1>2, BecomesMoves
<1>5. RdpTypeOK'
  BY <1>1, <1>2, <1>3, <1>4 DEF Moves
<1>6. RefusedAreAskedFor'
  BY <1>1, <1>2, <1>3, <1>4 DEF Moves, RefusedAreAskedFor
<1>7. SentAfterAsking
  BY <1>2, <1>4 DEF Moves, SentAfterAsking, SentSilently
<1>8. NothingRefusedYet'
  BY <1>2 DEF NothingRefusedYet
<1> QED  BY <1>5, <1>6, <1>7, <1>8

(* A refused password makes the session ask; a lockout ends the promise.       *)
LEMMA WorkerFailsKeeps ==
    ASSUME RejectionInv, NEW g \in Generations, NEW code \in {"auth", "lockout", "other"},
           WorkerFails(g, code)
    PROVE  RejectionInv' /\ SentAfterAsking
<1> USE DEF RejectionInv, RdpTypeOK
<1> DEFINE s == FailWith(session[g], code)
<1>1. session[g] \in SessionRecord
  OBVIOUS
<1>2. /\ s \in SessionRecord /\ s.sent \in {session[g].sent, NoPassword}
      /\ session[g].closing => s.force = session[g].force
      /\ ~session[g].closing /\ code = "auth" => s.force
      /\ code = "other" => s.force = session[g].force
  BY <1>1, FailWithEnds
<1>3. /\ Becomes(g, s) /\ UNCHANGED <<born, calls, stored>> /\ current = g
      /\ rejected' = (IF code = "auth" /\ ~session[g].closing
                      THEN rejected \cup {session[g].sent} ELSE rejected)
      /\ lockedOut' = (lockedOut \/ (code = "lockout" /\ ~session[g].closing))
      /\ code = "auth" => session[g].sent # NoPassword
  BY DEF WorkerFails, Heard, IsCurrent
<1> HIDE DEF s
<1>4. Moves(g, s)
  BY <1>3, BecomesMoves
<1>5. rejected' \subseteq Passwords /\ lockedOut' \in BOOLEAN
  <2>1. session[g].sent \in MaybePassword
    BY <1>1 DEF SessionRecord
  <2> QED  BY <1>3, <2>1 DEF MaybePassword
<1>6. RdpTypeOK'
  BY <1>2, <1>3, <1>4, <1>5 DEF Moves
<1>7. RefusedAreAskedFor'
  BY <1>2, <1>3, <1>4 DEF Moves, RefusedAreAskedFor
<1>8. SentAfterAsking
  BY <1>2, <1>4 DEF Moves, SentAfterAsking, SentSilently
<1>9. NothingRefusedYet'
  BY <1>3, RdpSessionAssumption DEF NothingRefusedYet, Generations
<1> QED  BY <1>6, <1>7, <1>8, <1>9

-------------------------------------------------------------------------------
(* A new session is asked for its password if its predecessor would be.        *)
LEMMA StartKeeps ==
    ASSUME RejectionInv, NEW old \in 0..MaxGenerations, NEW force \in BOOLEAN,
           StartSession(old, force), KeepsHistory,
           calls' \in [Generations -> 0..MaxCalls],
           ~lockedOut /\ stored \in rejected => force
    PROVE  RejectionInv' /\ SentAfterAsking
<1> USE DEF RejectionInv, RdpTypeOK
<1> DEFINE g == born + 1
           s == NewSession(force)
           kept == [h \in Generations |-> IF h = old THEN Retired(session[h])
                                          ELSE session[h]]
<1>1. g \in Generations /\ g \in Nat \ {0} /\ born' = g /\ current' = g
  BY RdpSessionAssumption DEF StartSession, Generations
<1>2. \A h \in Generations : /\ Retired(session[h]) \in SessionRecord
                            /\ Retired(session[h]).sent = NoPassword
  BY NewSessionType DEF Retired, SessionRecord
<1>3. /\ kept \in [Generations -> SessionRecord]
      /\ \A h \in Generations : kept[h].sent \in {session[h].sent, NoPassword}
  BY <1>2
<1>4. PICK t \in SessionRecord :
          /\ t.force = force /\ t.sent = NoPassword
          /\ session' = [kept EXCEPT ![g] = t]
          /\ worker' \in [Generations -> {"none", "alive", "killed", "exited"}]
  <2>1. s \in SessionRecord /\ s.force = force /\ s.sent = NoPassword
    BY NewSessionType
  <2>2. \/ session' = [kept EXCEPT ![g] = [s EXCEPT !.ended = FALSE, !.startup = TRUE]]
        \/ session' = [kept EXCEPT ![g] = FailWith(s, "other")]
    BY DEF StartSession
  <2>3. worker' \in [Generations -> {"none", "alive", "killed", "exited"}]
    BY <1>1 DEF StartSession
  <2> HIDE DEF s, kept, g
  <2>4. /\ [s EXCEPT !.ended = FALSE, !.startup = TRUE] \in SessionRecord
        /\ [s EXCEPT !.ended = FALSE, !.startup = TRUE].force = force
        /\ [s EXCEPT !.ended = FALSE, !.startup = TRUE].sent = NoPassword
    BY <2>1 DEF SessionRecord
  <2>5. /\ FailWith(s, "other") \in SessionRecord
        /\ FailWith(s, "other").force = force
        /\ FailWith(s, "other").sent = NoPassword
    BY <2>1, FailWithEnds
  <2> QED  BY <2>2, <2>3, <2>4, <2>5
<1> HIDE DEF kept
<1>5. /\ session' \in [Generations -> SessionRecord] /\ session'[g].force = force
      /\ \A h \in Generations : session'[h].sent \in {session[h].sent, NoPassword}
  BY <1>1, <1>3, <1>4
<1>6. RdpTypeOK'
  BY <1>1, <1>4, <1>5, RdpSessionAssumption DEF KeepsHistory, Generations
<1>7. RefusedAreAskedFor'
  BY <1>1, <1>5 DEF RefusedAreAskedFor, KeepsHistory
<1>8. SentAfterAsking
  BY <1>5 DEF SentAfterAsking, SentSilently
<1>9. NothingRefusedYet'
  BY <1>1 DEF NothingRefusedYet
<1> QED  BY <1>6, <1>7, <1>8, <1>9

LEMMA OpenKeeps ==
    ASSUME RejectionInv, Open
    PROVE  RejectionInv' /\ SentAfterAsking
<1>1. /\ StartSession(0, FALSE) /\ KeepsHistory /\ rejected = {}
      /\ calls' \in [Generations -> 0..MaxCalls]
  BY DEF RejectionInv, RdpTypeOK, NothingRefusedYet, Open
<1>2. 0 \in 0..MaxGenerations
  BY RdpSessionAssumption
<1>3. ~lockedOut /\ stored \in rejected => FALSE
  BY <1>1
<1> QED  BY <1>1, <1>2, <1>3, StartKeeps

LEMMA ResumesKeeps ==
    ASSUME RejectionInv, NEW g \in Generations, ReconnectResumes(g)
    PROVE  RejectionInv' /\ SentAfterAsking
<1> USE DEF RejectionInv, RdpTypeOK
<1>1. calls' \in [Generations -> 0..MaxCalls] /\ KeepsHistory
  <2>1. calls[g] \in 0..MaxCalls /\ calls[g] - 1 \in 0..MaxCalls
    BY RdpSessionAssumption DEF ReconnectResumes
  <2> QED  BY <2>1 DEF ReconnectResumes
<1>2. CASE current = g
  <2>1. StartSession(g, session[g].force)
    BY <1>2 DEF ReconnectResumes
  <2>2. session[g].force \in BOOLEAN
    BY DEF SessionRecord
  <2>3. ~lockedOut /\ stored \in rejected => session[g].force
    BY <1>2, RdpSessionAssumption DEF RefusedAreAskedFor, Generations
  <2>4. g \in 0..MaxGenerations
    BY RdpSessionAssumption DEF Generations
  <2> QED  BY <1>1, <2>1, <2>2, <2>3, <2>4, StartKeeps
<1>3. CASE current # g
  <2>1. UNCHANGED <<current, born, session, worker>>
    BY <1>3 DEF ReconnectResumes
  <2> QED
    BY <1>1, <2>1 DEF KeepsHistory, RefusedAreAskedFor, SentAfterAsking, SentSilently,
                      NothingRefusedYet
<1> QED  BY <1>2, <1>3

-------------------------------------------------------------------------------
LEMMA RejectionInit == RdpInit => RejectionInv
<1> SUFFICES ASSUME RdpInit PROVE RejectionInv
  OBVIOUS
<1>1. /\ current = 0 /\ born = 0 /\ rejected = {} /\ lockedOut = FALSE
      /\ stored \in MaybePassword
      /\ worker \in [Generations -> {"none", "alive", "killed", "exited"}]
  BY DEF RdpInit
<1>2. session \in [Generations -> SessionRecord]
  BY NewSessionType DEF RdpInit
<1>3. calls \in [Generations -> 0..MaxCalls]
  BY RdpSessionAssumption DEF RdpInit
<1>4. current \in 0..born /\ born \in 0..MaxGenerations
  BY <1>1, RdpSessionAssumption
<1> QED
  BY <1>1, <1>2, <1>3, <1>4 DEF RejectionInv, RdpTypeOK, RefusedAreAskedFor, NothingRefusedYet

LEMMA RejectionStep == RejectionInv /\ [RdpNext]_rdpVars => RejectionInv' /\ SentAfterAsking
<1> SUFFICES ASSUME RejectionInv, [RdpNext]_rdpVars PROVE RejectionInv' /\ SentAfterAsking
  OBVIOUS
<1>1. CASE Open \/ Close \/ Reconnect
  BY <1>1, OpenKeeps, ClosesKeep
<1>2. ASSUME NEW g \in Generations, ReconnectResumes(g) PROVE RejectionInv' /\ SentAfterAsking
  BY <1>2, ResumesKeeps
<1>3. ASSUME NEW g \in Generations, WorkerSpeaks(g) PROVE RejectionInv' /\ SentAfterAsking
  BY <1>3, HelloKeeps, ProgressKeeps, WorkerFailsKeeps, WorkerEndsKeeps DEF WorkerSpeaks
<1>4. ASSUME NEW g \in Generations, NEW p \in Passwords, NEW remember \in Remembering,
             PasswordAnswered(g, p, remember)
      PROVE  RejectionInv' /\ SentAfterAsking
  BY <1>4, AnswerKeeps
<1>5. ASSUME NEW g \in Generations,
             \/ PasswordRefused(g) \/ CertificateAnswered(g)
             \/ WorkerBreaks(g) \/ StartupExpires(g) \/ StdinBreaks(g)
             \/ WorkerExits(g) \/ CloseTimerFires(g)
      PROVE  RejectionInv' /\ SentAfterAsking
  BY <1>5, FailuresKeep, ProgressKeeps, StdinBreaksKeeps, ProcessKeeps
<1>6. CASE UNCHANGED rdpVars
  BY <1>6 DEF rdpVars, RejectionInv, RdpTypeOK, RefusedAreAskedFor, NothingRefusedYet,
              SentAfterAsking, SentSilently
<1> QED  BY <1>1, <1>2, <1>3, <1>4, <1>5, <1>6 DEF RdpNext

(* The strengthened invariant: types, and the obligation to ask for what was   *)
(* refused.                                                                    *)
THEOREM RejectionInvariance == RdpSpec => []RejectionInv
<1>1. RejectionInv /\ [RdpNext]_rdpVars => RejectionInv'  BY RejectionStep
<1> QED  BY <1>1, RejectionInit, PTL DEF RdpSpec

(* The sessions of a remote desktop are well typed in every generation.        *)
THEOREM RdpTypeCorrect == RdpSpec => []RdpTypeOK
<1>1. RejectionInv => RdpTypeOK  BY DEF RejectionInv
<1> QED  BY <1>1, RejectionInvariance, PTL

(* For any number of reconnections, concurrent ones too: a password that goes  *)
(* out without a prompt is none the server has refused, until it reports a     *)
(* lockout (sendPasswordIfAvailable, handleWorkerState, reconnect).            *)
THEOREM RejectedNotRetriedHolds == RdpSpec => RejectedNotRetried
<1>1. RejectionInv /\ [RdpNext]_rdpVars => [SentAfterAsking]_rdpVars
  BY RejectionStep
<1>2. [SentAfterAsking]_rdpVars =>
          [\A g \in Generations :
               SentSilently(g) /\ ~lockedOut => session'[g].sent \notin rejected]_rdpVars
  BY DEF SentAfterAsking
<1> QED  BY <1>1, <1>2, RejectionInvariance, PTL DEF RdpSpec, RejectedNotRetried

-------------------------------------------------------------------------------
(* The frame path.                                                             *)
(* Numbers have a least one.                                                   *)
LEMMA Least ==
    ASSUME NEW S, S \subseteq Nat, S # {}
    PROVE  \E m \in S : \A n \in S : m <= n
<1> DEFINE R == OpToRel(<, Nat)
<1>1. IsWellFoundedOn(R, Nat)
  BY NatLessThanWellFounded
<1>2. PICK m \in S : \A n \in S : <<n, m>> \notin R
  BY <1>1, WFMin
<1>3. \A n \in S : ~(n < m)
  BY <1>2 DEF OpToRel
<1> QED  BY <1>3

(* Finitely many numbers can be put in order.                                  *)
Ordering(q, S) == q \in [1..Cardinality(S) -> S] /\ InOrder(q) /\ ToSet(q) = S

LEMMA OrderingExists ==
    ASSUME NEW S, S \subseteq Nat, IsFiniteSet(S)
    PROVE  \E q : Ordering(q, S)
<1> DEFINE Bad == {n \in Nat : \E T : /\ T \subseteq Nat /\ IsFiniteSet(T)
                                      /\ Cardinality(T) = n /\ ~\E q : Ordering(q, T)}
<1>1. ASSUME Bad # {} PROVE FALSE
  <2>1. PICK n \in Bad : \A k \in Bad : n <= k
    BY <1>1, Least
  <2>2. PICK T : /\ T \subseteq Nat /\ IsFiniteSet(T)
                 /\ Cardinality(T) = n /\ ~\E q : Ordering(q, T)
    OBVIOUS
  <2>3. CASE T = {}
    <3>1. Cardinality(T) = 0
      BY <2>3, FS_EmptySet
    <3>2. Ordering(<<>>, T)
      BY <2>3, <3>1 DEF Ordering, InOrder, ToSet
    <3> QED  BY <2>2, <3>2
  <2>4. CASE T # {}
    <3>1. PICK m \in T : \A k \in T : m <= k
      BY <2>2, <2>4, Least
    <3> DEFINE U == T \ {m}
    <3>2. IsFiniteSet(U) /\ Cardinality(U) = n - 1 /\ n \in Nat \ {0}
      BY <2>2, <2>4, FS_RemoveElement, FS_EmptySet, FS_CardinalityType
    <3>3. n - 1 \notin Bad
      BY <2>1, <3>2
    <3>4. PICK r : Ordering(r, U)
      <4>1. n - 1 \in Nat /\ U \subseteq Nat
        BY <2>2, <3>2
      <4> QED  BY <3>2, <3>3, <4>1
    <3>5. /\ DOMAIN r = 1..(n - 1) /\ \A i \in 1..(n - 1) : r[i] \in U
          /\ \A i, j \in 1..(n - 1) : i < j => r[i] < r[j]
          /\ \A k \in U : \E i \in 1..(n - 1) : r[i] = k
      BY <3>2, <3>4 DEF Ordering, InOrder, ToSet
    <3> DEFINE q == [i \in 1..n |-> IF i = 1 THEN m ELSE r[i - 1]]
    <3>6. \A i \in 1..n : i # 1 => i - 1 \in 1..(n - 1) /\ q[i] = r[i - 1]
      BY <3>2
    <3>7. \A i \in 1..(n - 1) : q[i + 1] = r[i] /\ i + 1 \in 1..n
      BY <3>2
    <3>8. q \in [1..n -> T]
      BY <3>5, <3>6
    <3>9. InOrder(q)
      <4>1. ASSUME NEW i \in 1..n, NEW j \in 1..n, i < j PROVE q[i] < q[j]
        <5>1. j # 1 /\ q[j] = r[j - 1] /\ j - 1 \in 1..(n - 1) /\ q[j] \in U
          BY <3>2, <3>5, <3>6, <4>1
        <5>2. CASE i = 1
          <6>1. q[i] = m
            BY <5>2
          <6>2. m \in Nat /\ q[j] \in Nat /\ m <= q[j] /\ q[j] # m
            BY <2>2, <3>1, <5>1
          <6> HIDE DEF q
          <6> QED  BY <6>1, <6>2
        <5>3. CASE i # 1
          BY <3>2, <3>5, <3>6, <4>1, <5>1, <5>3
        <5> QED  BY <5>2, <5>3
      <4> QED  BY <4>1 DEF InOrder
    <3>10. ToSet(q) = T
      <4>1. m = q[1] /\ 1 \in 1..n
        BY <3>2
      <4>2. \A k \in T : \E i \in 1..n : q[i] = k
        <5>1. ASSUME NEW k \in U PROVE \E i \in 1..n : q[i] = k
          <6>1. PICK i \in 1..(n - 1) : r[i] = k
            BY <3>5
          <6> QED  BY <3>7, <6>1
        <5> QED  BY <4>1, <5>1
      <4>3. DOMAIN q = 1..n
        OBVIOUS
      <4> HIDE DEF q
      <4> QED  BY <3>8, <4>2, <4>3 DEF ToSet
    <3> QED  BY <2>2, <3>8, <3>9, <3>10 DEF Ordering
  <2> QED  BY <2>3, <2>4
<1> QED  BY <1>1, FS_CardinalityType

LEMMA SortedSorts ==
    ASSUME NEW S, S \subseteq Nat, IsFiniteSet(S)
    PROVE  /\ Sorted(S) \in Seq(S) /\ Len(Sorted(S)) = Cardinality(S)
           /\ InOrder(Sorted(S)) /\ ToSet(Sorted(S)) = S
<1>1. \E q \in [1..Cardinality(S) -> S] : InOrder(q) /\ ToSet(q) = S
  BY OrderingExists DEF Ordering
<1>2. /\ Sorted(S) \in [1..Cardinality(S) -> S]
      /\ InOrder(Sorted(S)) /\ ToSet(Sorted(S)) = S
  BY <1>1 DEF Sorted
<1>3. Cardinality(S) \in Nat
  BY FS_CardinalityType
<1> QED  BY <1>2, <1>3

-------------------------------------------------------------------------------
(* What main holds, and what has come to the pane.                             *)
Held == ToSet(queued) \cup inFlight
Arrived == FramesOf(frameQueue) \cup painted \cup discarded

LedgerInOrder == InOrder(queued) /\ Held \subseteq 1..read
QueuedMeansPaused == running /\ queued # <<>> => paused

(* A port that is no longer the pane's own has nothing on its way.             *)
PortsInOrder ==
    /\ port <= attached /\ attached <= connected
    /\ mounted => connected # 0
    /\ ~mounted => down = <<>>
    /\ running /\ port # connected => down = <<>>

(* A frame in flight arrives if its port stays, and none before it is missing: *)
(* this is why the renderer may take one that is older than its latest for a   *)
(* copy, whatever was sent again in between.                                   *)
OnTheWay ==
    running /\ mounted /\ port = connected => inFlight \subseteq Arrived \cup ToSet(down)
DownInOrder ==
    \A i \in DOMAIN down : \A f \in Frames : f < down[i] =>
        f \in Arrived \/ \E j \in DOMAIN down : j < i /\ down[j] = f
RendererUpToDate ==
    /\ ToSet(acks) \subseteq Arrived
    /\ 1..latestSequence \subseteq Arrived /\ 1..renderedSequence \subseteq Arrived
    /\ \A item \in ToSet(frameQueue) : 1..item.frame \subseteq Arrived

FramesInv ==
    /\ FramesTypeOK /\ NothingLost
    /\ LedgerInOrder /\ QueuedMeansPaused
    /\ PortsInOrder /\ OnTheWay /\ DownInOrder
    /\ RendererUpToDate

-------------------------------------------------------------------------------
(* Sequences.                                                                  *)
LEMMA ToSetOf ==
    ASSUME NEW S, NEW s \in Seq(S), NEW e \in S
    PROVE  /\ ToSet(Append(s, e)) = ToSet(s) \cup {e}
           /\ s # <<>> => /\ Head(s) \in ToSet(s) /\ ToSet(Tail(s)) \subseteq ToSet(s)
                          /\ ToSet(s) = {Head(s)} \cup ToSet(Tail(s))
           /\ ToSet(s) \subseteq S /\ ToSet(<<>>) = {}
<1>1. ToSet(Append(s, e)) = ToSet(s) \cup {e}
  <2>1. /\ DOMAIN s = 1..Len(s) /\ Len(s) \in Nat /\ DOMAIN Append(s, e) = 1..(Len(s) + 1)
        /\ \A i \in 1..Len(s) : Append(s, e)[i] = s[i]
        /\ Append(s, e)[Len(s) + 1] = e
    OBVIOUS
  <2> QED  BY <2>1 DEF ToSet
<1>2. ASSUME s # <<>>
      PROVE  /\ Head(s) \in ToSet(s) /\ ToSet(Tail(s)) \subseteq ToSet(s)
             /\ ToSet(s) = {Head(s)} \cup ToSet(Tail(s))
  <2>1. /\ DOMAIN s = 1..Len(s) /\ Len(s) \in Nat \ {0} /\ Head(s) = s[1]
        /\ DOMAIN Tail(s) = 1..(Len(s) - 1)
        /\ \A i \in 1..(Len(s) - 1) : Tail(s)[i] = s[i + 1]
    BY <1>2
  <2>2. \A i \in 2..Len(s) : s[i] = Tail(s)[i - 1] /\ i - 1 \in 1..(Len(s) - 1)
    BY <2>1
  <2>3. ASSUME NEW x \in ToSet(s) PROVE x \in {Head(s)} \cup ToSet(Tail(s))
    <3>1. PICK i \in 1..Len(s) : s[i] = x
      BY <2>1, <2>3 DEF ToSet
    <3>2. i = 1 \/ i \in 2..Len(s)
      BY <2>1
    <3> QED  BY <2>1, <2>2, <3>1, <3>2 DEF ToSet
  <2>4. Head(s) \in ToSet(s)
    BY <2>1 DEF ToSet
  <2>5. ToSet(Tail(s)) \subseteq ToSet(s)
    <3>1. \A i \in 1..(Len(s) - 1) : i + 1 \in 1..Len(s)
      BY <2>1
    <3> QED  BY <2>1, <3>1 DEF ToSet
  <2> QED  BY <2>3, <2>4, <2>5
<1>3. ToSet(s) \subseteq S /\ ToSet(<<>>) = {}
  BY DEF ToSet
<1> QED  BY <1>1, <1>2, <1>3

LEMMA InWiderSet ==
    ASSUME NEW S, NEW T, S \subseteq T, NEW s \in Seq(S)
    PROVE  s \in Seq(T)
  OBVIOUS

(* The elements at some places of a sequence: its own, in a sequence again.    *)
LEMMA AtOf ==
    ASSUME NEW S, NEW q \in Seq(S), NEW places, places \subseteq DOMAIN q
    PROVE  /\ At(q, places) \in Seq(S)
           /\ ToSet(At(q, places)) \subseteq {q[i] : i \in places}
<1>1. DOMAIN q = 1..Len(q) /\ Len(q) \in Nat /\ \A i \in DOMAIN q : q[i] \in S
  OBVIOUS
<1>2. places \subseteq Nat /\ IsFiniteSet(places)
  <2>1. IsFiniteSet(1..Len(q)) /\ 1..Len(q) \subseteq Nat
    BY <1>1, FS_Interval
  <2> QED  BY <1>1, <2>1, FS_Subset
<1> DEFINE kept == Sorted(places)
<1>3. Cardinality(places) \in Nat /\ \A n \in 1..Cardinality(places) : kept[n] \in places
  <2>1. kept \in Seq(places) /\ Len(kept) = Cardinality(places)
    BY <1>2, SortedSorts
  <2> QED  BY <1>2, <2>1, FS_CardinalityType
<1> HIDE DEF kept
<1>4. At(q, places) = [n \in 1..Cardinality(places) |-> q[kept[n]]]
  BY DEF At, kept
<1>5. At(q, places) \in Seq(S)
  BY <1>1, <1>3, <1>4
<1>6. ASSUME NEW e \in ToSet(At(q, places)) PROVE e \in {q[i] : i \in places}
  <2>1. PICK n \in 1..Cardinality(places) : e = q[kept[n]]
    BY <1>4, <1>6 DEF ToSet
  <2> QED  BY <1>3, <2>1
<1> QED  BY <1>5, <1>6

LEMMA ToSetJoined ==
    ASSUME NEW S, NEW s \in Seq(S), NEW t \in Seq(S)
    PROVE  ToSet(s \o t) = ToSet(s) \cup ToSet(t)
<1>1. /\ DOMAIN s = 1..Len(s) /\ DOMAIN t = 1..Len(t) /\ Len(s) \in Nat /\ Len(t) \in Nat
      /\ DOMAIN (s \o t) = 1..(Len(s) + Len(t))
      /\ \A i \in 1..Len(s) : (s \o t)[i] = s[i]
      /\ \A i \in 1..Len(t) : (s \o t)[Len(s) + i] = t[i]
  OBVIOUS
<1>2. \A i \in 1..(Len(s) + Len(t)) :
          i \in 1..Len(s) \/ \E j \in 1..Len(t) : i = Len(s) + j
  <2>1. ASSUME NEW i \in 1..(Len(s) + Len(t)), i \notin 1..Len(s)
        PROVE  i - Len(s) \in 1..Len(t) /\ i = Len(s) + (i - Len(s))
    BY <1>1, <2>1
  <2> QED  BY <2>1
<1>3. \A j \in 1..Len(t) : Len(s) + j \in 1..(Len(s) + Len(t))
  BY <1>1
<1>4. \A i \in 1..Len(s) : i \in 1..(Len(s) + Len(t))
  BY <1>1
<1> DEFINE u == s \o t
<1> HIDE DEF u
<1>5. /\ DOMAIN u = 1..(Len(s) + Len(t)) /\ \A i \in 1..Len(s) : u[i] = s[i]
      /\ \A i \in 1..Len(t) : u[Len(s) + i] = t[i]
  BY <1>1 DEF u
<1>6. ASSUME NEW x \in ToSet(u) PROVE x \in ToSet(s) \cup ToSet(t)
  <2>1. PICK i \in 1..(Len(s) + Len(t)) : u[i] = x
    BY <1>5, <1>6 DEF ToSet
  <2> QED  BY <1>1, <1>2, <1>5, <2>1, ZenonT(60) DEF ToSet
<1>7. ToSet(s) \subseteq ToSet(u) /\ ToSet(t) \subseteq ToSet(u)
  <2>1. \A i \in 1..Len(s) : s[i] \in ToSet(u)
    BY <1>4, <1>5 DEF ToSet
  <2>2. \A j \in 1..Len(t) : t[j] \in ToSet(u)
    BY <1>3, <1>5 DEF ToSet
  <2> QED  BY <1>1, <2>1, <2>2 DEF ToSet
<1> QED  BY <1>6, <1>7 DEF u

(* A beginning of a sequence has no more members than places.                  *)
LEMMA Beginning ==
    ASSUME NEW S, NEW q \in Seq(S), NEW n \in 0..Len(q)
    PROVE  /\ SubSeq(q, 1, n) \in Seq(S) /\ SubSeq(q, n + 1, Len(q)) \in Seq(S)
           /\ IsFiniteSet(ToSet(SubSeq(q, 1, n)))
           /\ Cardinality(ToSet(SubSeq(q, 1, n))) <= n
           /\ ToSet(q) = ToSet(SubSeq(q, 1, n)) \cup ToSet(SubSeq(q, n + 1, Len(q)))
<1> DEFINE a == SubSeq(q, 1, n)
           b == SubSeq(q, n + 1, Len(q))
<1>1. /\ Len(q) \in Nat /\ DOMAIN q = 1..Len(q)
      /\ a \in Seq(S) /\ DOMAIN a = 1..n /\ \A i \in 1..n : a[i] = q[i]
      /\ b \in Seq(S) /\ DOMAIN b = 1..(Len(q) - n)
      /\ \A i \in 1..(Len(q) - n) : b[i] = q[n + i]
  OBVIOUS
<1>2. \A i \in 1..Len(q) : i \in 1..n \/ \E j \in 1..(Len(q) - n) : i = n + j
  <2>1. ASSUME NEW i \in 1..Len(q), i \notin 1..n
        PROVE  i - n \in 1..(Len(q) - n) /\ i = n + (i - n)
    BY <2>1
  <2> QED  BY <2>1
<1>3. /\ \A j \in 1..(Len(q) - n) : n + j \in 1..Len(q)
      /\ \A i \in 1..n : i \in 1..Len(q)
  BY <1>1
<1> HIDE DEF a, b
<1>4. ToSet(q) = ToSet(a) \cup ToSet(b)
  <2>1. ASSUME NEW x \in ToSet(q) PROVE x \in ToSet(a) \cup ToSet(b)
    <3>1. PICK i \in 1..Len(q) : q[i] = x
      BY <1>1, <2>1 DEF ToSet
    <3> QED  BY <1>1, <1>2, <3>1 DEF ToSet
  <2>2. ToSet(a) \subseteq ToSet(q) /\ ToSet(b) \subseteq ToSet(q)
    BY <1>1, <1>3 DEF ToSet
  <2> QED  BY <2>1, <2>2
<1>5. IsFiniteSet(ToSet(a)) /\ Cardinality(ToSet(a)) <= n
  <2> DEFINE f == [i \in 1..n |-> a[i]]
  <2>1. f \in Surjection(1..n, ToSet(a))
    BY <1>1 DEF Surjection, ToSet
  <2>2. IsFiniteSet(1..n) /\ Cardinality(1..n) = n
    BY FS_Interval
  <2> QED  BY <2>1, <2>2, FS_Surjection
<1> QED  BY <1>1, <1>4, <1>5 DEF a, b

-------------------------------------------------------------------------------
(* What main posts: with every frame before it that did not come yet.          *)
Complete(sent, flying) ==
    \A i \in DOMAIN sent : \A f \in Frames : f < sent[i] =>
        f \in flying \cup Arrived \/ \E j \in DOMAIN sent : j < i /\ sent[j] = f

LEMMA PostedInOrder ==
    ASSUME FramesTypeOK, DownInOrder, PortsInOrder, running, running',
           UNCHANGED <<frameQueue, painted, discarded, connected, mounted>>,
           NEW p, NEW sent \in Seq(Frames), NEW flying \in SUBSET Frames,
           Posted(p, sent), port' = p,
           p = connected /\ mounted => flying \subseteq Arrived \cup ToSet(down),
           p = connected /\ mounted => Complete(sent, flying),
           inFlight' = flying \cup ToSet(sent)
    PROVE  /\ down' \in Seq(Frames) /\ DownInOrder' /\ OnTheWay'
           /\ ~mounted' => down' = <<>>
           /\ p # connected => down' = down
<1>1. Arrived' = Arrived /\ down \in Seq(Frames)
  BY DEF Arrived, FramesOf, FramesTypeOK
<1>2. CASE ~(p = connected /\ mounted)
  <2>1. down' = down
    BY <1>2 DEF Posted
  <2> QED  BY <1>1, <1>2, <2>1 DEF DownInOrder, OnTheWay, PortsInOrder
<1>3. CASE p = connected /\ mounted
  <2> DEFINE d == down \o sent
  <2>1. down' = d
    BY <1>3 DEF Posted
  <2>2. /\ DOMAIN down = 1..Len(down) /\ DOMAIN sent = 1..Len(sent)
        /\ Len(down) \in Nat /\ Len(sent) \in Nat
        /\ d \in Seq(Frames) /\ DOMAIN d = 1..(Len(down) + Len(sent))
        /\ \A i \in 1..Len(down) : d[i] = down[i]
        /\ \A i \in 1..Len(sent) : d[Len(down) + i] = sent[i]
    BY <1>1
  <2>3. ToSet(d) = ToSet(down) \cup ToSet(sent)
    BY <1>1, ToSetJoined
  <2> HIDE DEF d
  <2>4. ASSUME NEW i \in DOMAIN d, NEW f \in Frames, f < d[i]
        PROVE  f \in Arrived \/ \E j \in DOMAIN d : j < i /\ d[j] = f
    <3>1. CASE i \in 1..Len(down)
      <4>1. f \in Arrived \/ \E j \in 1..Len(down) : j < i /\ down[j] = f
        BY <2>2, <2>4, <3>1 DEF DownInOrder
      <4>2. \A j \in 1..Len(down) : j \in DOMAIN d /\ d[j] = down[j]
        BY <2>2
      <4> QED  BY <4>1, <4>2
    <3>2. CASE i \notin 1..Len(down)
      <4>1. i - Len(down) \in 1..Len(sent) /\ i = Len(down) + (i - Len(down))
        BY <2>2, <3>2
      <4> DEFINE k == i - Len(down)
      <4>2. k \in 1..Len(sent) /\ d[i] = sent[k] /\ i = Len(down) + k
        BY <2>2, <4>1
      <4> HIDE DEF k
      <4>3. f \in flying \cup Arrived \/ \E j \in 1..Len(sent) : j < k /\ sent[j] = f
        BY <1>3, <2>2, <2>4, <4>2 DEF Complete
      <4>4. ASSUME f \in flying, f \notin Arrived
            PROVE  \E j \in DOMAIN d : j < i /\ d[j] = f
        <5>1. PICK j \in 1..Len(down) : down[j] = f
          BY <1>3, <2>2, <4>4 DEF ToSet
        <5>2. j \in DOMAIN d /\ d[j] = f /\ j < i
          BY <2>2, <4>2, <5>1
        <5> QED  BY <5>2
      <4>5. ASSUME NEW j \in 1..Len(sent), j < k, sent[j] = f
            PROVE  \E n \in DOMAIN d : n < i /\ d[n] = f
        <5>1. Len(down) + j \in DOMAIN d /\ d[Len(down) + j] = f /\ Len(down) + j < i
          BY <2>2, <4>2, <4>5
        <5> QED  BY <5>1
      <4> QED  BY <4>3, <4>4, <4>5
    <3> QED  BY <3>1, <3>2
  <2>5. DownInOrder'
    BY <1>1, <2>1, <2>4 DEF DownInOrder
  <2>6. OnTheWay'
    BY <1>1, <1>3, <2>1, <2>3 DEF OnTheWay
  <2> QED  BY <1>3, <2>1, <2>2, <2>5, <2>6
<1> QED  BY <1>2, <1>3

(* pumpFrames: nothing is lost of what main holds, and what is posted is       *)
(* complete.                                                                   *)
LEMMA PumpKeeps ==
    ASSUME FramesInv, running, running',
           UNCHANGED <<read, connected, mounted, rendererVars, painted, discarded>>,
           acks' \in Seq(Frames), ToSet(acks') \subseteq ToSet(acks),
           renderers' \in 0..MaxRenderers, expiries' \in 0..MaxExpiries,
           failures' \in 0..MaxFailures,
           NEW p \in 0..MaxPorts, port' = p, p # connected => down = <<>>,
           attached' \in 0..MaxPorts, p <= attached', attached' <= connected,
           NEW q \in Seq(Frames), InOrder(q), NEW flying \in SUBSET inFlight,
           p = port \/ flying = {}, Cardinality(flying) < MAX_IN_FLIGHT_FRAMES,
           ToSet(q) \cup flying \subseteq 1..read,
           1..read \subseteq ToSet(q) \cup flying \cup Arrived,
           Pump(p, q, flying)
    PROVE  FramesInv'
<1> USE DEF FramesInv
<1> DEFINE room == MAX_IN_FLIGHT_FRAMES - Cardinality(flying)
           n == IF room < Len(q) THEN room ELSE Len(q)
           sent == SubSeq(q, 1, n)
<1>1. /\ Arrived' = Arrived
      /\ IsFiniteSet(flying) /\ Cardinality(flying) \in Nat
      /\ flying \subseteq Frames /\ read \in Nat /\ MAX_IN_FLIGHT_FRAMES \in Nat
  <2>1. /\ Arrived' = Arrived /\ flying \subseteq Frames /\ read \in 0..MaxFrames
        /\ MaxFrames \in Nat /\ MAX_IN_FLIGHT_FRAMES \in Nat
    BY RdpFramesAssumption DEF Arrived, FramesOf, rendererVars, FramesTypeOK
  <2>2. IsFiniteSet(Frames)
    BY <2>1, FS_Interval DEF Frames
  <2> QED  BY <2>1, <2>2, FS_Subset, FS_CardinalityType
<1>2. n \in 0..Len(q) /\ n <= room
  BY <1>1
<1>3. /\ inFlight' = flying \cup ToSet(sent)
      /\ queued' = SubSeq(q, n + 1, Len(q))
      /\ paused' = (queued' # <<>> \/ Cardinality(inFlight') >= MAX_IN_FLIGHT_FRAMES)
      /\ Posted(p, sent)
  BY DEF Pump
<1>4. /\ sent \in Seq(Frames) /\ queued' \in Seq(Frames)
      /\ IsFiniteSet(ToSet(sent)) /\ Cardinality(ToSet(sent)) <= n
      /\ ToSet(q) = ToSet(sent) \cup ToSet(queued')
  BY <1>2, <1>3, Beginning
<1>5. /\ Len(q) \in Nat /\ DOMAIN q = 1..Len(q) /\ DOMAIN sent = 1..n
      /\ \A i \in 1..n : sent[i] = q[i]
      /\ DOMAIN queued' = 1..(Len(q) - n)
      /\ \A i \in 1..(Len(q) - n) : queued'[i] = q[n + i] /\ n + i \in 1..Len(q)
  BY <1>2, <1>3, SMTT(30)
<1> HIDE DEF sent, n
<1>6. InOrder(queued')
  <2>1. \A i, j \in 1..Len(q) : i < j => q[i] < q[j]
    BY <1>5 DEF InOrder
  <2>2. ASSUME NEW i \in 1..(Len(q) - n), NEW j \in 1..(Len(q) - n), i < j
        PROVE  queued'[i] < queued'[j]
    <3>1. n + i < n + j
      BY <1>2, <2>2
    <3> QED  BY <1>5, <2>1, <3>1
  <2> QED  BY <1>5, <2>2 DEF InOrder
<1>7. Cardinality(inFlight') <= MAX_IN_FLIGHT_FRAMES
  <2>1. /\ Cardinality(flying \cup ToSet(sent))
               = Cardinality(flying) + Cardinality(ToSet(sent))
                     - Cardinality(flying \cap ToSet(sent))
        /\ IsFiniteSet(flying \cap ToSet(sent))
    BY <1>1, <1>4, FS_Union, FS_Subset
  <2>2. Cardinality(flying \cap ToSet(sent)) \in Nat /\ Cardinality(ToSet(sent)) \in Nat
    BY <1>4, <2>1, FS_CardinalityType
  <2> QED  BY <1>1, <1>2, <1>3, <1>4, <2>1, <2>2, SMTT(30)
<1>8. Complete(sent, flying)
  <2>1. ASSUME NEW i \in 1..n, NEW f \in Frames, f < sent[i], f \notin flying \cup Arrived
        PROVE  \E j \in 1..n : j < i /\ sent[j] = f
    <3>1. sent[i] = q[i] /\ i \in 1..Len(q) /\ q[i] \in 1..read
      <4>1. sent[i] = q[i] /\ i \in 1..Len(q)
        BY <1>2, <1>5
      <4>2. q[i] \in ToSet(q)
        BY <1>5, <4>1 DEF ToSet
      <4> QED  BY <4>1, <4>2
    <3>2. f \in ToSet(q)
      BY <2>1, <3>1, <1>1 DEF Frames
    <3>3. PICK j \in 1..Len(q) : q[j] = f
      BY <1>5, <3>2 DEF ToSet
    <3>4. ~(i < j) /\ i # j
      <4>1. q[i] \in Nat /\ f \in Nat /\ f < q[i]
        BY <2>1, <3>1 DEF Frames
      <4>2. i < j => q[i] < q[j]
        BY <1>5, <3>1, <3>3 DEF InOrder
      <4>3. q[j] \in Nat /\ q[j] < q[i]
        BY <3>3, <4>1
      <4> QED  BY <4>1, <4>2, <4>3
    <3>5. j < i /\ j \in 1..n /\ sent[j] = f
      BY <1>2, <1>5, <3>3, <3>4
    <3> QED  BY <3>5
  <2> QED  BY <1>5, <2>1 DEF Complete
<1>9. /\ down' \in Seq(Frames) /\ DownInOrder' /\ OnTheWay'
      /\ ~mounted' => down' = <<>>
      /\ p # connected => down' = down
  <2>1. p = connected /\ mounted => flying \subseteq Arrived \cup ToSet(down)
    BY DEF OnTheWay
  <2> QED  BY <1>1, <1>3, <1>4, <1>8, <2>1, PostedInOrder DEF rendererVars
<1>10. FramesTypeOK'
  <2>1. inFlight' \subseteq Frames
    BY <1>1, <1>3, <1>4, ToSetOf DEF ToSet
  <2>2. paused' \in BOOLEAN
    BY <1>3
  <2> QED  BY <1>4, <1>7, <1>9, <2>1, <2>2 DEF FramesTypeOK, rendererVars
<1>11. /\ Held' = ToSet(q) \cup flying
       /\ LedgerInOrder' /\ QueuedMeansPaused' /\ NothingLost'
  <2>1. Held' = ToSet(q) \cup flying
    BY <1>3, <1>4 DEF Held
  <2>2. ToSet(queued') \cup inFlight' \cup FramesOf(frameQueue)' \cup painted' \cup discarded'
            = Held' \cup Arrived'
    BY DEF Held, Arrived
  <2> QED  BY <1>1, <1>3, <1>6, <2>1, <2>2 DEF LedgerInOrder, QueuedMeansPaused, NothingLost
<1>12. PortsInOrder'
  BY <1>9 DEF PortsInOrder
<1>13. RendererUpToDate'
  BY <1>1 DEF RendererUpToDate, rendererVars
<1> QED  BY <1>9, <1>10, <1>11, <1>12, <1>13

-------------------------------------------------------------------------------
LEMMA FramesInitInv == FramesInit => FramesInv
<1> SUFFICES ASSUME FramesInit PROVE FramesInv
  OBVIOUS
<1> USE DEF FramesInit
<1>1. /\ ToSet(queued) = {} /\ ToSet(acks) = {} /\ ToSet(frameQueue) = {}
      /\ DOMAIN queued = {} /\ DOMAIN down = {}
  BY DEF ToSet
<1>2. Cardinality(inFlight) = 0 /\ MAX_IN_FLIGHT_FRAMES \in Nat
  BY FS_EmptySet, RdpFramesAssumption
<1>3. FramesTypeOK
  <2>1. /\ \A b \in {MaxFrames, MaxPorts, MaxRenderers, MaxExpiries, MaxFailures} : 0 \in 0..b
        /\ <<>> \in Seq(Frames) /\ <<>> \in Seq([frame: Frames, port: 1..MaxPorts])
        /\ 0 <= MAX_IN_FLIGHT_FRAMES
    BY <1>2, RdpFramesAssumption
  <2> QED  BY <1>2, <2>1 DEF FramesTypeOK
<1>4. 1..0 = {}
  OBVIOUS
<1> QED  BY <1>1, <1>3, <1>4 DEF FramesInv, NothingLost, LedgerInOrder, InOrder, Held,
            QueuedMeansPaused, PortsInOrder, OnTheWay, DownInOrder, RendererUpToDate

(* Main reads from the worker.                                                 *)
LEMMA ReadKeeps ==
    ASSUME FramesInv, ReadFrame
    PROVE  FramesInv'
<1> USE DEF FramesInv
<1>1. /\ running /\ running' /\ ~paused /\ read' = read + 1 /\ read \in Nat
      /\ read < MaxFrames /\ MaxFrames \in Nat /\ queued = <<>> /\ ToSet(queued) = {}
      /\ UNCHANGED <<running, port, attached, connected, mounted, acks, rendererVars,
                     historyVars>>
      /\ Arrived' = Arrived /\ read' \in Frames
  BY RdpFramesAssumption, SMTT(30) DEF ReadFrame, QueuedMeansPaused, FramesTypeOK, Arrived,
         FramesOf, rendererVars, historyVars, ToSet, Frames
<1>2. CASE port = 0 \/ Cardinality(inFlight) >= MAX_IN_FLIGHT_FRAMES
  <2>1. queued' = <<read'>> /\ paused' /\ UNCHANGED <<inFlight, down>>
    BY <1>1, <1>2 DEF ReadFrame
  <2>2. ToSet(queued') = {read'} /\ InOrder(queued') /\ queued' \in Seq(Frames)
    BY <1>1, <2>1 DEF ToSet, InOrder
  <2>3. FramesTypeOK' /\ QueuedMeansPaused'
    BY <1>1, <2>1, <2>2 DEF FramesTypeOK, QueuedMeansPaused, Frames, rendererVars,
                            historyVars, ReadFrame
  <2>4. LedgerInOrder' /\ NothingLost'
    BY <1>1, <2>1, <2>2 DEF LedgerInOrder, Held, NothingLost, rendererVars, historyVars,
                            FramesOf
  <2>5. PortsInOrder' /\ OnTheWay' /\ DownInOrder' /\ RendererUpToDate'
    BY <1>1, <2>1 DEF PortsInOrder, OnTheWay, DownInOrder, RendererUpToDate, rendererVars
  <2> QED  BY <2>3, <2>4, <2>5
<1>3. CASE ~(port = 0 \/ Cardinality(inFlight) >= MAX_IN_FLIGHT_FRAMES)
  <2> DEFINE sent == <<read'>>
  <2>1. /\ inFlight' = inFlight \cup {read'}
        /\ paused' = (Cardinality(inFlight') >= MAX_IN_FLIGHT_FRAMES)
        /\ Posted(port, sent) /\ UNCHANGED queued
    BY <1>3 DEF ReadFrame
  <2>2. sent \in Seq(Frames) /\ DOMAIN sent = {1} /\ sent[1] = read' /\ ToSet(sent) = {read'}
    BY <1>1 DEF ToSet
  <2>3. Complete(sent, inFlight)
    <3>1. \A f \in Frames : f < read + 1 => f \in inFlight \cup Arrived
      BY <1>1 DEF NothingLost, Arrived, Frames
    <3> QED  BY <1>1, <2>2, <3>1 DEF Complete
  <2>4. inFlight \in SUBSET Frames /\ IsFiniteSet(inFlight)
        /\ Cardinality(inFlight) \in Nat
    <3>1. inFlight \in SUBSET Frames /\ IsFiniteSet(Frames)
      BY <1>1, FS_Interval DEF FramesTypeOK, Frames
    <3> QED  BY <3>1, FS_Subset, FS_CardinalityType
  <2>5. /\ down' \in Seq(Frames) /\ DownInOrder' /\ OnTheWay'
        /\ ~mounted' => down' = <<>>
        /\ port # connected => down' = down
    <3>1. port = connected /\ mounted => inFlight \subseteq Arrived \cup ToSet(down)
      BY <1>1 DEF OnTheWay
    <3> HIDE DEF sent
    <3> QED  BY <1>1, <2>1, <2>2, <2>3, <2>4, <3>1, PostedInOrder DEF rendererVars,
                historyVars
  <2>6. Cardinality(inFlight') <= MAX_IN_FLIGHT_FRAMES
    <3>1. Cardinality(inFlight') \in {Cardinality(inFlight), Cardinality(inFlight) + 1}
      BY <2>1, <2>4, FS_AddElement
    <3> QED  BY <1>3, <2>4, <3>1, RdpFramesAssumption
  <2>7. FramesTypeOK' /\ QueuedMeansPaused'
    <3>1. inFlight' \subseteq Frames /\ paused' \in BOOLEAN
      BY <1>1, <2>1, <2>4
    <3> QED  BY <1>1, <2>1, <2>5, <2>6, <3>1 DEF FramesTypeOK, QueuedMeansPaused, Frames,
                rendererVars, historyVars
  <2>8. LedgerInOrder' /\ NothingLost'
    BY <1>1, <2>1 DEF LedgerInOrder, Held, NothingLost, rendererVars, historyVars, FramesOf
  <2>9. PortsInOrder' /\ RendererUpToDate'
    BY <1>1, <2>5 DEF PortsInOrder, RendererUpToDate, rendererVars
  <2> QED  BY <2>5, <2>7, <2>8, <2>9
<1> QED  BY <1>2, <1>3

LEMMA Limits ==
    /\ MAX_IN_FLIGHT_FRAMES \in Nat \ {0} /\ MaxFrames \in Nat /\ MaxPorts \in Nat
    /\ MaxRenderers \in Nat /\ MaxExpiries \in Nat /\ MaxFailures \in Nat
BY RdpFramesAssumption

(* What main holds is finite, and is among the frames that were read.          *)
LEMMA HeldIsFinite ==
    ASSUME FramesInv
    PROVE  /\ Held \subseteq 1..read /\ 1..read \subseteq Frames
           /\ IsFiniteSet(Held) /\ IsFiniteSet(inFlight)
           /\ Cardinality(inFlight) \in Nat
           /\ \A S \in SUBSET Held : S \subseteq Nat /\ IsFiniteSet(S)
<1>1. Held \subseteq 1..read /\ read \in 0..MaxFrames /\ MaxFrames \in Nat
  BY RdpFramesAssumption DEF FramesInv, LedgerInOrder, FramesTypeOK
<1>2. IsFiniteSet(1..read) /\ 1..read \subseteq Frames /\ 1..read \subseteq Nat
  BY <1>1, FS_Interval DEF Frames
<1>3. \A S \in SUBSET Held : S \subseteq Nat /\ IsFiniteSet(S)
  BY <1>1, <1>2, FS_Subset
<1>4. inFlight \in SUBSET Held
  BY DEF Held
<1> QED  BY <1>1, <1>2, <1>3, <1>4, FS_CardinalityType

(* The pane's acknowledgement comes.                                           *)
LEMMA AckKeeps ==
    ASSUME FramesInv, OnFrameAck
    PROVE  FramesInv'
<1>1. /\ running /\ running' /\ acks # <<>> /\ acks' = Tail(acks) /\ port = connected
      /\ UNCHANGED <<running, read, port, attached, connected, mounted,
                     rendererVars, historyVars>>
      /\ acks \in Seq(Frames)
  BY DEF OnFrameAck, FramesInv, FramesTypeOK
<1>2. /\ acks' \in Seq(Frames) /\ ToSet(acks') \subseteq ToSet(acks)
      /\ Head(acks) \in Arrived
  <2>1. Head(acks) \in Frames /\ acks' \in Seq(Frames)
    BY <1>1
  <2> QED  BY <1>1, <2>1, ToSetOf DEF FramesInv, RendererUpToDate
<1>3. CASE Head(acks) \in inFlight
  <2> DEFINE flying == inFlight \ {Head(acks)}
  <2>1. Pump(port, queued, flying)
    BY <1>3 DEF OnFrameAck
  <2>2. Cardinality(flying) < MAX_IN_FLIGHT_FRAMES
    <3>1. Cardinality(flying) = Cardinality(inFlight) - 1
      BY <1>3, HeldIsFinite, FS_RemoveElement
    <3> QED  BY <3>1, HeldIsFinite, Limits DEF FramesInv, FramesTypeOK
  <2>3. /\ renderers' \in 0..MaxRenderers /\ expiries' \in 0..MaxExpiries
        /\ failures' \in 0..MaxFailures /\ attached' \in 0..MaxPorts
        /\ port \in 0..MaxPorts /\ port' = port
        /\ port <= attached' /\ attached' <= connected
        /\ queued \in Seq(Frames) /\ InOrder(queued)
        /\ UNCHANGED <<read, connected, mounted, rendererVars, painted, discarded>>
    BY <1>1 DEF FramesInv, FramesTypeOK, PortsInOrder, LedgerInOrder, historyVars
  <2>4. /\ flying \in SUBSET inFlight
        /\ ToSet(queued) \cup flying \subseteq 1..read
        /\ 1..read \subseteq ToSet(queued) \cup flying \cup Arrived
    BY <1>1, <1>2 DEF FramesInv, LedgerInOrder, Held, NothingLost, Arrived
  <2> HIDE DEF flying
  <2> QED  BY <1>1, <1>2, <2>1, <2>2, <2>3, <2>4, PumpKeeps
<1>4. CASE Head(acks) \notin inFlight
  <2>1. UNCHANGED <<ledgerVars, down>>
    BY <1>4 DEF OnFrameAck
  <2> QED
    BY <1>1, <1>2, <2>1 DEF FramesInv, FramesTypeOK, NothingLost, LedgerInOrder, Held,
       QueuedMeansPaused, PortsInOrder, OnTheWay, DownInOrder, RendererUpToDate, Arrived,
       FramesOf, ledgerVars, rendererVars, historyVars
<1> QED  BY <1>3, <1>4

(* An acknowledgement is late.                                                 *)
LEMMA ExpiryKeeps ==
    ASSUME FramesInv, NEW f \in Frames, ExpireFrame(f)
    PROVE  FramesInv'
<1>1. /\ running /\ running' /\ f \in inFlight /\ expiries < MaxExpiries
      /\ expiries' = expiries + 1
      /\ UNCHANGED <<running, read, port, attached, connected, mounted, acks,
                     rendererVars, painted, discarded, renderers, failures>>
  BY DEF ExpireFrame
<1> DEFINE S == ToSet(queued) \cup {f}
           q == Sorted(S)
           flying == inFlight \ {f}
<1>2. Pump(port, q, flying)
  BY DEF ExpireFrame
<1>3. q \in Seq(Frames) /\ InOrder(q) /\ ToSet(q) = S
  <2>1. S \in SUBSET Held /\ S \subseteq Frames
    BY <1>1, HeldIsFinite DEF Held
  <2>2. S \subseteq Nat /\ IsFiniteSet(S)
    BY <2>1, HeldIsFinite
  <2> HIDE DEF S
  <2>3. q \in Seq(S) /\ InOrder(q) /\ ToSet(q) = S
    BY <2>2, SortedSorts
  <2> QED  BY <2>1, <2>3
<1>4. Cardinality(flying) < MAX_IN_FLIGHT_FRAMES
  <2>1. Cardinality(flying) = Cardinality(inFlight) - 1
    BY <1>1, HeldIsFinite, FS_RemoveElement
  <2> QED  BY <2>1, HeldIsFinite, Limits DEF FramesInv, FramesTypeOK
<1>5. /\ renderers' \in 0..MaxRenderers /\ expiries' \in 0..MaxExpiries
      /\ failures' \in 0..MaxFailures /\ attached' \in 0..MaxPorts
      /\ port \in 0..MaxPorts /\ port' = port /\ port <= attached'
      /\ attached' <= connected
      /\ acks' \in Seq(Frames) /\ ToSet(acks') \subseteq ToSet(acks)
      /\ UNCHANGED <<read, connected, mounted, rendererVars, painted, discarded>>
      /\ port # connected => down = <<>>
  BY <1>1, RdpFramesAssumption DEF FramesInv, FramesTypeOK, PortsInOrder
<1>6. /\ flying \in SUBSET inFlight
      /\ ToSet(q) \cup flying = Held
  BY <1>1, <1>3 DEF Held
<1>7. Held \subseteq 1..read /\ 1..read \subseteq Held \cup Arrived
  BY <1>1 DEF FramesInv, LedgerInOrder, NothingLost, Held, Arrived
<1> HIDE DEF flying, q
<1> QED  BY <1>1, <1>2, <1>3, <1>4, <1>5, <1>6, <1>7, PumpKeeps

(* Everything main holds is queued again, in order.                            *)
LEMMA ReclaimedIsHeld ==
    ASSUME FramesInv
    PROVE  Reclaimed \in Seq(Frames) /\ InOrder(Reclaimed) /\ ToSet(Reclaimed) = Held
<1>1. Held \subseteq Frames /\ Held \subseteq Nat /\ IsFiniteSet(Held)
  BY HeldIsFinite
<1>2. Reclaimed = Sorted(Held)
  BY DEF Reclaimed, Held
<1>3. Sorted(Held) \in Seq(Held) /\ InOrder(Sorted(Held)) /\ ToSet(Sorted(Held)) = Held
  BY <1>1, SortedSorts
<1>4. Sorted(Held) \in Seq(Frames)
  BY <1>1, <1>3, InWiderSet
<1> QED  BY <1>2, <1>3, <1>4

(* Main attaches a port.                                                       *)
LEMMA AttachKeeps ==
    ASSUME FramesInv, AttachPort
    PROVE  FramesInv'
<1>1. /\ attached < connected /\ attached' = attached + 1
      /\ UNCHANGED <<running, read, connected, mounted, acks, rendererVars, historyVars>>
      /\ attached \in 0..MaxPorts /\ connected \in 0..MaxPorts /\ port \in 0..MaxPorts
      /\ port <= attached /\ MaxPorts \in Nat
  BY RdpFramesAssumption DEF AttachPort, FramesInv, FramesTypeOK, PortsInOrder
<1>2. attached' \in 0..MaxPorts /\ attached' <= connected /\ port # connected
  BY <1>1
<1>3. CASE running
  <2>1. port' = attached' /\ Pump(attached', Reclaimed, {}) /\ running'
    BY <1>1, <1>3 DEF AttachPort
  <2>2. /\ renderers' \in 0..MaxRenderers /\ expiries' \in 0..MaxExpiries
        /\ failures' \in 0..MaxFailures
        /\ acks' \in Seq(Frames) /\ ToSet(acks') \subseteq ToSet(acks)
        /\ UNCHANGED <<read, connected, mounted, rendererVars, painted, discarded>>
        /\ down = <<>>
    BY <1>1, <1>2, <1>3 DEF FramesInv, FramesTypeOK, PortsInOrder, historyVars
  <2>3. Cardinality({}) < MAX_IN_FLIGHT_FRAMES
    BY FS_EmptySet, RdpFramesAssumption
  <2>4. Held \subseteq 1..read /\ 1..read \subseteq Held \cup Arrived
    BY <1>3 DEF FramesInv, LedgerInOrder, NothingLost, Held, Arrived
  <2>5. /\ ToSet(Reclaimed) \cup {} \subseteq 1..read
        /\ 1..read \subseteq ToSet(Reclaimed) \cup {} \cup Arrived
        /\ {} \in SUBSET inFlight
    BY <2>4, ReclaimedIsHeld
  <2>6. attached' <= attached'
    BY <1>2
  <2> QED  BY <1>1, <1>2, <1>3, <2>1, <2>2, <2>3, <2>5, <2>6, ReclaimedIsHeld, PumpKeeps
<1>4. CASE ~running
  <2>1. UNCHANGED <<port, ledgerVars, down>>
    BY <1>4 DEF AttachPort
  <2>2. PortsInOrder'
    BY <1>1, <1>2, <1>4, <2>1 DEF PortsInOrder, FramesInv
  <2> QED
    BY <1>1, <1>2, <2>1, <2>2 DEF FramesInv, FramesTypeOK, NothingLost, LedgerInOrder, Held,
       QueuedMeansPaused, OnTheWay, DownInOrder, RendererUpToDate, Arrived,
       FramesOf, ledgerVars, rendererVars, historyVars
<1> QED  BY <1>3, <1>4

(* Main hears that its port was closed.                                        *)
LEMMA PortClosedKeeps ==
    ASSUME FramesInv, OnPortClosed
    PROVE  FramesInv'
<1>1. /\ running /\ running' /\ port # 0 /\ port' = 0 /\ queued' = Reclaimed
      /\ inFlight' = {} /\ paused' = TRUE /\ (port < connected \/ ~mounted)
      /\ UNCHANGED <<running, read, attached, connected, mounted, down, acks,
                     rendererVars, historyVars>>
      /\ Arrived' = Arrived
  BY DEF OnPortClosed, Arrived, FramesOf, rendererVars, historyVars
<1>2. ToSet(queued') = Held /\ InOrder(queued') /\ queued' \in Seq(Frames)
  BY <1>1, ReclaimedIsHeld
<1>3. Held' = Held
  BY <1>1, <1>2 DEF Held
<1>4. FramesTypeOK'
  <2>1. Cardinality(inFlight') <= MAX_IN_FLIGHT_FRAMES /\ port' \in 0..MaxPorts
    BY <1>1, FS_EmptySet, RdpFramesAssumption
  <2> QED  BY <1>1, <1>2, <2>1 DEF FramesInv, FramesTypeOK, rendererVars, historyVars
<1>5. LedgerInOrder' /\ NothingLost' /\ QueuedMeansPaused'
  <2>1. ToSet(queued') \cup inFlight' \cup FramesOf(frameQueue)' \cup painted' \cup discarded'
            = Held' \cup Arrived'
    BY DEF Held, Arrived
  <2>2. 1..read \subseteq Held \cup Arrived /\ Held \subseteq 1..read
    BY <1>1 DEF FramesInv, NothingLost, LedgerInOrder, Held, Arrived
  <2> QED  BY <1>1, <1>2, <1>3, <2>1, <2>2 DEF LedgerInOrder, NothingLost, QueuedMeansPaused
<1>6. PortsInOrder'
  <2>1. down = <<>>
    BY <1>1 DEF FramesInv, PortsInOrder, FramesTypeOK
  <2>2. 0 <= attached
    BY DEF FramesInv, FramesTypeOK
  <2> QED  BY <1>1, <2>1, <2>2 DEF FramesInv, PortsInOrder
<1>7. OnTheWay' /\ DownInOrder' /\ RendererUpToDate'
  BY <1>1 DEF FramesInv, OnTheWay, DownInOrder, RendererUpToDate, rendererVars
<1> QED  BY <1>4, <1>5, <1>6, <1>7 DEF FramesInv

(* The session ends.                                                           *)
LEMMA EndKeeps ==
    ASSUME FramesInv, EndSession
    PROVE  FramesInv'
<1>1. /\ ~running' /\ queued' = <<>> /\ inFlight' = {} /\ paused' = FALSE /\ port' = 0
      /\ UNCHANGED <<read, attached, connected, mounted, down, acks, rendererVars,
                     historyVars>>
      /\ Arrived' = Arrived /\ running' \in BOOLEAN
  BY DEF EndSession, Arrived, FramesOf, rendererVars, historyVars
<1>2. ToSet(queued') = {} /\ InOrder(queued') /\ queued' \in Seq(Frames)
  BY <1>1 DEF ToSet, InOrder
<1>3. FramesTypeOK'
  <2>1. Cardinality(inFlight') <= MAX_IN_FLIGHT_FRAMES /\ port' \in 0..MaxPorts
    BY <1>1, FS_EmptySet, RdpFramesAssumption
  <2> QED  BY <1>1, <1>2, <2>1 DEF FramesInv, FramesTypeOK, rendererVars, historyVars
<1>4. LedgerInOrder' /\ NothingLost' /\ QueuedMeansPaused' /\ OnTheWay'
  BY <1>1, <1>2 DEF LedgerInOrder, Held, NothingLost, QueuedMeansPaused, OnTheWay
<1>5. PortsInOrder'
  <2>1. 0 <= attached
    BY DEF FramesInv, FramesTypeOK
  <2> QED  BY <1>1, <2>1 DEF FramesInv, PortsInOrder
<1>6. DownInOrder' /\ RendererUpToDate'
  BY <1>1 DEF FramesInv, DownInOrder, RendererUpToDate, rendererVars
<1> QED  BY <1>3, <1>4, <1>5, <1>6 DEF FramesInv

(* The pane makes another port, or disposes of its own.                        *)
LEMMA ConnectKeeps ==
    ASSUME FramesInv, Connect \/ Disconnect
    PROVE  FramesInv'
<1>1. /\ down' = <<>> /\ acks' = <<>>
      /\ mounted' \in BOOLEAN /\ connected' \in 0..MaxPorts
      /\ UNCHANGED <<running, read, ledgerVars, port, attached, rendererVars, historyVars>>
      /\ Arrived' = Arrived /\ Held' = Held
  <2>1. connected < MaxPorts => connected + 1 \in 0..MaxPorts
    BY Limits DEF FramesInv, FramesTypeOK
  <2> QED
    BY <2>1 DEF Connect, Disconnect, Arrived, FramesOf, rendererVars, historyVars, ledgerVars,
                Held, FramesInv, FramesTypeOK
<1>2. ToSet(acks') = {} /\ acks' \in Seq(Frames) /\ down' \in Seq(Frames)
      /\ DOMAIN down' = {}
  BY <1>1 DEF ToSet
<1>3. FramesTypeOK'
  BY <1>1, <1>2 DEF FramesInv, FramesTypeOK, rendererVars, historyVars, ledgerVars
<1>4. LedgerInOrder' /\ NothingLost' /\ QueuedMeansPaused'
  BY <1>1 DEF FramesInv, LedgerInOrder, NothingLost, QueuedMeansPaused, FramesOf,
              rendererVars, historyVars, ledgerVars
<1>5. PortsInOrder' /\ (mounted' => port' # connected' \/ ~Connect)
  <2>1. /\ port \in Nat /\ attached \in Nat /\ connected \in Nat
        /\ port <= attached /\ attached <= connected
    BY DEF FramesInv, FramesTypeOK, PortsInOrder
  <2>2. CASE Connect
    BY <1>1, <2>1, <2>2 DEF PortsInOrder, Connect
  <2>3. CASE Disconnect
    BY <1>1, <2>1, <2>3 DEF PortsInOrder, Disconnect
  <2> QED  BY <2>2, <2>3
<1>6. OnTheWay'
  <2>1. ~Connect => ~mounted'
    BY DEF Disconnect
  <2> QED  BY <1>5, <2>1 DEF OnTheWay
<1>7. DownInOrder' /\ RendererUpToDate'
  BY <1>1, <1>2 DEF FramesInv, DownInOrder, RendererUpToDate, rendererVars
<1> QED  BY <1>3, <1>4, <1>5, <1>6, <1>7 DEF FramesInv

(* Frames that come leave the way in its order.                                *)
LEMMA TailInOrder ==
    ASSUME FramesTypeOK, DownInOrder, down # <<>>, down' = Tail(down),
           Arrived \subseteq Arrived', Head(down) \in Arrived'
    PROVE  DownInOrder'
<1>1. /\ DOMAIN down = 1..Len(down) /\ Len(down) \in Nat \ {0} /\ Head(down) = down[1]
      /\ DOMAIN down' = 1..(Len(down) - 1)
      /\ \A i \in 1..(Len(down) - 1) : down'[i] = down[i + 1] /\ i + 1 \in 1..Len(down)
  BY DEF FramesTypeOK
<1>2. ASSUME NEW i \in 1..(Len(down) - 1), NEW f \in Frames, f < down'[i], f \notin Arrived'
      PROVE  \E j \in 1..(Len(down) - 1) : j < i /\ down'[j] = f
  <2>1. PICK j \in 1..Len(down) : j < i + 1 /\ down[j] = f
    BY <1>1, <1>2 DEF DownInOrder
  <2>2. j # 1
    BY <1>1, <1>2, <2>1
  <2>3. j - 1 \in 1..(Len(down) - 1) /\ j - 1 < i /\ (j - 1) + 1 = j
    BY <1>1, <2>1, <2>2
  <2>4. down'[j - 1] = f
    BY <1>1, <2>1, <2>3
  <2> QED  BY <2>3, <2>4
<1>3. DOMAIN down' = 1..(Len(down) - 1)
  BY <1>1
<1> SUFFICES ASSUME NEW i \in DOMAIN down', NEW f \in Frames, f < down'[i], f \notin Arrived'
             PROVE  \E j \in DOMAIN down' : j < i /\ down'[j] = f
  BY DEF DownInOrder, Frames
<1>4. i \in 1..(Len(down) - 1)
  BY <1>3
<1>5. \E j \in 1..(Len(down) - 1) : j < i /\ down'[j] = f
  BY <1>2, <1>4
<1> QED  BY <1>3, <1>5

(* The renderer takes a frame in, or takes it for a copy.                      *)
LEMMA DeliverKeeps ==
    ASSUME FramesInv, Deliver
    PROVE  FramesInv'
<1>1. /\ down # <<>> /\ down' = Tail(down)
      /\ UNCHANGED <<running, read, ledgerVars, port, attached, connected, mounted,
                     historyVars>>
      /\ mounted /\ connected \in 1..MaxPorts
      /\ down \in Seq(Frames) /\ acks \in Seq(Frames)
      /\ frameQueue \in Seq([frame: Frames, port: 1..MaxPorts])
      /\ latestSequence \in 0..MaxFrames
  BY DEF Deliver, FramesInv, PortsInOrder, FramesTypeOK
<1> DEFINE f == Head(down)
<1>2. /\ f \in Frames /\ f \in Nat /\ down' \in Seq(Frames)
      /\ ToSet(down) = {f} \cup ToSet(down') /\ Len(down) \in Nat \ {0}
      /\ down[1] = f
  <2>1. f \in Frames /\ down' \in Seq(Frames) /\ Len(down) \in Nat \ {0} /\ down[1] = f
    BY <1>1
  <2>2. ToSet(down) = {f} \cup ToSet(Tail(down))
    BY <1>1, <2>1, ToSetOf
  <2> QED  BY <1>1, <2>1, <2>2 DEF Frames
<1>3. \A e \in Frames : e < f => e \in Arrived
  BY <1>1, <1>2 DEF FramesInv, DownInOrder
<1>4. CASE f <= latestSequence
  <2>1. acks' = Append(acks, f) /\ UNCHANGED rendererVars
    BY <1>4 DEF Deliver
  <2>2. Arrived' = Arrived /\ f \in Arrived
    <3>1. f \in 1..latestSequence
      BY <1>1, <1>2, <1>4 DEF Frames
    <3>2. Arrived' = Arrived
      BY <1>1, <2>1 DEF Arrived, FramesOf, rendererVars, historyVars
    <3> QED  BY <3>1, <3>2 DEF FramesInv, RendererUpToDate
  <2>3. acks' \in Seq(Frames) /\ ToSet(acks') = ToSet(acks) \cup {f}
    BY <1>1, <1>2, <2>1, ToSetOf
  <2>4. DownInOrder'
    BY <1>1, <2>2, TailInOrder DEF FramesInv
  <2>5. OnTheWay'
    BY <1>1, <1>2, <2>2 DEF FramesInv, OnTheWay, ledgerVars
  <2>6. FramesTypeOK'
    BY <1>1, <1>2, <2>1, <2>3 DEF FramesInv, FramesTypeOK, rendererVars, historyVars, ledgerVars
  <2>7. NothingLost' /\ LedgerInOrder' /\ QueuedMeansPaused'
    BY <1>1, <2>1 DEF FramesInv, LedgerInOrder, Held, NothingLost, QueuedMeansPaused, FramesOf,
              rendererVars, historyVars, ledgerVars
  <2>8. PortsInOrder'
    BY <1>1 DEF FramesInv, PortsInOrder
  <2>9. RendererUpToDate'
    BY <2>1, <2>2, <2>3 DEF FramesInv, RendererUpToDate, rendererVars
  <2> QED  BY <2>4, <2>5, <2>6, <2>7, <2>8, <2>9 DEF FramesInv
<1>5. CASE ~(f <= latestSequence)
  <2> DEFINE item == [frame |-> f, port |-> connected]
  <2>1. /\ frameQueue' = Append(frameQueue, item) /\ latestSequence' = f
        /\ UNCHANGED <<renderedSequence, acks>>
    BY <1>5 DEF Deliver
  <2>2. item \in [frame: Frames, port: 1..MaxPorts] /\ item.frame = f
    BY <1>1, <1>2
  <2> HIDE DEF item
  <2>3. /\ frameQueue' \in Seq([frame: Frames, port: 1..MaxPorts])
        /\ ToSet(frameQueue') = ToSet(frameQueue) \cup {item}
    <3>1. frameQueue' \in Seq([frame: Frames, port: 1..MaxPorts])
      BY <1>1, <2>1, <2>2
    <3>2. ToSet(Append(frameQueue, item)) = ToSet(frameQueue) \cup {item}
      <4> DEFINE R == [frame: Frames, port: 1..MaxPorts]
      <4>1. frameQueue \in Seq(R) /\ item \in R
        BY <1>1, <2>2
      <4> HIDE DEF R
      <4> QED  BY <4>1, ToSetOf
    <3> QED  BY <2>1, <3>1, <3>2
  <2>4. /\ FramesOf(frameQueue)' = FramesOf(frameQueue) \cup {f}
        /\ Arrived' = Arrived \cup {f}
    <3>1. FramesOf(frameQueue)' = FramesOf(frameQueue) \cup {f}
      BY <2>2, <2>3 DEF FramesOf
    <3> QED  BY <1>1, <3>1 DEF Arrived, historyVars
  <2>5. 1..f \subseteq Arrived'
    <3>1. \A e \in 1..f : e = f \/ (e \in Frames /\ e < f)
      BY <1>2, RdpFramesAssumption DEF Frames
    <3> QED  BY <1>3, <2>4, <3>1
  <2>6. DownInOrder'
    BY <1>1, <2>4, TailInOrder DEF FramesInv
  <2>7. OnTheWay'
    BY <1>1, <1>2, <2>4 DEF FramesInv, OnTheWay, ledgerVars
  <2>8. FramesTypeOK'
    <3>1. latestSequence' \in 0..MaxFrames
      BY <1>2, <2>1 DEF Frames
    <3> QED  BY <1>1, <1>2, <2>1, <2>3, <3>1 DEF FramesInv, FramesTypeOK, historyVars, ledgerVars
  <2>9. NothingLost' /\ LedgerInOrder' /\ QueuedMeansPaused'
    BY <1>1, <2>4 DEF FramesInv, LedgerInOrder, Held, NothingLost, QueuedMeansPaused,
              historyVars, ledgerVars
  <2>10. PortsInOrder'
    BY <1>1 DEF FramesInv, PortsInOrder
  <2>11. RendererUpToDate'
    <3>1. \A i \in ToSet(frameQueue') : 1..i.frame \subseteq Arrived'
      BY <2>2, <2>3, <2>4, <2>5 DEF FramesInv, RendererUpToDate
    <3> QED  BY <2>1, <2>4, <2>5, <3>1 DEF FramesInv, RendererUpToDate
  <2> QED  BY <2>6, <2>7, <2>8, <2>9, <2>10, <2>11 DEF FramesInv
<1> QED  BY <1>4, <1>5

(* Whose frames a batch acknowledges: its own.                                 *)
LEMMA AcknowledgesItsOwn ==
    ASSUME FramesTypeOK
    PROVE  /\ Acknowledged(frameQueue) \in Seq(Frames)
           /\ ToSet(Acknowledged(frameQueue)) \subseteq ToSet(acks) \cup FramesOf(frameQueue)
<1> DEFINE R == [frame: Frames, port: 1..MaxPorts]
           chosen == {i \in DOMAIN frameQueue : mounted /\ frameQueue[i].port = connected}
           heard == At(frameQueue, chosen)
           said == [n \in DOMAIN heard |-> heard[n].frame]
<1>1. frameQueue \in Seq(R) /\ acks \in Seq(Frames) /\ \A item \in R : item.frame \in Frames
  BY DEF FramesTypeOK
<1>2. Acknowledged(frameQueue) = acks \o said
  BY DEF Acknowledged
<1>3. chosen \subseteq DOMAIN frameQueue
  OBVIOUS
<1> HIDE DEF R, chosen
<1>4. heard \in Seq(R) /\ ToSet(heard) \subseteq {frameQueue[i] : i \in chosen}
  BY <1>1, <1>3, AtOf
<1> HIDE DEF heard
<1>5. /\ DOMAIN heard = 1..Len(heard) /\ Len(heard) \in Nat
      /\ \A n \in DOMAIN heard : heard[n] \in R /\ heard[n] \in ToSet(frameQueue)
  <2>1. ToSet(heard) \subseteq ToSet(frameQueue)
    BY <1>3, <1>4 DEF ToSet
  <2> QED  BY <1>4, <2>1 DEF ToSet
<1>6. said \in Seq(Frames) /\ ToSet(said) \subseteq FramesOf(frameQueue)
  <2>1. \A n \in DOMAIN heard : said[n] \in Frames /\ said[n] \in FramesOf(frameQueue)
    BY <1>1, <1>5 DEF FramesOf
  <2>2. DOMAIN said = 1..Len(heard)
    BY <1>5
  <2>3. said \in Seq(Frames)
    BY <1>5, <2>1
  <2> HIDE DEF said
  <2> QED  BY <1>5, <2>1, <2>2, <2>3 DEF ToSet
<1> HIDE DEF said
<1>7. acks \o said \in Seq(Frames) /\ ToSet(acks \o said) = ToSet(acks) \cup ToSet(said)
  BY <1>1, <1>6, ToSetJoined
<1> QED  BY <1>2, <1>6, <1>7

(* A batch is painted, is not painted, or goes with its renderer.              *)
LEMMA PaintKeeps ==
    ASSUME FramesInv, Paint \/ PaintFails \/ RecreateRenderer
    PROVE  FramesInv'
<1>1. /\ UNCHANGED <<running, read, ledgerVars, port, attached, connected, mounted, down>>
      /\ Held' = Held
  BY DEF Paint, PaintFails, RecreateRenderer, Held, ledgerVars
<1>2. /\ frameQueue \in Seq([frame: Frames, port: 1..MaxPorts])
      /\ \A item \in ToSet(frameQueue) : item.frame \in Frames
      /\ FramesOf(frameQueue) \subseteq Frames /\ FramesOf(<<>>) = {} /\ ToSet(<<>>) = {}
  <2>1. frameQueue \in Seq([frame: Frames, port: 1..MaxPorts])
    BY DEF FramesInv, FramesTypeOK
  <2>2. ToSet(frameQueue) \subseteq [frame: Frames, port: 1..MaxPorts]
    <3> DEFINE R == [frame: Frames, port: 1..MaxPorts]
    <3> HIDE DEF R
    <3>1. frameQueue \in Seq(R) => ToSet(frameQueue) \subseteq R
      BY DEF ToSet
    <3> QED  BY <2>1, <3>1 DEF R
  <2>3. \A item \in ToSet(frameQueue) : item.frame \in Frames
    BY <2>2
  <2>4. ToSet(<<>>) = {}
    BY DEF ToSet
  <2> QED  BY <2>1, <2>3, <2>4 DEF FramesOf
<1>3. Arrived' = Arrived
  BY <1>2 DEF Paint, PaintFails, RecreateRenderer, Arrived
<1>4. /\ acks' \in Seq(Frames) /\ ToSet(acks') \subseteq Arrived
  BY AcknowledgesItsOwn DEF Paint, PaintFails, RecreateRenderer, FramesInv, FramesTypeOK,
     RendererUpToDate, Arrived
<1>5. /\ {latestSequence', renderedSequence'} \subseteq 0..MaxFrames
      /\ 1..latestSequence' \subseteq Arrived /\ 1..renderedSequence' \subseteq Arrived
  <2>1. CASE Paint
    <3>1. /\ Len(frameQueue) \in 1..Len(frameQueue) /\ latestSequence' = latestSequence
          /\ renderedSequence' = frameQueue[Len(frameQueue)].frame
          /\ frameQueue[Len(frameQueue)] \in ToSet(frameQueue)
          /\ frameQueue[Len(frameQueue)].frame \in Frames
      <4>1. Len(frameQueue) \in 1..Len(frameQueue) /\ DOMAIN frameQueue = 1..Len(frameQueue)
        BY <1>2, <2>1 DEF Paint
      <4>2. frameQueue[Len(frameQueue)] \in ToSet(frameQueue)
        BY <4>1 DEF ToSet
      <4> QED  BY <1>2, <2>1, <4>1, <4>2 DEF Paint, Last
    <3>2. /\ {latestSequence, renderedSequence} \subseteq 0..MaxFrames
          /\ 1..latestSequence \subseteq Arrived
          /\ 1..frameQueue[Len(frameQueue)].frame \subseteq Arrived
      BY <3>1 DEF FramesInv, FramesTypeOK, RendererUpToDate
    <3>3. latestSequence' \in 0..MaxFrames /\ renderedSequence' \in 0..MaxFrames
      BY <3>1, <3>2, Limits DEF Frames
    <3>4. 1..latestSequence' \subseteq Arrived /\ 1..renderedSequence' \subseteq Arrived
      BY <3>1, <3>2
    <3> QED  BY <3>3, <3>4
  <2>2. CASE PaintFails
    BY <2>2 DEF PaintFails, FramesInv, FramesTypeOK, RendererUpToDate
  <2>3. CASE RecreateRenderer
    BY <2>3, RdpFramesAssumption DEF RecreateRenderer
  <2> QED  BY <2>1, <2>2, <2>3
<1>6. /\ painted' \subseteq Frames /\ discarded' \subseteq Frames
      /\ frameQueue' \in Seq([frame: Frames, port: 1..MaxPorts])
      /\ ToSet(frameQueue') \subseteq ToSet(frameQueue)
      /\ renderers' \in 0..MaxRenderers /\ expiries' \in 0..MaxExpiries
      /\ failures' \in 0..MaxFailures
  <2>1. <<>> \in Seq([frame: Frames, port: 1..MaxPorts])
    OBVIOUS
  <2>2. /\ renderers < MaxRenderers => renderers + 1 \in 0..MaxRenderers
        /\ failures < MaxFailures => failures + 1 \in 0..MaxFailures
    BY Limits DEF FramesInv, FramesTypeOK
  <2>3. /\ frameQueue' = frameQueue \/ frameQueue' = <<>>
        /\ painted' \subseteq painted \cup FramesOf(frameQueue)
        /\ discarded' \subseteq discarded \cup FramesOf(frameQueue)
        /\ renderers' = renderers \/ (renderers < MaxRenderers /\ renderers' = renderers + 1)
        /\ failures' = failures \/ (failures < MaxFailures /\ failures' = failures + 1)
        /\ expiries' = expiries
    BY DEF Paint, PaintFails, RecreateRenderer
  <2> QED  BY <1>2, <2>1, <2>2, <2>3 DEF FramesInv, FramesTypeOK
<1>7. FramesTypeOK'
  BY <1>1, <1>4, <1>5, <1>6 DEF FramesInv, FramesTypeOK, ledgerVars
<1>8. NothingLost' /\ LedgerInOrder' /\ QueuedMeansPaused'
  <2>1. NothingLost <=> (running => 1..read \subseteq Held \cup Arrived)
    BY DEF NothingLost, Held, Arrived
  <2>2. NothingLost' <=> (running' => 1..read' \subseteq Held' \cup Arrived')
    BY DEF NothingLost, Held, Arrived
  <2> QED
    BY <1>1, <1>3, <2>1, <2>2 DEF FramesInv, LedgerInOrder, QueuedMeansPaused, ledgerVars
<1>9. PortsInOrder' /\ OnTheWay' /\ DownInOrder'
  BY <1>1, <1>3 DEF FramesInv, PortsInOrder, OnTheWay, DownInOrder, ledgerVars
<1>10. RendererUpToDate'
  BY <1>3, <1>4, <1>5, <1>6 DEF FramesInv, RendererUpToDate
<1> QED  BY <1>7, <1>8, <1>9, <1>10 DEF FramesInv

LEMMA FramesStep == FramesInv /\ [FramesNext]_framesVars => FramesInv'
<1> SUFFICES ASSUME FramesInv, [FramesNext]_framesVars PROVE FramesInv'
  OBVIOUS
<1>1. CASE UNCHANGED framesVars
  BY <1>1 DEF framesVars, FramesInv, FramesTypeOK, NothingLost, LedgerInOrder, Held,
     QueuedMeansPaused, PortsInOrder, OnTheWay, DownInOrder, RendererUpToDate, Arrived, FramesOf
<1>2. CASE FramesNext
  BY <1>2, ReadKeeps, AckKeeps, ExpiryKeeps, AttachKeeps, PortClosedKeeps, EndKeeps,
     ConnectKeeps, DeliverKeeps, PaintKeeps DEF FramesNext
<1> QED  BY <1>1, <1>2

(* The frame path's invariant.                                                 *)
THEOREM FramesInvariance == FramesSpec => []FramesInv
  BY FramesInitInv, FramesStep, PTL DEF FramesSpec

(* The ledger, the port and the renderer keep their types, and no more frames  *)
(* are in flight than MAX_IN_FLIGHT_FRAMES.                                    *)
THEOREM FramesTypeCorrect == FramesSpec => []FramesTypeOK
<1>1. FramesInv => FramesTypeOK
  BY DEF FramesInv
<1> QED  BY <1>1, FramesInvariance, PTL

(* Every frame that main read is held, painted or discarded with a renderer,   *)
(* whatever ports, late acknowledgements and failed paints there were.         *)
THEOREM NothingLostHolds == FramesSpec => []NothingLost
<1>1. FramesInv => NothingLost
  BY DEF FramesInv
<1> QED  BY <1>1, FramesInvariance, PTL

================================================================================
