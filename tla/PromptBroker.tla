----------------------------- MODULE PromptBroker -----------------------------
(* Questions to the user (trust this host key, password, keyboard-interactive)*)
(* asked by connection attempts: ssh/PromptBroker.ts in the main process and  *)
(* the PromptHost component that shows them in the window.                    *)
(*                                                                            *)
(* The two run in different processes.  toWindow and toMain are the messages  *)
(* under way between them (ordered, as Electron's IPC delivers them), so an   *)
(* answer can cross a timeout, a cancellation or the next question.           *)
EXTENDS Ordering

CONSTANTS
    Questions,     \* request ids; each is asked once
    Sessions,
    SessionOf,     \* the session on whose behalf a request is made
    NoRequest      \* null

ASSUME PromptAssumption ==
    /\ SessionOf \in [Questions -> Sessions]
    /\ NoRequest \notin Questions

VARIABLES
    queue,        \* this.queue
    outstanding,  \* this.current
    status,       \* the request's promise: not made, pending or settled
    granted,      \* requests settled with ok
    toWindow,     \* session:prompt events under way
    shown,        \* the dialog of PromptHost
    toMain,       \* session:promptReply calls under way
    agreed        \* history: requests to which the user said yes

brokerVars == <<queue, outstanding, status, granted>>
windowVars == <<shown, toMain, agreed>>
promptVars == <<brokerVars, toWindow, windowVars>>

PromptTypeOK ==
    /\ queue \in Seq(Questions)
    /\ outstanding \in Questions \cup {NoRequest}
    /\ status \in [Questions -> {"unmade", "pending", "settled"}]
    /\ granted \subseteq Questions
    /\ toWindow \in Seq(Questions)
    /\ shown \in Questions \cup {NoRequest}
    /\ toMain \in Seq([id : Questions, ok : BOOLEAN])
    /\ agreed \subseteq Questions

PromptInit ==
    /\ queue = <<>>
    /\ outstanding = NoRequest
    /\ status = [r \in Questions |-> "unmade"]
    /\ granted = {}
    /\ toWindow = <<>>
    /\ shown = NoRequest
    /\ toMain = <<>>
    /\ agreed = {}

------------------------------------------------------------------------------
(* Main process                                                               *)

\* pump() when this.current would be c and this.queue q: the next question is
\* sent to the window if none is outstanding.
PumpPrompts(c, q) ==
    IF c = NoRequest /\ q # <<>>
    THEN /\ outstanding' = Head(q)
         /\ queue' = Tail(q)
         /\ toWindow' = Append(toWindow, Head(q))
    ELSE /\ outstanding' = c
         /\ queue' = q
         /\ UNCHANGED toWindow

\* The questions that stay in q when those of S are taken out
Without(q, S) == At(q, {i \in DOMAIN q : q[i] \notin S})

Request(r) ==
    /\ status[r] = "unmade"
    /\ status' = [status EXCEPT ![r] = "pending"]
    /\ PumpPrompts(outstanding, Append(queue, r))
    /\ UNCHANGED <<granted, windowVars>>

\* Variant: an answer settles the outstanding question, whichever it is.
FinishCurrent(r, ok) ==
    /\ outstanding # NoRequest
    /\ status' = [status EXCEPT ![outstanding] = "settled"]
    /\ granted' = IF ok THEN granted \cup {outstanding} ELSE granted
    /\ PumpPrompts(NoRequest, queue)

\* finish(): settle the outstanding question, or take r out of the queue; an id
\* that is in neither is ignored.
FinishPrompt(r, ok) ==
    \/ /\ r \in ToSet(queue) \cup {outstanding}
       /\ status' = [status EXCEPT ![r] = "settled"]
       /\ granted' = IF ok THEN granted \cup {r} ELSE granted
       /\ IF r = outstanding THEN PumpPrompts(NoRequest, queue)
                         ELSE PumpPrompts(outstanding, Without(queue, {r}))
    \/ /\ r \notin ToSet(queue) \cup {outstanding}
       /\ UNCHANGED <<brokerVars, toWindow>>

\* The timer set in request() expires: it runs from the request, not from the
\* moment the question is shown.
Timeout(r) ==
    /\ status[r] = "pending"
    /\ FinishPrompt(r, FALSE)
    /\ UNCHANGED windowVars

ReplyArrives ==
    /\ toMain # <<>>
    /\ toMain' = Tail(toMain)
    /\ FinishPrompt(Head(toMain).id, Head(toMain).ok)
    /\ UNCHANGED <<shown, agreed>>

OfSession(s) == {r \in Questions : SessionOf[r] = s}

Waiting(s) == OfSession(s) \cap (ToSet(queue) \cup {outstanding})

\* Variant: the cancelled promises are not settled.
CancelWithoutAnswer(s) ==
    /\ Waiting(s) # {}
    /\ PumpPrompts(IF outstanding \in OfSession(s) THEN NoRequest ELSE outstanding,
            Without(queue, OfSession(s)))
    /\ UNCHANGED <<status, granted, windowVars>>

\* cancelForSession(): the queued requests of s first, then the outstanding one.
CancelForSession(s) ==
    /\ Waiting(s) # {}
    /\ status' = [r \in Questions |-> IF r \in Waiting(s) THEN "settled" ELSE status[r]]
    /\ PumpPrompts(IF outstanding \in OfSession(s) THEN NoRequest ELSE outstanding,
            Without(queue, OfSession(s)))
    /\ UNCHANGED <<granted, windowVars>>

------------------------------------------------------------------------------
(* Window                                                                     *)

\* A new question replaces the dialog on screen, answered or not.
WindowShows ==
    /\ toWindow # <<>>
    /\ shown' = Head(toWindow)
    /\ toWindow' = Tail(toWindow)
    /\ UNCHANGED <<brokerVars, toMain, agreed>>

UserReplies(ok) ==
    /\ shown # NoRequest
    /\ toMain' = Append(toMain, [id |-> shown, ok |-> ok])
    /\ agreed' = IF ok THEN agreed \cup {shown} ELSE agreed
    /\ shown' = NoRequest
    /\ UNCHANGED <<brokerVars, toWindow>>

PromptNext ==
    \/ \E r \in Questions : Request(r) \/ Timeout(r)
    \/ \E s \in Sessions : CancelForSession(s)
    \/ ReplyArrives
    \/ WindowShows
    \/ \E ok \in BOOLEAN : UserReplies(ok)

\* Timers fire and messages arrive; the user need not answer.
PromptProgress == (\E r \in Questions : Timeout(r)) \/ ReplyArrives \/ WindowShows

PromptFair == WF_promptVars(PromptProgress)

PromptSpec == PromptInit /\ [][PromptNext]_promptVars /\ PromptFair

------------------------------------------------------------------------------
(* Properties                                                                 *)

\* A host key is trusted, or a password sent, only if the user said yes to that
\* very question, however answers, timeouts and the next question cross.
ConsentIsPersonal == granted \subseteq agreed

\* No connection attempt waits for the user for ever.
EveryRequestSettles ==
    \A r \in Questions : (status[r] = "pending") ~> (status[r] = "settled")
==============================================================================
