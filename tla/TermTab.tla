------------------------------- MODULE TermTab -------------------------------
(* A terminal tab: the shells of its session in the main process, the tab in  *)
(* the window's store, the pane that shows it and the bytes between them      *)
(* (ssh/ShellSession.ts, ipc/term.ipc.ts, stores/useSessionStore.ts,          *)
(* terminal/TerminalPane.tsx, terminal/termRegistry.ts).                      *)
(*                                                                            *)
(* Messages and replies to the window form one queue, except that the reply   *)
(* of session:open may be late by any number of them; calls of the window are *)
(* served in any order, and term:close at once, because all that a delay adds *)
(* is output nobody shows.  Output is counted in units; input, sizes and what *)
(* is written on the screen are left out, and so is what is still on its way  *)
(* to a tab after it was closed.  The window treats authenticating like       *)
(* connecting, and the message that tells them apart is left out.             *)
EXTENDS Session, Sequences, SequencesExt

CONSTANTS
    MaxTerms,      \* bound: terminal ids that are told apart
    MaxPanes,      \* bound: times the pane is mounted
    MaxOutput,     \* bound: units of output of all shells
    MaxErrors,     \* bound: shells whose channel fails
    MaxMail,       \* bound: messages on the way to the window
    FLOW_PAUSE,    \* TERM_FLOW_PAUSE_BYTES and TERM_FLOW_RESUME_BYTES, in units
    FLOW_RESUME

ASSUME TermTabAssumption ==
    /\ {MaxTerms, MaxPanes, MaxMail, FLOW_RESUME} \subseteq Nat \ {0}
    /\ {MaxOutput, MaxErrors, FLOW_PAUSE} \subseteq Nat
    /\ FLOW_RESUME <= FLOW_PAUSE + 1

Terms == 1..MaxTerms
Panes == 1..MaxPanes
None  == 0             \* null, of a terminal or a pane

VARIABLES
    tabOpen,     \* the tab is in the store
    tabState,    \* tab.state
    claimed,     \* tab.sessionId is set
    everReady,   \* tab.everReady
    tabTerm,     \* tab.termId
    effectDue,   \* what the effect that opens shells depends on has changed
    pane,        \* the mounted instance of TerminalPane
    openingRef,  \* its openingRef and
    termRef,     \* its termIdRef
    screens,     \* termRegistry: the instance whose xterm shows a terminal
    openReply,   \* the reply of session:open
    unclaimed,   \* unclaimedState of the session
    openCalls,   \* instances whose term:open is not yet served
    calls,       \* session:reconnect and session:close not yet served
    mail,        \* messages on the way to the window
    shell,       \* what the main process has for each terminal id
    owner,       \* the instance that asked for it
    batched,     \* units batched in the ShellSession
    inFlight,    \* its bytesInFlight
    paused,      \* shells whose channel is paused
    written,     \* units xterm has not parsed and acknowledged
    output,      \* history: units the server sent
    errors       \* history: channels that failed

tabVars  == <<tabOpen, tabState, claimed, everReady, tabTerm, effectDue, unclaimed>>
paneVars == <<pane, openingRef, termRef, screens>>
callVars == <<openCalls, calls>>
mainVars == <<shell, owner, errors>>
flowVars == <<batched, inFlight, paused, written, output>>
termTabVars == <<tabVars, paneVars, callVars, mainVars, flowVars, openReply, mail>>
tabAllVars == <<sessionVars, termTabVars>>

\* opening: asked of the current client; aged: of one that was replaced; lost: of
\* one that has closed.  live, aging: a working shell, of the current client or a
\* replaced one; closing: its 'close' is to come.
ShellStates == {"free", "opening", "aged", "lost", "live", "aging", "closing"}

TabStates == {"connecting", "reconnecting", "ready", "closed"}

Messages ==
    [kind : {"state"}, state : TabStates]
        \cup [kind : {"exit"}, term : Terms, reason : {"closed", "error", "reconnected"}]
        \cup [kind : {"opened"}, term : Terms, pane : Panes]
        \cup [kind : {"refused"}, pane : Panes]
        \cup [kind : {"data"}, term : Terms, units : 1..MaxOutput]

TermTabTypeOK ==
    /\ {tabOpen, claimed, everReady, effectDue, openingRef} \subseteq BOOLEAN
    /\ tabState \in TabStates
    /\ unclaimed \in TabStates \cup {"none"}
    /\ {tabTerm, termRef} \subseteq Terms \cup {None}
    /\ pane \in Panes \cup {None}
    /\ screens \in [Terms -> Panes \cup {None}]
    /\ openReply \in {"none", "resolved", "rejected", "taken"}
    /\ openCalls \subseteq Panes
    /\ calls \subseteq {"reconnect", "close"}
    /\ mail \in Seq(Messages) /\ Len(mail) <= MaxMail
    /\ shell \in [Terms -> ShellStates]
    /\ owner \in [Terms -> Panes \cup {None}]
    /\ {batched, inFlight, written} \subseteq [Terms -> 0..MaxOutput]
    /\ paused \subseteq Terms
    /\ output \in 0..MaxOutput /\ errors \in 0..MaxErrors

\* openForProfile: the tab is there, session:open is called, the pane mounted.
TermTabInit ==
    /\ tabOpen \in BOOLEAN /\ tabState = "connecting" /\ claimed = FALSE
    /\ everReady = FALSE /\ tabTerm = None /\ effectDue = FALSE /\ unclaimed = "none"
    /\ pane = 1 /\ openingRef = FALSE /\ termRef = None
    /\ screens = [t \in Terms |-> None]
    /\ openReply = "none" /\ mail = <<>>
    /\ openCalls = {} /\ calls = {}
    /\ shell = [t \in Terms |-> "free"]
    /\ owner = [t \in Terms |-> None]
    /\ batched = [t \in Terms |-> 0] /\ inFlight = [t \in Terms |-> 0]
    /\ written = [t \in Terms |-> 0] /\ paused = {} /\ output = 0 /\ errors = 0

------------------------------------------------------------------------------
(* The session and its shells, in the main process                            *)

\* Messages are emitted in this order.
Post(messages) ==
    /\ Len(mail) + Len(messages) <= MaxMail
    /\ mail' = mail \o messages

StateEvent(s) == [kind |-> "state", state |-> s]
Exit(t, r) == [kind |-> "exit", term |-> t, reason |-> r]
Data(t) ==
    IF batched[t] = 0 THEN <<>>
    ELSE <<[kind |-> "data", term |-> t, units |-> batched[t]]>>

Working(t) == shell[t] \in {"live", "aging"}

\* Keys of SshConnection.shells.
Shells == {t \in Terms : Working(t) \/ shell[t] = "closing"}

Exits(r) == LET s == SetToSeq(Shells) IN [i \in DOMAIN s |-> Exit(s[i], r)]

\* A shell that has ended is not told from one that never was.
Forget(S) ==
    /\ owner' = [t \in Terms |-> IF t \in S THEN None ELSE owner[t]]
    /\ batched' = [t \in Terms |-> IF t \in S THEN 0 ELSE batched[t]]
    /\ inFlight' = [t \in Terms |-> IF t \in S THEN 0 ELSE inFlight[t]]
    /\ written' = [t \in Terms |-> IF t \in S THEN 0 ELSE written[t]]
    /\ paused' = paused \ S
    /\ UNCHANGED output

\* teardownChannels, and what becomes of the channels that are being opened.
Teardown(fate) ==
    /\ Forget(Shells)
    /\ shell' = [t \in Terms |->
                    IF t \in Shells THEN "free"
                    ELSE IF shell[t] = "opening" THEN fate ELSE shell[t]]

NoTeardown == UNCHANGED <<shell, owner, flowVars>>

SessionStarts ==
    /\ Begin
    /\ Post(<<StateEvent("connecting")>>)
    /\ NoTeardown /\ UNCHANGED openReply

SessionAuthenticates ==
    /\ Authenticate
    /\ NoTeardown /\ UNCHANGED <<openReply, mail>>

TabSessionReady ==
    /\ Ready
    /\ Post(<<StateEvent("ready")>>)
    /\ openReply' = IF openReply = "none" THEN "resolved" ELSE openReply
    /\ NoTeardown

\* An attempt of a retry fails, or the client of a ready session closes.
TabSessionLost ==
    /\ openReply # "none"
    /\ \/ Lose /\ IF state = "ready"
                  THEN Teardown("lost") /\ Post(Append(Exits("reconnected"), StateEvent("reconnecting")))
                  ELSE NoTeardown /\ Post(<<StateEvent("reconnecting")>>)
       \/ GiveUp /\ registered'
            /\ IF state = "ready"
               THEN Teardown("lost") /\ Post(Append(Exits("closed"), StateEvent("closed")))
               ELSE NoTeardown /\ Post(<<StateEvent("closed")>>)
    /\ UNCHANGED openReply

\* The first attempt fails and session:open rejects.
SessionRefused ==
    /\ openReply = "none"
    /\ GiveUp /\ ~registered'
    /\ Post(<<StateEvent("closed")>>)
    /\ openReply' = "rejected"
    /\ NoTeardown

SessionRetries ==
    /\ Retry
    /\ Post(<<StateEvent("connecting")>>)
    /\ NoTeardown /\ UNCHANGED openReply

\* session:reconnect
ServeReconnect ==
    /\ "reconnect" \in calls
    /\ Again
    /\ calls' = calls \ {"reconnect"}
    /\ Teardown("aged")
    /\ Post(Append(Exits("reconnected"), StateEvent("connecting")))

\* session:close: SshConnectionManager.close forgets the terminals itself.
ServeClose ==
    /\ "close" \in calls
    /\ End
    /\ calls' = {}
    /\ shell' = [t \in Terms |-> "free"]
    /\ Forget(Terms)
    /\ mail' = <<>>

\* A termId is a new random id: here one that nothing refers to any more.  An
\* entry of the registry that no pane can reach is not told from none.
Unused(t) ==
    /\ shell[t] = "free"
    /\ t \notin {tabTerm, termRef}
    /\ \A i \in DOMAIN mail : "term" \in DOMAIN mail[i] => mail[i].term # t

\* term:open up to the channel request, or its refusal.
ServeOpen(p) ==
    /\ p \in openCalls
    /\ openCalls' = openCalls \ {p}
    /\ \/ /\ ~(registered /\ state = "ready")
          /\ Post(<<[kind |-> "refused", pane |-> p]>>)
          /\ UNCHANGED <<shell, owner>>
       \/ /\ registered /\ state = "ready"
          /\ \E t \in Terms :
                /\ Unused(t) /\ \A u \in 1..(t - 1) : ~Unused(u)
                /\ shell' = [shell EXCEPT ![t] = "opening"]
                /\ owner' = [owner EXCEPT ![t] = p]
          /\ UNCHANGED mail

\* The channel is open: the shell is registered and the call answered.
ShellOpens(t) ==
    /\ shell[t] \in {"opening", "aged"}
    /\ shell' = [shell EXCEPT ![t] = IF shell[t] = "opening" THEN "live" ELSE "aging"]
    /\ Post(<<[kind |-> "opened", term |-> t, pane |-> owner[t]]>>)
    /\ UNCHANGED <<owner, flowVars>>

ShellRefused(t) ==
    /\ shell[t] \in {"opening", "aged", "lost"}
    /\ shell' = [shell EXCEPT ![t] = "free"]
    /\ Post(<<[kind |-> "refused", pane |-> owner[t]]>>)
    /\ Forget({t})

\* 'close' of the channel: the shell ended, term:close, the end of an old client.
ShellCloses(t) ==
    /\ t \in Shells
    /\ shell' = [shell EXCEPT ![t] = "free"]
    /\ Post(Append(Data(t), Exit(t, "closed")))
    /\ Forget({t})

\* 'error' of the channel: what is batched is not flushed.
ShellErrs(t) ==
    /\ t \in Shells
    /\ errors < MaxErrors
    /\ errors' = errors + 1
    /\ shell' = [shell EXCEPT ![t] = "free"]
    /\ Post(<<Exit(t, "error")>>)
    /\ Forget({t})

------------------------------------------------------------------------------
(* ShellSession: batches and back-pressure                                    *)

ChannelData(t) ==
    /\ Working(t) /\ t \notin paused
    /\ output < MaxOutput
    /\ output' = output + 1
    /\ batched' = [batched EXCEPT ![t] = @ + 1]
    /\ UNCHANGED <<inFlight, paused, written, mail>>

\* The flush timer, or a full batch.
FlushNow(t) ==
    /\ Working(t) /\ batched[t] > 0
    /\ Post(Data(t))
    /\ batched' = [batched EXCEPT ![t] = 0]
    /\ inFlight' = [inFlight EXCEPT ![t] = @ + batched[t]]
    /\ paused' = IF inFlight'[t] > FLOW_PAUSE THEN paused \cup {t} ELSE paused
    /\ UNCHANGED <<written, output>>

\* Variant: the level is looked at before the acknowledgement is counted.
AckLate(t) ==
    /\ written[t] > 0 /\ screens[t] = pane
    /\ written' = [written EXCEPT ![t] = 0]
    /\ inFlight' = [inFlight EXCEPT ![t] = @ - written[t]]
    /\ paused' = IF inFlight[t] < FLOW_RESUME THEN paused \ {t} ELSE paused
    /\ UNCHANGED <<batched, output, mail>>

\* xterm has parsed what was written, and term:flow-ack reaches the ShellSession;
\* an xterm that was disposed of with its pane parses no more.
Ack(t) ==
    /\ written[t] > 0 /\ screens[t] = pane
    /\ written' = [written EXCEPT ![t] = 0]
    /\ inFlight' = [inFlight EXCEPT ![t] = @ - written[t]]
    /\ paused' = IF inFlight'[t] < FLOW_RESUME THEN paused \ {t} ELSE paused
    /\ UNCHANGED <<batched, output, mail>>

------------------------------------------------------------------------------
(* The window                                                                 *)

Receive(kind) ==
    /\ mail # <<>>
    /\ mail[1].kind = kind
    /\ mail' = Tail(mail)

\* Variant: a tab that gets its session id is taken for ready.
ClaimSessionAsReady ==
    /\ openReply = "resolved"
    /\ openReply' = "taken"
    /\ IF tabOpen
       THEN /\ claimed' = TRUE
            /\ tabState' = "ready"
            /\ everReady' = TRUE
            /\ effectDue' = TRUE
       ELSE UNCHANGED <<claimed, tabState, everReady, effectDue>>
    /\ unclaimed' = "none"
    /\ UNCHANGED <<tabOpen, tabTerm>>

\* claimSession: the reply of session:open.
ClaimSession ==
    /\ openReply = "resolved"
    /\ openReply' = "taken"
    /\ IF tabOpen
       THEN /\ claimed' = TRUE
            /\ tabState' = IF unclaimed = "none" THEN "ready" ELSE unclaimed
            /\ everReady' = (tabState' = "ready")
            /\ effectDue' = TRUE
       ELSE UNCHANGED <<claimed, tabState, everReady, effectDue>>
    /\ unclaimed' = "none"
    /\ UNCHANGED <<tabOpen, tabTerm>>

OpenRejected ==
    /\ openReply = "rejected"
    /\ openReply' = "taken"
    /\ tabState' = IF tabOpen THEN "closed" ELSE tabState
    /\ UNCHANGED <<tabOpen, claimed, everReady, tabTerm, effectDue, unclaimed>>

\* session:state
OnSessionState ==
    /\ Receive("state")
    /\ LET s == mail[1].state
       IN  IF tabOpen /\ claimed
           THEN /\ tabState' = s
                /\ everReady' = (everReady \/ s = "ready")
                /\ effectDue' = (effectDue \/ tabState # s
                                    \/ (s = "ready" /\ everReady /\ tabTerm = None))
                /\ UNCHANGED unclaimed
           ELSE /\ unclaimed' = s
                /\ UNCHANGED <<tabState, everReady, effectDue>>
    /\ UNCHANGED <<tabOpen, claimed, tabTerm>>

\* The registry keeps its entry; no message about the terminal comes any more.
Forgotten(t) == screens' = [screens EXCEPT ![t] = None]

\* Variant: the tab keeps the terminal that has ended.
OnTermExitKeeping ==
    /\ Receive("exit")
    /\ Forgotten(mail[1].term)
    /\ LET m == mail[1]
       IN  IF tabOpen /\ tabTerm = m.term
           THEN /\ tabState' = IF m.reason = "closed" /\ tabState = "ready" THEN "closed" ELSE tabState
                /\ effectDue' = TRUE
           ELSE UNCHANGED <<tabState, effectDue>>
    /\ UNCHANGED <<tabOpen, claimed, everReady, unclaimed, tabTerm>>

\* term:exit
OnTermExit ==
    /\ Receive("exit")
    /\ Forgotten(mail[1].term)
    /\ LET m == mail[1]
       IN  IF tabOpen /\ tabTerm = m.term
           THEN /\ tabTerm' = None
                /\ tabState' = IF m.reason = "closed" /\ tabState = "ready" THEN "closed" ELSE tabState
                /\ effectDue' = TRUE
           ELSE UNCHANGED <<tabTerm, tabState, effectDue>>
    /\ UNCHANGED <<tabOpen, claimed, everReady, unclaimed>>

\* term:open resolves, in the instance that called it.
OnTermOpened ==
    /\ Receive("opened")
    /\ LET t == mail[1].term
           p == mail[1].pane
       IN  /\ screens' = [screens EXCEPT ![t] = p]
           /\ IF p = pane
              THEN termRef' = t /\ openingRef' = FALSE
              ELSE UNCHANGED <<termRef, openingRef>>
           /\ IF tabOpen
              THEN tabTerm' = t /\ effectDue' = TRUE
              ELSE UNCHANGED <<tabTerm, effectDue>>
    /\ UNCHANGED <<pane, tabOpen, tabState, claimed, everReady, unclaimed>>

\* term:open rejects.
OnTermRefused ==
    /\ Receive("refused")
    /\ openingRef' = IF mail[1].pane = pane THEN FALSE ELSE openingRef
    /\ IF tabOpen
       THEN tabState' = "closed" /\ effectDue' = (effectDue \/ tabState # "closed")
       ELSE UNCHANGED <<tabState, effectDue>>
    /\ UNCHANGED <<pane, termRef, screens, tabOpen, claimed, everReady, tabTerm, unclaimed>>

\* term:data: dropped for a terminal nobody registered.
OnTermData ==
    /\ Receive("data")
    /\ LET t == mail[1].term
       IN  written' = IF screens[t] = None \/ ~Working(t) THEN written
                      ELSE [written EXCEPT ![t] = @ + mail[1].units]
    /\ UNCHANGED <<batched, inFlight, paused, output>>

OpenWanted == tabState = "ready" /\ tabTerm = None /\ claimed

\* The effect of TerminalPane that opens a shell.
ShellEffect ==
    /\ effectDue
    /\ effectDue' = FALSE
    /\ IF tabOpen /\ OpenWanted /\ ~openingRef
       THEN openingRef' = TRUE /\ openCalls' = openCalls \cup {pane}
       ELSE UNCHANGED <<openingRef, openCalls>>
    /\ UNCHANGED <<tabOpen, tabState, claimed, everReady, tabTerm, unclaimed,
                   pane, termRef, screens, calls>>

\* The cleanup of the pane, and SshConnectionManager.closeTerm.
Unmount ==
    IF termRef = None
    THEN UNCHANGED <<screens, shell, tabTerm>>
    ELSE /\ screens' = [screens EXCEPT ![termRef] = None]
         /\ shell' = [shell EXCEPT ![termRef] = IF Working(termRef) THEN "closing" ELSE @]
         /\ tabTerm' = IF tabTerm = termRef THEN None ELSE tabTerm

\* The pane is mounted afresh; its effect sees the tab as it was rendered, and
\* again when the cleanup of the old instance has changed it.
Remount ==
    /\ tabOpen /\ pane < MaxPanes /\ ~openingRef
    /\ pane' = pane + 1
    /\ Unmount
    /\ termRef' = None
    /\ openingRef' = OpenWanted
    /\ openCalls' = IF OpenWanted THEN openCalls \cup {pane'} ELSE openCalls
    /\ effectDue' = (tabTerm' # tabTerm)
    /\ UNCHANGED <<tabOpen, tabState, claimed, everReady, unclaimed, calls>>

\* reconnectTab, from the pane or the menu of the tab.
ReconnectTab ==
    /\ tabOpen /\ claimed /\ calls = {}
    /\ tabState \in {"ready", "reconnecting", "closed"}
    /\ tabState' = "connecting"
    /\ effectDue' = TRUE
    /\ calls' = {"reconnect"}
    /\ UNCHANGED <<tabOpen, claimed, everReady, tabTerm, unclaimed, paneVars,
                   openCalls, shell>>

\* closeTab; a tab that has no session id yet has nothing to close.
CloseTab ==
    /\ tabOpen
    /\ tabOpen' = FALSE
    /\ Unmount
    /\ pane' = None
    /\ termRef' = None
    /\ openingRef' = FALSE
    /\ calls' = IF claimed THEN calls \cup {"close"} ELSE calls
    /\ effectDue' = FALSE
    /\ UNCHANGED <<tabState, claimed, everReady, unclaimed, openCalls>>

------------------------------------------------------------------------------
(* Specification                                                              *)

SessionSteps ==
    /\ \/ SessionStarts \/ SessionAuthenticates \/ TabSessionReady
       \/ TabSessionLost \/ SessionRefused \/ SessionRetries
    /\ UNCHANGED <<tabVars, paneVars, callVars, errors>>

SessionCalls ==
    /\ ServeReconnect \/ ServeClose
    /\ UNCHANGED <<tabVars, paneVars, openCalls, openReply, errors>>

ShellSteps(t) ==
    /\ \/ (ShellOpens(t) \/ ShellRefused(t) \/ ShellCloses(t)) /\ UNCHANGED errors
       \/ ShellErrs(t)
    /\ UNCHANGED <<sessionVars, tabVars, paneVars, callVars, openReply>>

ShellCalls ==
    /\ \E p \in Panes : ServeOpen(p)
    /\ UNCHANGED <<sessionVars, tabVars, paneVars, calls, flowVars, openReply, errors>>

FlowSteps(t) ==
    /\ FlushNow(t) \/ Ack(t)
    /\ UNCHANGED <<sessionVars, tabVars, paneVars, callVars, mainVars, openReply>>

Output ==
    /\ \E t \in Terms : ChannelData(t)
    /\ UNCHANGED <<sessionVars, tabVars, paneVars, callVars, mainVars, openReply>>

OpenReplies ==
    /\ ClaimSession \/ OpenRejected
    /\ UNCHANGED <<sessionVars, paneVars, callVars, mainVars, flowVars, mail>>

MailSteps ==
    \/ /\ OnSessionState
       /\ UNCHANGED <<sessionVars, paneVars, callVars, mainVars, flowVars, openReply>>
    \/ /\ OnTermExit
       /\ UNCHANGED <<sessionVars, pane, openingRef, termRef, callVars, mainVars,
                      flowVars, openReply>>
    \/ /\ OnTermOpened \/ OnTermRefused
       /\ UNCHANGED <<sessionVars, callVars, mainVars, flowVars, openReply>>
    \/ /\ OnTermData
       /\ UNCHANGED <<sessionVars, tabVars, paneVars, callVars, mainVars, openReply>>

Effects ==
    /\ ShellEffect
    /\ UNCHANGED <<sessionVars, mainVars, flowVars, openReply, mail>>

WindowSteps ==
    /\ Remount \/ ReconnectTab \/ CloseTab
    /\ UNCHANGED <<sessionVars, owner, errors, flowVars, openReply, mail>>

TermTabNext ==
    \/ /\ tabOpen
       /\ \/ SessionSteps \/ ShellCalls
          \/ \E t \in Terms : ShellSteps(t) \/ FlowSteps(t)
          \/ Output \/ OpenReplies \/ MailSteps \/ Effects \/ WindowSteps
    \/ SessionCalls

\* Messages, replies and calls arrive; timers fire; xterm parses; React runs its
\* effects; ssh2 answers a channel request and closes what was ended.
TermTabFair ==
    /\ WF_tabAllVars(SessionCalls)
    /\ WF_tabAllVars(tabOpen /\ ShellCalls)
    /\ WF_tabAllVars(tabOpen /\ OpenReplies)
    /\ WF_tabAllVars(tabOpen /\ MailSteps)
    /\ WF_tabAllVars(tabOpen /\ Effects)
    /\ \A t \in Terms :
        /\ WF_tabAllVars(tabOpen /\ FlowSteps(t))
        /\ WF_tabAllVars(tabOpen /\ shell[t] \notin {"live", "free"} /\ ShellSteps(t))

------------------------------------------------------------------------------
(* Properties                                                                 *)

\* A tab never goes on showing a session in a state it has left: with no message,
\* reply or call on the way it shows the state of the session, or that it ended.
TabTellsTruth ==
    (tabOpen /\ claimed /\ mail = <<>> /\ calls = {}) =>
        \/ tabState \in {state, "closed"}
        \/ tabState = "connecting" /\ state = "authenticating"

ShowsTerminal == tabTerm # None /\ Working(tabTerm) /\ screens[tabTerm] = pane

\* A tab of a session that is ready gets a terminal whose output it shows, or
\* shows the user that there is none: after a reconnect, an exit or a remount it
\* is never left blank with a terminal that has ended.
TabGetsTerminal ==
    (tabOpen /\ claimed /\ state = "ready") ~>
        (ShowsTerminal \/ tabState = "closed" \/ state # "ready" \/ ~tabOpen)

\* A channel that was paused because the window was slow is resumed when the
\* window has caught up: output of the terminal screens never stops for good.
OutputFlows ==
    (ShowsTerminal /\ tabTerm \in paused) ~> ~(ShowsTerminal /\ tabTerm \in paused)
==============================================================================
