-------------------------------- MODULE LanSync --------------------------------
(* One transfer of the configuration after another between two computers that *)
(* run lansync/LanSyncManager.ts: the receiver with its pairing code and its  *)
(* single connection slot, and the sender with the promise of its send().     *)
(*                                                                            *)
(* What a frame carries is left out but for whether the code both sides used  *)
(* is the same.  Discovery is left out: the user types the address.           *)
EXTENDS Naturals, Sequences

CONSTANTS
    MaxSends,      \* bound: connections
    MaxReceives    \* bound: times the receiver is switched on

ASSUME LanAssumption == {MaxSends, MaxReceives} \subseteq Nat \ {0}

VARIABLES
    (* receiver *)
    mode,          \* off, starting or on
    showing,       \* receiveState.phase
    slot,          \* receive.socket, 0: null
    confirmed,     \* receive.confirmed
    token,         \* receive.incomingToken is set
    applying,      \* applyIncoming awaits: "no", "mine", or "stale" when the
                   \* receiver was switched off meanwhile
    receives,      \* history, for the bound
    (* sender *)
    sendSession,   \* the connection it holds, 0: null
    sends,         \* connections begun
    pending,       \* those whose promise is not settled
    (* each connection *)
    keyed,         \* the code its user typed; from hello on, the one in the key
    sEnd, rEnd,    \* its sockets
    toReceiver,    \* frame on its way to the receiver
    toSender       \* frames on their way to the sender

receiverVars == <<mode, showing, slot, confirmed, token, applying, receives>>
senderVars == <<sendSession, sends, pending>>
wireVars == <<keyed, sEnd, rEnd, toReceiver, toSender>>
lanVars == <<receiverVars, senderVars, wireVars>>

Connections == 1..MaxSends
UpFrames == {"hello", "confirm-s", "payload"}
DownFrames == {"hello-ack", "confirm-r", "received", "applied", "rejected", "error"}

(* The sender speaks only when it is answered, so one frame at most is on its *)
(* way up; "deriving" stands for a hello whose key is being derived.          *)
LanTypeOK ==
    /\ mode \in {"off", "starting", "on"}
    /\ showing \in {"idle", "waiting", "handshake", "receiving", "incoming",
                    "applying", "done"}
    /\ {slot, sendSession, sends} \subseteq 0..MaxSends
    /\ {confirmed, token} \subseteq BOOLEAN
    /\ slot # 0 \/ confirmed \/ token => mode = "on"
    /\ applying \in {"no", "mine", "stale"}
    /\ receives \in 0..MaxReceives
    /\ pending \subseteq Connections
    /\ keyed \in [Connections -> {"right", "wrong", "old", "same", "other"}]
    /\ sEnd \in [Connections -> {"none", "open", "destroyed", "closed"}]
    /\ rEnd \in [Connections -> {"none", "backlog", "open", "destroyed", "closed"}]
    /\ toReceiver \in [Connections -> UpFrames \cup {"none", "deriving"}]
    /\ toSender \in [Connections -> Seq(DownFrames)]

LanInit ==
    /\ mode = "off" /\ showing = "idle" /\ slot = 0 /\ confirmed = FALSE
    /\ token = FALSE /\ applying = "no" /\ receives = 0
    /\ sendSession = 0 /\ sends = 0 /\ pending = {}
    /\ keyed = [c \in Connections |-> "old"]
    /\ sEnd = [c \in Connections |-> "none"]
    /\ rEnd = [c \in Connections |-> "none"]
    /\ toReceiver = [c \in Connections |-> "none"]
    /\ toSender = [c \in Connections |-> <<>>]

(* What a destroyed end has not read, or not sent, is lost.                   *)
RDestroys(c) ==
    /\ rEnd' = [rEnd EXCEPT ![c] = "destroyed"]
    /\ toReceiver' = [toReceiver EXCEPT ![c] = "none"]
SDestroys(c) ==
    /\ sEnd' = [sEnd EXCEPT ![c] = "destroyed"]
    /\ toSender' = [toSender EXCEPT ![c] = <<>>]
SendsUp(c, frame) ==
    toReceiver' = [toReceiver EXCEPT ![c] = IF rEnd[c] = "open" THEN frame ELSE @]
SendsDown(c, frame) ==
    toSender' = [toSender EXCEPT
                     ![c] = IF sEnd[c] = "open" THEN Append(@, frame) ELSE @]

------------------------------------------------------------------------------
(* The receiver is switched on and off.                                       *)

(* startReceive up to its await; a second call finds starting.                *)
StartReceive ==
    /\ mode = "off" /\ receives < MaxReceives
    /\ mode' = "starting" /\ receives' = receives + 1
    /\ UNCHANGED <<showing, slot, confirmed, token, applying, senderVars,
                   wireVars>>

(* startReceive: the server listens, or cannot.                               *)
ReceiveListens ==
    /\ mode = "starting"
    /\ \/ mode' = "off" /\ UNCHANGED showing
       \/ mode' = "on" /\ showing' = "waiting"
    /\ UNCHANGED <<slot, confirmed, token, applying, receives, senderVars,
                   wireVars>>

\* Variant: only the server is closed.
StopReceiveServerOnly ==
    /\ mode = "on"
    /\ mode' = "off" /\ showing' = "idle"
    /\ keyed' = [c \in Connections |-> "old"]
    /\ UNCHANGED <<slot, confirmed, token, applying, receives, senderVars, sEnd,
                   rEnd, toReceiver, toSender>>

(* stopReceive.  Connections to the closed server can only fail.              *)
StopReceive ==
    /\ mode = "on"
    /\ mode' = "off" /\ showing' = "idle" /\ slot' = 0
    /\ confirmed' = FALSE /\ token' = FALSE
    /\ applying' = IF applying = "mine" THEN "stale" ELSE applying
    /\ keyed' = [c \in Connections |-> "old"]
    /\ IF slot # 0 THEN RDestroys(slot) ELSE UNCHANGED <<rEnd, toReceiver>>
    /\ UNCHANGED <<receives, senderVars, sEnd, toSender>>

(* onIdleTimeout: ten minutes, and ten more while something real is going on. *)
IdleTimeout == showing \notin {"receiving", "incoming", "applying"} /\ StopReceive

(* rotateCode: with the code goes the key pair.                               *)
RotateCode ==
    /\ confirmed' = FALSE /\ token' = FALSE /\ showing' = "waiting"
    /\ keyed' = [c \in Connections |-> IF keyed[c] = "right" THEN "wrong" ELSE keyed[c]]

------------------------------------------------------------------------------
(* The receiver's end of connection c.                                        *)

(* onIncomingConnection: one at a time.                                       *)
OnIncomingConnection(c) ==
    /\ rEnd[c] = "backlog"
    /\ IF mode = "on" /\ keyed[c] # "old" /\ slot = 0
       THEN /\ slot' = c /\ showing' = "handshake"
            /\ rEnd' = [rEnd EXCEPT ![c] = "open"]
            /\ toReceiver' = [toReceiver EXCEPT
                                 ![c] = IF sEnd[c] = "open" THEN "hello" ELSE @]
            /\ UNCHANGED toSender
       ELSE /\ RDestroys(c)
            /\ IF slot # 0 /\ keyed[c] # "old" THEN SendsDown(c, "error")
               ELSE UNCHANGED toSender
            /\ UNCHANGED <<slot, showing>>
    /\ UNCHANGED <<mode, confirmed, token, applying, receives, senderVars,
                   keyed, sEnd>>

(* A frame is looked at only while its connection holds the slot.             *)
Receives(c, frame) ==
    /\ slot = c /\ rEnd[c] = "open" /\ toReceiver[c] = frame
    /\ UNCHANGED <<mode, slot, applying, receives, senderVars, sEnd>>

(* onReceiveFrame, hello: the key is derived in another thread from the code  *)
(* of this moment.                                                            *)
Hello(c) ==
    /\ Receives(c, "hello")
    /\ toReceiver' = [toReceiver EXCEPT ![c] = "deriving"]
    /\ keyed' = [keyed EXCEPT ![c] = IF @ = "right" THEN "same" ELSE "other"]
    /\ UNCHANGED <<showing, confirmed, token, rEnd, toSender>>

Derived(c) ==
    /\ Receives(c, "deriving")
    /\ toReceiver' = [toReceiver EXCEPT ![c] = "none"]
    /\ SendsDown(c, "hello-ack")
    /\ UNCHANGED <<showing, confirmed, token, keyed, rEnd>>

(* onReceiveFrame, confirm-s: a wrong code is used up.                        *)
ConfirmS(c) ==
    /\ Receives(c, "confirm-s")
    /\ IF keyed[c] = "same"
       THEN /\ confirmed' = TRUE /\ showing' = "receiving"
            /\ toReceiver' = [toReceiver EXCEPT ![c] = "none"]
            /\ SendsDown(c, "confirm-r")
            /\ UNCHANGED <<token, keyed, rEnd>>
       ELSE RotateCode /\ RDestroys(c) /\ SendsDown(c, "error")

(* onReceiveFrame, payload: it may be unreadable.                             *)
Payload(c) ==
    /\ Receives(c, "payload")
    /\ \/ /\ confirmed
          /\ token' = TRUE /\ showing' = "incoming"
          /\ toReceiver' = [toReceiver EXCEPT ![c] = "none"]
          /\ SendsDown(c, "received")
          /\ UNCHANGED <<confirmed, keyed, rEnd>>
       \/ confirmed /\ RotateCode /\ RDestroys(c) /\ SendsDown(c, "error")
       \/ ~confirmed /\ RDestroys(c) /\ UNCHANGED <<showing, confirmed, token,
                                                    keyed, toSender>>

(* A socket's 'timeout', or a frame that cannot be read                       *)
ReceiverGivesUp(c) ==
    /\ rEnd[c] = "open"
    /\ RDestroys(c) /\ SendsDown(c, "error")
    /\ UNCHANGED <<receiverVars, senderVars, keyed, sEnd>>

(* 'close' of the receiver's socket                                           *)
RCloses(c) ==
    /\ rEnd[c] = "destroyed" \/ (rEnd[c] = "open" /\ sEnd[c] # "open")
    /\ rEnd' = [rEnd EXCEPT ![c] = "closed"]
    /\ toReceiver' = [toReceiver EXCEPT ![c] = "none"]
    /\ UNCHANGED <<mode, applying, receives, senderVars, sEnd, toSender>>

\* Variant: the phases of the user return before the slot is freed.
OnReceiveSocketClosedLate(c) ==
    /\ RCloses(c)
    /\ IF slot # c \/ showing \in {"incoming", "applying", "done"}
       THEN UNCHANGED <<slot, showing, confirmed, token, keyed>>
       ELSE /\ slot' = 0
            /\ IF confirmed THEN RotateCode
               ELSE showing' = "waiting" /\ UNCHANGED <<confirmed, token,
                                                        keyed>>

(* onReceiveSocketClosed: the phases in which the user is shown something are *)
(* left as they are, and confirmed with them.                                 *)
OnReceiveSocketClosed(c) ==
    /\ RCloses(c)
    /\ slot' = IF slot = c THEN 0 ELSE slot
    /\ IF slot # c \/ showing \in {"incoming", "applying", "done"}
       THEN UNCHANGED <<showing, confirmed, token, keyed>>
       ELSE IF confirmed THEN RotateCode
       ELSE showing' = "waiting" /\ UNCHANGED <<confirmed, token, keyed>>

------------------------------------------------------------------------------
(* The receiver's user, to whom the dialog is open in phase incoming.         *)

ApplyIncoming ==
    /\ showing = "incoming" /\ token /\ applying = "no"
    /\ applying' = "mine" /\ showing' = "applying"
    /\ UNCHANGED <<mode, slot, confirmed, token, receives, senderVars,
                   wireVars>>

(* applyIncoming after its await.  The answer goes to whichever connection    *)
(* holds the slot by then.                                                    *)
Applied ==
    /\ applying # "no"
    /\ applying' = "no" /\ showing' = "done"
    /\ IF applying = "mine"
       THEN /\ token' = FALSE /\ confirmed' = FALSE
            /\ IF slot # 0 /\ rEnd[slot] = "open"
               THEN SendsDown(slot, "applied") ELSE UNCHANGED toSender
       ELSE UNCHANGED <<token, confirmed, toSender>>
    /\ UNCHANGED <<mode, slot, receives, senderVars, keyed, sEnd, rEnd,
                   toReceiver>>

ApplyFails ==
    /\ applying # "no"
    /\ applying' = "no" /\ showing' = "incoming"
    /\ UNCHANGED <<mode, slot, confirmed, token, receives, senderVars,
                   wireVars>>

(* dismissIncoming: the connection leaves the slot before it ends, and        *)
(* nothing that still comes over it is looked at.                             *)
DismissIncoming ==
    /\ showing = "incoming" /\ token
    /\ slot' = 0
    /\ IF slot # 0 /\ rEnd[slot] = "open"
       THEN RDestroys(slot) /\ SendsDown(slot, "rejected")
       ELSE UNCHANGED <<toSender, rEnd, toReceiver>>
    /\ RotateCode
    /\ UNCHANGED <<mode, applying, receives, senderVars, sEnd>>

------------------------------------------------------------------------------
(* The sender.                                                                *)

(* send(), with the code on the receiver's screen or a misread one            *)
Send(typed) ==
    LET c == sends + 1
    IN /\ sendSession = 0 /\ c \in Connections /\ mode = "on"
       /\ sends' = c /\ sendSession' = c
       /\ pending' = pending \cup {c}
       /\ keyed' = [keyed EXCEPT ![c] = typed]
       /\ sEnd' = [sEnd EXCEPT ![c] = "open"]
       /\ UNCHANGED <<receiverVars, rEnd, toReceiver, toSender>>

(* The connection is made; hello waits for the receiver to accept it.         *)
Connected(c) ==
    /\ sEnd[c] = "open" /\ rEnd[c] = "none" /\ mode = "on" /\ keyed[c] # "old"
    /\ rEnd' = [rEnd EXCEPT ![c] = "backlog"]
    /\ UNCHANGED <<receiverVars, senderVars, keyed, sEnd, toReceiver, toSender>>

Arrives(c, frame) ==
    /\ sEnd[c] = "open" /\ toSender[c] # <<>> /\ Head(toSender[c]) = frame
    /\ UNCHANGED <<receiverVars, sends, keyed, rEnd>>

Heeds(c, frame) ==
    /\ Arrives(c, frame)
    /\ toSender' = [toSender EXCEPT ![c] = Tail(@)]
    /\ UNCHANGED sEnd

(* hello-ack, and the derivation of the key that ends with confirm-s          *)
HelloAck(c) ==
    /\ Heeds(c, "hello-ack")
    /\ SendsUp(c, "confirm-s")
    /\ UNCHANGED <<sendSession, pending>>

ConfirmR(c) ==
    /\ Heeds(c, "confirm-r")
    /\ SendsUp(c, "payload")
    /\ UNCHANGED <<sendSession, pending>>

Received(c) ==
    /\ Heeds(c, "received")
    /\ pending' = pending \ {c}
    /\ UNCHANGED <<sendSession, toReceiver>>

(* closeSend, for an answer of the receiver's user and for cancelSend: the    *)
(* promise is settled and the place given up whatever came before.            *)
CloseSend(c) ==
    /\ sendSession' = IF sendSession = c THEN 0 ELSE sendSession
    /\ pending' = pending \ {c}
    /\ SDestroys(c)

Answered(c) ==
    /\ Arrives(c, "applied") \/ Arrives(c, "rejected")
    /\ CloseSend(c)
    /\ UNCHANGED toReceiver

CancelSend(c) ==
    /\ sendSession = c /\ sEnd[c] = "open"
    /\ CloseSend(c)
    /\ UNCHANGED <<receiverVars, sends, keyed, rEnd, toReceiver>>

(* done() with an error: it counts, and frees the place of the sender, only   *)
(* if nothing has settled the promise before.                                 *)
Fails(c) ==
    /\ pending' = pending \ {c}
    /\ sendSession' = IF sendSession = c /\ c \in pending THEN 0 ELSE sendSession

ErrorFrame(c) ==
    /\ Arrives(c, "error")
    /\ Fails(c) /\ SDestroys(c)
    /\ UNCHANGED toReceiver

(* fail(): the socket's timeout, a frame that cannot be read, a connection    *)
(* that cannot be made                                                        *)
SenderGivesUp(c) ==
    /\ sEnd[c] = "open"
    /\ Fails(c) /\ SDestroys(c)
    /\ UNCHANGED <<receiverVars, sends, keyed, rEnd, toReceiver>>

(* 'close' of the sender's socket, after an 'error' or without: alone it      *)
(* frees the place but settles nothing.                                       *)
SocketClosed(c) ==
    /\ sEnd[c] = "destroyed"
       \/ (sEnd[c] = "open" /\ rEnd[c] \in {"destroyed", "closed"})
    /\ sEnd' = [sEnd EXCEPT ![c] = "closed"]
    /\ toSender' = [toSender EXCEPT ![c] = <<>>]
    /\ sendSession' = IF sendSession = c THEN 0 ELSE sendSession
    /\ pending' \in {pending, pending \ {c}}
    /\ UNCHANGED <<receiverVars, sends, keyed, rEnd, toReceiver>>

ReceiverStep(c) ==
    \/ OnIncomingConnection(c)
    \/ Hello(c) \/ Derived(c) \/ ConfirmS(c) \/ Payload(c)
    \/ ReceiverGivesUp(c) \/ OnReceiveSocketClosed(c)

SenderStep(c) ==
    \/ Connected(c) \/ HelloAck(c) \/ ConfirmR(c) \/ Received(c)
    \/ Answered(c) \/ ErrorFrame(c) \/ CancelSend(c)
    \/ SenderGivesUp(c) \/ SocketClosed(c)

LanNext ==
    \/ StartReceive \/ ReceiveListens \/ StopReceive \/ IdleTimeout
    \/ ApplyIncoming \/ Applied \/ ApplyFails \/ DismissIncoming
    \/ \E typed \in {"right", "wrong"} : Send(typed)
    \/ \E c \in Connections : ReceiverStep(c) \/ SenderStep(c)

(* A socket's timeout fires, 'close' follows destroy(), and the idle timer of *)
(* the receiver fires: one of these happens as long as any is due.  Nothing is*)
(* expected of the network or of the users.                                   *)
LanProgress ==
    \/ IdleTimeout
    \/ \E c \in Connections :
        \/ OnReceiveSocketClosed(c) \/ ReceiverGivesUp(c)
        \/ SocketClosed(c) \/ SenderGivesUp(c)

LanFair == WF_lanVars(LanProgress)

LanSpec == LanInit /\ [][LanNext]_lanVars /\ LanFair

------------------------------------------------------------------------------
(* Neither side stays busy or listening for ever: a connection leaves the     *)
(* single slot and the place of the sender however the other end behaves, and *)
(* a receiver nobody switches off closes its port unless there is something   *)
(* for its user to decide (the timers of LanSyncManager.ts:40-46).            *)
LanSettles ==
    /\ \A c \in Connections :
        c \in {slot, sendSession} ~> c \notin {slot, sendSession}
    /\ mode = "on" ~> (mode = "off" \/ showing \in {"incoming", "applying"})
==============================================================================
