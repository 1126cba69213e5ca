------------------------------- MODULE RdpFrames -------------------------------
(* The framebuffer path of one running remote desktop: the ledger of          *)
(* rdp/RdpSessionManager.ts (at most two frames in flight, the others queued, *)
(* the worker's stdout paused), the MessagePort that preload/index.ts makes,  *)
(* and RdpCanvasRenderer of renderer/.../RdpPane.tsx.                         *)
(*                                                                            *)
(* A frame holds dirty rectangles, so every one of them has to be painted.    *)
(* Frames are their sequence numbers, 1 being the first.  postMessage does    *)
(* not fail here, and no frame is without rectangles.                         *)
EXTENDS Ordering

CONSTANTS
    MAX_IN_FLIGHT_FRAMES,
    MaxFrames,      \* bound: frames the worker sends
    MaxPorts,       \* bound: MessagePorts the pane connects
    MaxRenderers,   \* bound: times the pane makes a renderer anew
    MaxExpiries,    \* bound: acknowledgements that come late
    MaxFailures     \* bound: paints that throw

ASSUME RdpFramesAssumption ==
    /\ MAX_IN_FLIGHT_FRAMES \in Nat \ {0}
    /\ {MaxFrames, MaxPorts, MaxRenderers, MaxExpiries, MaxFailures} \subseteq Nat

VARIABLES
    running,     \* isRunning(session)
    read,        \* lastFrameSequence
    queued,      \* queuedFrames
    inFlight,    \* keys of pendingPortFrames
    paused,      \* stdoutPaused
    port,        \* session.port, 0: none
    attached,    \* connect messages main has handled
    connected,   \* ports the pane has made; the last one is its own
    mounted,     \* its own port is not disposed of
    down,        \* frames on their way to the pane
    acks,        \* acknowledgements on their way back
    frameQueue,  \* the renderer's, each frame with the port it came on
    latestSequence, renderedSequence,
    painted,     \* history: frames on the canvas
    discarded,   \* history: frames acknowledged by a renderer's dispose
    renderers, expiries, failures   \* history, for the bounds

framesVars == <<running, read, queued, inFlight, paused, port, attached,
                connected, mounted, down, acks, frameQueue, latestSequence,
                renderedSequence, painted, discarded, renderers, expiries,
                failures>>
ledgerVars == <<queued, inFlight, paused>>
rendererVars == <<frameQueue, latestSequence, renderedSequence>>
historyVars == <<painted, discarded, renderers, expiries, failures>>

Frames == 1..MaxFrames

FramesTypeOK ==
    /\ {running, paused, mounted} \subseteq BOOLEAN
    /\ {read, latestSequence, renderedSequence} \subseteq 0..MaxFrames
    /\ {queued, down, acks} \subseteq Seq(Frames)
    /\ frameQueue \in Seq([frame: Frames, port: 1..MaxPorts])
    /\ inFlight \subseteq Frames
    /\ Cardinality(inFlight) <= MAX_IN_FLIGHT_FRAMES
    /\ {port, attached, connected} \subseteq 0..MaxPorts
    /\ painted \subseteq Frames /\ discarded \subseteq Frames
    /\ renderers \in 0..MaxRenderers
    /\ expiries \in 0..MaxExpiries /\ failures \in 0..MaxFailures

FramesInit ==
    /\ running = TRUE /\ read = 0 /\ queued = <<>> /\ inFlight = {}
    /\ paused = FALSE /\ port = 0 /\ attached = 0 /\ connected = 0
    /\ mounted = FALSE /\ down = <<>> /\ acks = <<>>
    /\ frameQueue = <<>> /\ latestSequence = 0 /\ renderedSequence = 0
    /\ painted = {} /\ discarded = {} /\ renderers = 0 /\ expiries = 0
    /\ failures = 0

------------------------------------------------------------------------------
(* Main process.                                                              *)

(* What main posts on port p reaches the pane if p is still the pane's own.   *)
Posted(p, frames) ==
    down' = IF p = connected /\ mounted THEN down \o frames ELSE down

(* pumpFrames with frames waiting in q and others in flight: it fills the     *)
(* flight, and reading goes on if nothing is left to send and there is room.  *)
Pump(p, q, flying) ==
    LET room == MAX_IN_FLIGHT_FRAMES - Cardinality(flying)
        n == IF room < Len(q) THEN room ELSE Len(q)
        sent == SubSeq(q, 1, n)
    IN /\ inFlight' = flying \cup ToSet(sent)
       /\ queued' = SubSeq(q, n + 1, Len(q))
       /\ paused' = (queued' # <<>> \/ Cardinality(inFlight') >= MAX_IN_FLIGHT_FRAMES)
       /\ Posted(p, sent)

(* queueFrame, for the next frame on the worker's stdout                      *)
ReadFrame ==
    /\ running /\ ~paused /\ read < MaxFrames
    /\ read' = read + 1
    /\ IF port = 0 \/ Cardinality(inFlight) >= MAX_IN_FLIGHT_FRAMES
       THEN /\ queued' = Append(queued, read')
            /\ paused' = TRUE
            /\ UNCHANGED <<inFlight, down>>
       ELSE /\ inFlight' = inFlight \cup {read'}
            /\ paused' = (Cardinality(inFlight') >= MAX_IN_FLIGHT_FRAMES)
            /\ Posted(port, <<read'>>)
            /\ UNCHANGED queued
    /\ UNCHANGED <<running, port, attached, connected, mounted, acks,
                   rendererVars, historyVars>>

(* The port's 'message'.  An acknowledgement of a frame that is not in flight *)
(* is ignored, without a pump.                                                *)
OnFrameAck ==
    /\ running /\ acks # <<>> /\ port = connected
    /\ acks' = Tail(acks)
    /\ IF Head(acks) \in inFlight
       THEN Pump(port, queued, inFlight \ {Head(acks)})
       ELSE UNCHANGED <<ledgerVars, down>>
    /\ UNCHANGED <<running, read, port, attached, connected, mounted,
                   rendererVars, historyVars>>

(* expireFrame: half a second without an acknowledgement; the frame goes back *)
(* in order and is sent again.                                                *)
ExpireFrame(f) ==
    /\ running /\ f \in inFlight /\ expiries < MaxExpiries
    /\ expiries' = expiries + 1
    /\ Pump(port, Sorted(ToSet(queued) \cup {f}), inFlight \ {f})
    /\ UNCHANGED <<running, read, port, attached, connected, mounted, acks,
                   rendererVars, painted, discarded, renderers, failures>>

(* clearFrameLedger(session, true)                                            *)
Reclaimed == Sorted(ToSet(queued) \cup inFlight)

\* Variant: A port attached without a pump.
AttachPortOnly ==
    /\ attached < connected
    /\ attached' = attached + 1
    /\ IF running
       THEN port' = attached' /\ queued' = Reclaimed /\ inFlight' = {}
       ELSE UNCHANGED <<port, queued, inFlight>>
    /\ UNCHANGED <<running, read, paused, connected, mounted, down, acks,
                   rendererVars, historyVars>>

(* attachPort: connect messages come in the order they were sent.             *)
AttachPort ==
    /\ attached < connected
    /\ attached' = attached + 1
    /\ IF running
       THEN port' = attached' /\ Pump(attached', Reclaimed, {})
       ELSE UNCHANGED <<port, ledgerVars, down>>
    /\ UNCHANGED <<running, read, connected, mounted, acks, rendererVars,
                   historyVars>>

\* Variant: A closed port whose frames in flight are forgotten.
OnPortClosedForgetting ==
    /\ running /\ port # 0
    /\ port < connected \/ ~mounted
    /\ port' = 0
    /\ inFlight' = {}
    /\ paused' = TRUE
    /\ UNCHANGED <<running, read, queued, attached, connected, mounted, down,
                   acks, rendererVars, historyVars>>

(* The port's 'close', after the pane has disposed of it                      *)
OnPortClosed ==
    /\ running /\ port # 0
    /\ port < connected \/ ~mounted
    /\ port' = 0
    /\ queued' = Reclaimed
    /\ inFlight' = {}
    /\ paused' = TRUE
    /\ UNCHANGED <<running, read, attached, connected, mounted, down, acks,
                   rendererVars, historyVars>>

(* beginClose, finishClose: what was queued or in flight is dropped.          *)
EndSession ==
    /\ running
    /\ running' = FALSE
    /\ queued' = <<>> /\ inFlight' = {} /\ paused' = FALSE /\ port' = 0
    /\ UNCHANGED <<read, attached, connected, mounted, down, acks,
                   rendererVars, historyVars>>

------------------------------------------------------------------------------
(* The pane.                                                                  *)

(* connectRdpPort disposes of the port before; what travels on that is lost.  *)
Connect ==
    /\ connected < MaxPorts
    /\ connected' = connected + 1
    /\ mounted' = TRUE
    /\ down' = <<>> /\ acks' = <<>>
    /\ UNCHANGED <<running, read, ledgerVars, port, attached, rendererVars,
                   historyVars>>

Disconnect ==
    /\ mounted
    /\ mounted' = FALSE
    /\ down' = <<>> /\ acks' = <<>>
    /\ UNCHANGED <<running, read, ledgerVars, port, attached, connected,
                   rendererVars, historyVars>>

(* The ack function of a frame writes to the port the frame came on, and to   *)
(* no other: once that is disposed of it does nothing.                        *)
Acknowledged(items) ==
    LET heard == At(items, {i \in DOMAIN items : mounted /\ items[i].port = connected})
    IN acks \o [n \in DOMAIN heard |-> heard[n].frame]

FramesOf(items) == {item.frame : item \in ToSet(items)}

(* enqueue                                                                    *)
Deliver ==
    /\ down # <<>>
    /\ down' = Tail(down)
    /\ IF Head(down) <= latestSequence
       THEN acks' = Append(acks, Head(down)) /\ UNCHANGED rendererVars
       ELSE /\ frameQueue' = Append(frameQueue,
                              [frame |-> Head(down), port |-> connected])
            /\ latestSequence' = Head(down)
            /\ UNCHANGED <<renderedSequence, acks>>
    /\ UNCHANGED <<running, read, ledgerVars, port, attached, connected,
                   mounted, historyVars>>

(* The callback of schedule: one batch.                                       *)
Paint ==
    /\ frameQueue # <<>>
    /\ painted' = painted \cup FramesOf(frameQueue)
    /\ renderedSequence' = Last(frameQueue).frame
    /\ acks' = Acknowledged(frameQueue)
    /\ frameQueue' = <<>>
    /\ UNCHANGED <<running, read, ledgerVars, port, attached, connected,
                   mounted, down, latestSequence, discarded, renderers,
                   expiries, failures>>

(* paint throws: the batch stays queued, and copies of its frames are taken   *)
(* in again from now on.                                                      *)
PaintFails ==
    /\ frameQueue # <<>> /\ failures < MaxFailures
    /\ failures' = failures + 1
    /\ latestSequence' = renderedSequence
    /\ UNCHANGED <<running, read, ledgerVars, port, attached, connected,
                   mounted, down, acks, frameQueue, renderedSequence, painted,
                   discarded, renderers, expiries>>

(* The effect on tab.state: the renderer is disposed of, which acknowledges   *)
(* what it had not painted, and a new one starts counting from nothing.       *)
RecreateRenderer ==
    /\ renderers < MaxRenderers
    /\ renderers' = renderers + 1
    /\ discarded' = discarded \cup FramesOf(frameQueue)
    /\ acks' = Acknowledged(frameQueue)
    /\ frameQueue' = <<>> /\ latestSequence' = 0 /\ renderedSequence' = 0
    /\ UNCHANGED <<running, read, ledgerVars, port, attached, connected,
                   mounted, down, painted, expiries, failures>>

FramesNext ==
    \/ ReadFrame
    \/ OnFrameAck
    \/ \E f \in Frames : ExpireFrame(f)
    \/ AttachPort
    \/ OnPortClosed
    \/ EndSession
    \/ Connect
    \/ Disconnect
    \/ Deliver
    \/ Paint
    \/ PaintFails
    \/ RecreateRenderer

(* Messages arrive, the worker goes on drawing and the browser goes on        *)
(* painting: one of these happens as long as any can.  Nothing is expected of *)
(* the acknowledgement timer, nor of the pane as to when it connects.         *)
FramesProgress ==
    ReadFrame \/ OnFrameAck \/ AttachPort \/ OnPortClosed \/ Deliver \/ Paint

FramesFair == WF_framesVars(FramesProgress)

FramesSpec == FramesInit /\ [][FramesNext]_framesVars /\ FramesFair

------------------------------------------------------------------------------
(* "Every frame must remain in order; dropping an intermediate frame leaves   *)
(* stale or black regions" (the comment at RdpSessionManager.ts:580): a frame *)
(* that was read is held by main, held by the renderer, on the canvas, or was *)
(* discarded with a renderer, whatever ports come and go, whichever copies    *)
(* arrive twice, and although the renderer acknowledges a copy it takes for   *)
(* an old one without looking at it.                                          *)
NothingLost ==
    running => 1..read \subseteq ToSet(queued) \cup inFlight
                                 \cup FramesOf(frameQueue) \cup painted \cup discarded

(* Back-pressure never wedges the picture: once the session and the pane stay *)
(* as they are, every frame of the worker reaches the canvas (or was          *)
(* discarded with a renderer), so stdout never stays paused for good.         *)
FramesFlow ==
    <>[](running /\ mounted) =>
        <>(Frames \subseteq painted \cup discarded)

==============================================================================
