------------------------------- MODULE Monitor -------------------------------
(* The server monitor of one SSH session: a MonitorCollector and its entry in *)
(* the MonitorManager (monitor/MonitorCollector.ts, monitor/MonitorManager.ts)*)
(* as the session is lost and re-established under it.                        *)
(*                                                                            *)
(* start() runs again for every new channel: it awaits the channel, then the  *)
(* answer to a first frame (the static information), then samples on a timer. *)
(* Several activations may await a channel at once; the last to get one owns  *)
(* this.channel and pendingFrame, and the one before it never settles.        *)
(* Every static frame has the number 0, so the timer of one that was given up *)
(* may find the frame of a later start and drop it.  The timer of a sample    *)
(* given up finds no frame of its number, and is left out; so are the content *)
(* of the samples and the direct ping.                                        *)
EXTENDS Session

CONSTANTS
    MAX_CONSECUTIVE_FAILURES,
    Linux,        \* the server answers the first frame as a Linux machine
    MaxKills,     \* bound: channels the server closes by itself
    MaxPending    \* timers and requests beyond this many are not told apart

ASSUME MonitorAssumption ==
    /\ MAX_CONSECUTIVE_FAILURES \in Nat \ {0}
    /\ Linux \in BOOLEAN
    /\ MaxKills \in Nat
    /\ MaxPending \in Nat \ {0}

VARIABLES
    collector,    \* none; live; stopped (its flag stopped)
    status,       \* the last monitor:state emitted
    first,        \* the first start(), which MonitorManager.start awaits
    openings,     \* restarts whose channel was asked of the current client
    doomed,       \* restarts whose channel was asked of a lost one
    channel,      \* this.channel: none, live, or dead with its 'close' to come
    frame,        \* pendingFrame: none, the static frame, a sample
    ownTimer,     \* this.frameTimer runs and is a static frame's
    oldTimers,    \* static frames' timers that run and that nothing refers to
    ticker,       \* tickTimer is set
    retries,      \* 5 s timers of onChannelClosed
    failures,     \* consecutive failures
    kills,        \* history: channels the server closed
    robbed        \* history: an old timer dropped the frame of the last start

frameTimers == <<ownTimer, oldTimers, robbed>>

monitorVars == <<collector, status, first, openings, doomed, channel, frame,
                 ticker, retries, failures, kills, frameTimers>>

MonitorTypeOK ==
    /\ collector \in {"none", "live", "stopped"}
    /\ status \in {"none", "running", "unsupported", "failed", "stopped"}
    /\ first \in {"none", "opening", "doomed"}
    /\ {openings, doomed, retries, oldTimers} \subseteq 0..MaxPending
    /\ {ownTimer, robbed} \subseteq BOOLEAN
    /\ channel \in {"none", "live", "dead"}
    /\ frame \in {"none", "static", "sample"}
    /\ ticker \in BOOLEAN
    /\ failures \in 0..MAX_CONSECUTIVE_FAILURES
    /\ kills \in 0..MaxKills

MonitorInit ==
    /\ collector = "none" /\ status = "none"
    /\ first = "none" /\ openings = 0 /\ doomed = 0
    /\ channel = "none" /\ frame = "none"
    /\ ticker = FALSE /\ retries = 0 /\ failures = 0 /\ kills = 0
    /\ ownTimer = FALSE /\ oldTimers = 0 /\ robbed = FALSE

More(n) == IF n < MaxPending THEN n + 1 ELSE n

------------------------------------------------------------------------------
(* MonitorCollector                                                           *)

\* request() sets this.frameTimer, for a static frame or not: the timer that was
\* there goes on, and nothing can clear it any more.
TimerReplaced(static) ==
    /\ ownTimer' = static
    /\ oldTimers' = IF ownTimer THEN More(oldTimers) ELSE oldTimers

\* The timer in this.frameTimer is cleared; those before it go on.
TimerCleared == ownTimer' = FALSE /\ UNCHANGED oldTimers

\* onFailure: a collector that failed too often pauses.  Written for the ticker
\* value t the caller leaves, and the status s.
Failure(t, s) ==
    IF collector = "stopped"
    THEN ticker' = t /\ status' = s /\ UNCHANGED failures
    ELSE LET n == IF failures < MAX_CONSECUTIVE_FAILURES THEN failures + 1 ELSE failures
             failed == n = MAX_CONSECUTIVE_FAILURES
         IN  /\ failures' = n
             /\ ticker' = (t /\ ~failed)
             /\ status' = IF failed THEN "failed" ELSE s

\* The user opens the panel: MonitorManager.start.
StartMonitor ==
    /\ registered /\ state = "ready"
    /\ collector = "none"
    /\ collector' = "live"
    /\ first' = "opening"
    /\ UNCHANGED <<status, openings, doomed, channel, frame, ticker, retries, failures, kills,
                   frameTimers>>

\* start() goes on with its channel and writes the static frame; nothing looks
\* at stopped, or at a channel that another activation got in the meantime.
ChannelOpened ==
    /\ state = "ready"
    /\ \/ first = "opening" /\ first' = "none" /\ UNCHANGED openings
       \/ openings > 0 /\ openings' = openings - 1 /\ UNCHANGED first
    /\ channel' = "live"
    /\ frame' = "static"
    /\ TimerReplaced(TRUE)
    /\ robbed' = FALSE
    /\ UNCHANGED <<collector, status, doomed, ticker, retries, failures, kills>>

\* The first start is refused: the manager drops the collector and stops it.
FirstRefused ==
    /\ first = "doomed"
    /\ first' = "none"
    /\ collector' = "stopped"
    /\ status' = "stopped"
    /\ ticker' = FALSE
    /\ channel' = "none"
    /\ frame' = "none"
    /\ TimerCleared
    /\ UNCHANGED <<openings, doomed, retries, failures, kills, robbed>>

\* A restart is refused: restart() counts a failure and gives up.
RestartRefused ==
    /\ doomed > 0
    /\ doomed' = doomed - 1
    /\ Failure(ticker, status)
    /\ UNCHANGED <<collector, first, openings, channel, frame, retries, kills, frameTimers>>

\* The static frame is answered: a Linux server is sampled from now on.
StaticAnswered ==
    /\ channel = "live" /\ frame = "static"
    /\ IF Linux
       THEN /\ status' = "running"
            /\ ticker' = TRUE
            /\ frame' = IF collector = "stopped" THEN "none" ELSE "sample"
       ELSE /\ status' = "unsupported"
            /\ frame' = "none"
            /\ UNCHANGED ticker
    /\ TimerCleared
    /\ UNCHANGED <<collector, first, openings, doomed, channel, retries, failures, kills, robbed>>

Tick ==
    /\ ticker /\ collector # "stopped"
    /\ channel # "none" /\ frame = "none"
    /\ frame' = "sample"
    /\ TimerReplaced(FALSE)
    /\ UNCHANGED <<collector, status, first, openings, doomed, channel, ticker,
                   retries, failures, kills, robbed>>

SampleAnswered ==
    /\ channel = "live" /\ frame = "sample"
    /\ frame' = "none"
    /\ failures' = 0
    /\ status' = "running"
    /\ UNCHANGED <<collector, first, openings, doomed, channel, ticker, retries, kills, frameTimers>>

\* The timer of the pending frame, on a channel that is gone: null, after
\* MONITOR_FRAME_TIMEOUT_MS.  A channel that lives is taken to answer in time, and
\* the timers of earlier frames to fire first.
FrameTimesOut ==
    /\ channel # "live"
    /\ frame' = "none"
    /\ \/ /\ frame = "static" /\ oldTimers = 0
          /\ status' = "unsupported"
          /\ ownTimer' = FALSE
          /\ UNCHANGED <<ticker, failures>>
       \/ /\ frame = "sample"
          /\ Failure(ticker, status)
          /\ UNCHANGED ownTimer
    /\ UNCHANGED <<collector, first, openings, doomed, channel, retries, kills, oldTimers, robbed>>

\* The timer of a static frame that was given up.  It compares numbers only: a
\* static frame that is pending is dropped, the start() it was set for ends as
\* unsupported, and the start() that wrote the frame never settles.
OldTimerFires ==
    /\ \/ oldTimers > 0 /\ oldTimers' = oldTimers - 1 /\ UNCHANGED ownTimer
       \/ oldTimers = 0 /\ ownTimer /\ frame # "static"
          /\ ownTimer' = FALSE /\ UNCHANGED oldTimers
    /\ IF frame = "static"
       THEN frame' = "none" /\ status' = "unsupported" /\ robbed' = TRUE
       ELSE UNCHANGED <<frame, status, robbed>>
    /\ UNCHANGED <<collector, first, openings, doomed, channel, ticker, retries, failures, kills>>

\* 'close' of this.channel: the frame in flight is settled, a retry scheduled.
ChannelClosed ==
    /\ channel = "dead"
    /\ channel' = "none"
    /\ frame' = "none"
    /\ \/ frame = "sample" /\ Failure(FALSE, status)
       \/ frame = "static" /\ status' = "unsupported" /\ ticker' = FALSE /\ UNCHANGED failures
       \/ frame = "none" /\ ticker' = FALSE /\ UNCHANGED <<status, failures>>
    /\ retries' = IF collector = "stopped" THEN retries ELSE More(retries)
    /\ TimerCleared
    /\ UNCHANGED <<collector, first, openings, doomed, kills, robbed>>

\* The 5 s timer: it restarts a collector that has no channel.  The session's
\* openMonitorChannel refuses at once when the session is not ready.
RetryFires ==
    /\ retries > 0
    /\ retries' = retries - 1
    /\ IF collector = "stopped" \/ channel # "none"
       THEN UNCHANGED <<status, openings, ticker, failures>>
       ELSE IF state = "ready"
            THEN /\ openings' = More(openings)
                 /\ ticker' = FALSE
                 /\ UNCHANGED <<status, failures>>
            ELSE /\ Failure(FALSE, status)
                 /\ UNCHANGED openings
    /\ UNCHANGED <<collector, first, doomed, channel, frame, kills, frameTimers>>

\* stop(): the frame in flight resolves to null, which a start() that awaits it
\* takes for a system it does not support.
StopCollector ==
    /\ collector' = IF collector = "live" THEN "stopped" ELSE collector
    /\ IF collector = "live"
       THEN /\ status' = IF frame = "static" THEN "unsupported" ELSE "stopped"
            /\ ticker' = FALSE /\ frame' = "none" /\ channel' = "none"
            /\ TimerCleared
       ELSE UNCHANGED <<status, ticker, frame, channel, ownTimer, oldTimers>>
    /\ UNCHANGED <<retries, failures, kills, robbed>>

\* The user closes the panel.
StopMonitor ==
    /\ registered /\ collector = "live"
    /\ StopCollector
    /\ UNCHANGED <<first, openings, doomed>>

\* The server kills the shell behind the channel.
ChannelKilled ==
    /\ kills < MaxKills
    /\ channel = "live" /\ state = "ready"
    /\ kills' = kills + 1
    /\ channel' = "dead"
    /\ UNCHANGED <<collector, status, first, openings, doomed, frame, ticker, retries, failures,
                   frameTimers>>

------------------------------------------------------------------------------
(* The session's events                                                       *)

\* What was asked of the client is refused; its channels close.
Doom ==
    /\ doomed' = IF doomed + openings > MaxPending THEN MaxPending ELSE doomed + openings
    /\ openings' = 0
    /\ first' = IF first = "opening" THEN "doomed" ELSE first

MonitorCut ==
    /\ Doom
    /\ channel' = IF channel = "live" THEN "dead" ELSE channel
    /\ UNCHANGED <<collector, status, frame, ticker, retries, failures, kills, frameTimers>>

\* Variant: only the 'close' of the old channel brings the monitor back.
ReattachLeftToRetry == UNCHANGED monitorVars

\* 'reestablished': reattach() drops the channel, whatever its state, and restarts;
\* the frame that was pending on it, and its timer, stay.
Reattach ==
    \/ /\ collector # "live"
       /\ UNCHANGED monitorVars
    \/ /\ collector = "live"
       /\ channel' = "none"
       /\ ticker' = FALSE
       /\ openings' = More(openings)
       /\ UNCHANGED <<collector, status, first, doomed, frame, retries, failures, kills,
                      frameTimers>>

MonitorEnded == Doom /\ StopCollector

MonitorStep ==
    \/ StartMonitor \/ StopMonitor
    \/ ChannelOpened \/ FirstRefused \/ RestartRefused
    \/ StaticAnswered \/ Tick \/ SampleAnswered
    \/ FrameTimesOut \/ OldTimerFires
    \/ ChannelClosed \/ RetryFires \/ ChannelKilled

\* The model lets the requests of an old client be refused before its successor
\* is ready.
MonitoredSession ==
    \/ (Begin \/ Authenticate \/ Retry) /\ UNCHANGED monitorVars
    \/ Ready /\ doomed = 0 /\ first # "doomed" /\ Reattach
    \/ (Lose \/ GiveUp \/ Again) /\ MonitorCut
    \/ End /\ MonitorEnded

MonitorNext ==
    \/ MonitorStep /\ UNCHANGED sessionVars
    \/ MonitoredSession

\* The server and the timers answer.
MonitorFair ==
    /\ WF_<<sessionVars, monitorVars>>(ChannelOpened /\ UNCHANGED sessionVars)
    /\ WF_<<sessionVars, monitorVars>>((FirstRefused \/ RestartRefused) /\ UNCHANGED sessionVars)
    /\ WF_<<sessionVars, monitorVars>>((StaticAnswered \/ SampleAnswered) /\ UNCHANGED sessionVars)
    /\ WF_<<sessionVars, monitorVars>>(ChannelClosed /\ UNCHANGED sessionVars)
    /\ WF_<<sessionVars, monitorVars>>(RetryFires /\ UNCHANGED sessionVars)

MonitorSpec ==
    SessionInit /\ MonitorInit /\ [][MonitorNext]_<<sessionVars, monitorVars>> /\ MonitorFair

------------------------------------------------------------------------------
Sampling == status = "running" /\ ticker /\ channel = "live"

\* A monitor that was not stopped comes back: once its session stays ready, it
\* ends up sampling on a live channel (or found the system unsupported), however
\* the retry timers, the reattachments and the late 'close' events interleave.
\* The exception is the code's: where the timer of a static frame that was given
\* up dropped the frame of the last start (robbed), that start never settles, and
\* nothing is sampled until the session or the channel is lost again.
MonitorResumes ==
    <>[](collector = "live" /\ state = "ready" /\ ~robbed)
       => <>[](IF Linux THEN Sampling ELSE status = "unsupported")
==============================================================================
