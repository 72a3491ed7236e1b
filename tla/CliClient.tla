----------------------------- MODULE CliClient ------------------------------
(***************************************************************************)
(* The threads of bcli around the presenter of CliView: the UI thread with *)
(* its loop, its commands and the shutdown in ClientSession::disconnect,   *)
(* the thread that polls the channel list, the heartbeat and the watcher   *)
(* of the gRPC channel.  Subscription threads call showMessage.            *)
(*                                                                         *)
(* A call succeeds when the connection is ready and fails when it is not.  *)
(* The states of the gRPC channel that are not READY are one, DOWN.        *)
(***************************************************************************)
EXTENDS CliView

CONSTANT MaxChannels \* bounds the channels on the server

ASSUME ChannelsAssumption == MaxChannels \in Nat \ {0}

VARIABLES
    ui,      \* where the UI thread is; polling_stop_ is set from "stopping" on
    poll,    \* where the polling thread is
    fetched, \* the list it has fetched and not yet shown
    beat,    \* where the heartbeat thread is
    seen,    \* the watcher's state
    news,    \* the state the watcher has read and not yet shown, or ""
    link,    \* the state of the gRPC channel
    alive,   \* server: the session exists
    channels \* server: number of channels

threads == <<ui, poll, fetched, beat, seen, news>>
server == <<alive, channels>>
vars == <<view, threads, link, server>>

\* polling_stop_, and the heartbeat's stop token, which is set just before.
Stopping == ui \in {"stopping", "joining", "exited"}

\* run, after a successful connect.
Init ==
    /\ ViewInit
    /\ ui = "loop" /\ poll = "enter" /\ fetched = 0 /\ beat = "sleep"
    /\ link = "READY" /\ seen = "READY" /\ news = ""
    /\ alive = TRUE /\ channels = 1

-----------------------------------------------------------------------------
(* The UI thread.                                                          *)

Key ==
    /\ ui = "loop"
    /\ ScrollKey \/ HelpKey
    /\ UNCHANGED <<threads, link, server>>

Draw ==
    /\ ui = "loop"
    /\ Render
    /\ UNCHANGED <<threads, link, server>>

\* A command keeps the loop from drawing until its calls return; /create adds a
\* channel.
Command ==
    /\ ui = "loop"
    /\ ui' = "command"
    /\ channels' \in (IF link = "READY" /\ alive /\ channels < MaxChannels
                        THEN {channels, channels + 1} ELSE {channels})
    /\ UNCHANGED <<view, poll, fetched, beat, seen, news, link, alive>>

\* It ends in listChannels or a toast.
CommandDone ==
    /\ ui = "command"
    /\ ui' = "loop"
    /\ (link = "READY" /\ showChannelList(channels)) \/ showToast
    /\ UNCHANGED <<poll, fetched, beat, seen, news, link, server>>

\* /quit or a signal ends the loop; disconnect stops the heartbeat and sets
\* polling_stop_, without polling_mutex_ ...
Quit ==
    /\ ui = "loop"
    /\ ui' = "stopping"
    /\ UNCHANGED <<view, poll, fetched, beat, seen, news, link, server>>

\* ... notifies, which reaches the polling thread only if it waits by now ...
Notify ==
    /\ ui = "stopping"
    /\ ui' = "joining"
    /\ poll' = IF poll = "wait" THEN "returned" ELSE poll
    /\ UNCHANGED <<view, fetched, beat, seen, news, link, server>>

\* ... joins it, and disconnects.
Disconnect ==
    /\ ui = "joining"
    /\ poll = "returned"
    /\ ui' = "exited"
    /\ alive' = (alive /\ link # "READY")
    /\ updateConnectionState("Closed")
    /\ UNCHANGED <<poll, fetched, beat, seen, news, link, channels>>

-----------------------------------------------------------------------------
(* The polling thread.                                                     *)

\* The loop's condition and the wait's predicate: polling_stop_ is tested before
\* the thread waits ...
PollNext == IF Stopping THEN "returned" ELSE "enter"

PollWait ==
    /\ poll = "enter"
    /\ poll' = "wait"
    /\ UNCHANGED <<view, ui, fetched, beat, seen, news, link, server>>

\* listChannels: the call, then the presenter.
PollList(failed) ==
    IF link = "READY" THEN poll' = "show" /\ fetched' = channels /\ UNCHANGED view
    ELSE poll' = failed /\ UNCHANGED fetched /\ showToast

\* Fault variant: wait instead of wait_for; while the program runs, something
\* else wakes the thread.
PollTimeoutNever ==
    /\ poll = "wait"
    /\ ~Stopping
    /\ PollList("enter")
    /\ UNCHANGED <<ui, beat, seen, news, link, server>>

\* Fault variant: the thread gives up when a call fails.
PollGivesUp ==
    /\ poll = "wait"
    /\ IF Stopping THEN poll' = "returned" /\ UNCHANGED <<view, fetched>> ELSE PollList("returned")
    /\ UNCHANGED <<ui, beat, seen, news, link, server>>

\* ... and after the interval, whether or not a notification came.
PollTimeout ==
    /\ poll = "wait"
    /\ IF Stopping THEN poll' = "returned" /\ UNCHANGED <<view, fetched>> ELSE PollList("enter")
    /\ UNCHANGED <<ui, beat, seen, news, link, server>>

PollShow ==
    /\ poll = "show"
    /\ poll' = PollNext
    /\ fetched' = 0
    /\ showChannelList(fetched)
    /\ UNCHANGED <<ui, beat, seen, news, link, server>>

-----------------------------------------------------------------------------
(* The heartbeat and the watcher.                                          *)

Answer == IF link = "READY" /\ alive THEN "Connected" ELSE "NetworkError"

\* Fault variant: the first failure ends the thread.
BeatUntilFailure ==
    /\ beat = "sleep"
    /\ beat' = IF Stopping \/ Answer # "Connected" THEN "returned" ELSE Answer
    /\ UNCHANGED <<view, ui, poll, fetched, seen, news, link, server>>

\* runHeartbeat: ten seconds and the call (a session that is gone is refused) ...
Beat ==
    /\ beat = "sleep"
    /\ beat' = IF Stopping THEN "returned" ELSE Answer
    /\ UNCHANGED <<view, ui, poll, fetched, seen, news, link, server>>

\* ... then the presenter is told the answer, which may be an old one by now.
BeatShow ==
    /\ beat \notin {"sleep", "returned"}
    /\ \/ Stopping /\ beat' = "returned" /\ UNCHANGED view
       \/ beat' = "sleep" /\ updateConnectionState(beat)
    /\ UNCHANGED <<ui, poll, fetched, seen, news, link, server>>

\* channel_state_watcher: WaitForStateChange and GetState ...
WatchRead ==
    /\ news = "" /\ ui # "exited"
    /\ link # seen
    /\ news' = link
    /\ UNCHANGED <<view, ui, poll, fetched, beat, seen, link, server>>

\* ... then the presenter: Connecting for CONNECTING and IDLE, NetworkError for
\* TRANSIENT_FAILURE; READY is left to the heartbeat.
WatchShow ==
    /\ news # ""
    /\ seen' = news /\ news' = ""
    /\ \/ news = "READY" /\ UNCHANGED view
       \/ news = "DOWN" /\ \E s \in {"Connecting", "NetworkError"} : updateConnectionState(s)
    /\ UNCHANGED <<ui, poll, fetched, beat, link, server>>

-----------------------------------------------------------------------------
(* Subscription threads, the network and the server.                       *)

Receive == ~Stopping /\ ShowMessage /\ UNCHANGED <<threads, link, server>>

Deliver == Push /\ UNCHANGED <<threads, link, server>>

LinkChanges ==
    /\ ui # "exited"
    /\ link' = IF link = "READY" THEN "DOWN" ELSE "READY"
    /\ UNCHANGED <<view, threads, server>>

\* The session expires, or somebody creates a channel.
ServerChanges ==
    /\ ~Stopping
    /\ \/ alive' = FALSE /\ UNCHANGED channels
       \/ channels < MaxChannels /\ channels' = channels + 1 /\ UNCHANGED alive
    /\ UNCHANGED <<view, threads, link>>

Poll == PollWait \/ PollTimeout \/ PollShow

Shutdown == Notify \/ Disconnect

Next ==
    \/ Key \/ Draw \/ Command \/ CommandDone \/ Quit \/ Shutdown \/ Poll
    \/ Beat \/ BeatShow \/ WatchRead \/ WatchShow
    \/ Receive \/ Deliver \/ LinkChanges \/ ServerChanges

\* Threads are scheduled, intervals pass and the loop draws when it has an event.
\* Every call is answered or fails some time: only the heartbeat has a deadline
\* of its own, so that for the commands and the poll's listChannels this is an
\* assumption about gRPC and the server.  Nothing is assumed of the user, the network, the server or
\* the notification.
Spec ==
    /\ Init /\ [][Next]_vars
    /\ SF_vars(Draw) /\ WF_vars(CommandDone) /\ WF_vars(Shutdown) /\ WF_vars(Poll)
    /\ WF_vars(Beat \/ BeatShow) /\ WF_vars(WatchRead \/ WatchShow)
    /\ WF_vars(Deliver)

-----------------------------------------------------------------------------
(* Properties.                                                             *)

TypeOK ==
    /\ ViewTypeOK
    /\ ui \in {"loop", "command", "stopping", "joining", "exited"}
    /\ poll \in {"enter", "wait", "show", "returned"}
    /\ fetched \in 0..MaxChannels /\ channels \in 1..MaxChannels
    /\ beat \in {"sleep", "returned", "Connected", "NetworkError"}
    /\ {link, seen} \subseteq {"READY", "DOWN"} /\ news \in {"", "READY", "DOWN"}
    /\ alive \in BOOLEAN

\* Every message delivered is taken into the list although a render takes at
\* most DrainMax and the inbox posts nothing by itself: the other threads keep
\* the loop drawing.
InboxDrains ==
    \A n \in 1..MaxMessages : (delivered >= n) ~> (Len(messages) >= n \/ Stopping)

\* The user's list catches up with the server's, although an older answer of the
\* poll may be shown after a newer one of a command, and polls fail meanwhile.
ListCatchesUp ==
    (<>[](link = "READY" /\ ~Stopping)) => <>[](channel_names = channels)

\* When the connection stays up the status line settles on the truth: the watcher
\* may be late with old news, but the heartbeat has the last word.  A session the
\* server has given up shows as a network error.
StatusSettles ==
    (<>[](link = "READY" /\ ~Stopping))
       => <>[](connection_state = IF alive THEN "Connected" ELSE "NetworkError")

\* Quitting ends although polling_stop_ is set and notified without the mutex,
\* so that the notification may come before the polling thread waits.
QuitEnds == (ui = "stopping") ~> (ui = "exited")
=============================================================================
