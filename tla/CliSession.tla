----------------------------- MODULE CliSession -----------------------------
(***************************************************************************)
(* ClientSession of bcli: the commands of the user, executed one at a time *)
(* on the UI thread, the detached subscription threads that joins leave    *)
(* behind, and the gateway that turns both into calls.                     *)
(*                                                                         *)
(* The server is what these calls can see of it (Membership and            *)
(* ClientPublisher have the rest): whether the session exists, the         *)
(* channels that have the client as a member, those its session records    *)
(* and the one stream registered for it.  The calls of other clients are   *)
(* seen in one thing they do to this one: they save a channel read before  *)
(* this client joined or left it.  A call may be lost before or after it   *)
(* took effect; channel names and ids correspond one to one.               *)
(***************************************************************************)
EXTENDS ErrorMapping, FiniteSets

CONSTANTS
    Channels,  \* channels, by name and id
    General,   \* the seeded channel
    MaxSubs,   \* bounds the subscription threads started
    MaxFaults, \* bounds lost calls, broken streams, expiries and stale saves
    None       \* no channel, no thread

ASSUME SessionAssumption ==
    /\ General \in Channels
    /\ MaxSubs \in Nat /\ MaxFaults \in Nat
    /\ None \notin Channels /\ None \notin 1..MaxSubs

VARIABLES
    alive,      \* server: the client's session exists
    members,    \* server: the channels that have the client as a member
    joined,     \* server: the channels its session records (joined_channels_)
    registered, \* server: the thread whose stream the publisher writes to
    names,      \* server: the channels created
    ui,         \* what the UI thread is doing, and to which channel
    active,     \* active_channel_id_
    sub,        \* the subscription threads: where each is, and its channel
    toast,      \* error_toast_, as the error it words
    cause,      \* what went wrong when the toast was raised (history)
    warned,     \* the last join or leave failed, and said so (history)
    been,       \* the channels the client has been a member of (history)
    overwritten,\* those where another client's save had the last word on it (history)
    hurried,    \* a thread was started before the one before had settled (history)
    faults      \* faults so far

membership == <<members, joined, been, overwritten>>
server == <<alive, registered, names, membership>>
history == <<warned, hurried>>
vars == <<server, ui, active, sub, toast, cause, history, faults>>

Threads == 1..MaxSubs

Started == {i \in Threads : sub[i].pc # "none"}

\* Still to be answered by the server.
Starting(i) == sub[i].pc \in {"spawned", "registered"}

Init ==
    /\ alive = FALSE /\ registered = None /\ names = {General}
    /\ members = {} /\ joined = {} /\ been = {} /\ overwritten = {}
    /\ ui = [pc |-> "connect", channel |-> None]
    /\ active = None
    /\ sub = [i \in Threads |-> [pc |-> "none", channel |-> None]]
    /\ toast = None /\ cause = None
    /\ warned = FALSE /\ hurried = FALSE /\ faults = 0

-----------------------------------------------------------------------------
(* Calls and toasts.                                                       *)

Goto(pc, h) == ui' = [pc |-> pc, channel |-> h]

\* showError with the gateway's reading of the server's refusal.
ShowRefusal(error) == toast' = statusToError(errorToStatus(error)) /\ cause' = error

\* showError after a call that got no answer.
ShowLost == toast' = statusToError(Unavailable) /\ cause' = "NetworkError"

\* showError with an error the client found by itself.
ShowOwn(error) == toast' = error /\ cause' = error

ShowNothing == UNCHANGED <<toast, cause>>

\* showInfo clears the error.
ShowInfo == toast' = None /\ cause' = None

Fault == faults < MaxFaults /\ faults' = faults + 1

-----------------------------------------------------------------------------
(* What the server does to the client's membership.                        *)

\* JoinChannel: the client leaves the other channels its session records.
ServeJoin(h) ==
    /\ members' = (members \ joined) \cup {h}
    /\ joined' = {h}
    /\ been' = been \cup {h}
    /\ overwritten' = overwritten \ (joined \cup {h})

\* LeaveChannel.
ServeLeave(h) ==
    /\ members' = members \ {h}
    /\ joined' = joined \ {h}
    /\ UNCHANGED <<been, overwritten>>

\* Disconnect and the sweeper leave the channels the session records.
ServeRemoval ==
    /\ alive' = FALSE
    /\ members' = members \ joined
    /\ joined' = {}
    /\ UNCHANGED <<been, overwritten>>

\* Another client's join or leave saves the channel it read before this client
\* joined it, or before this client left it.
Overwrite(h) ==
    /\ \/ h \in members /\ members' = members \ {h}
       \/ h \in been \ members /\ members' = members \cup {h}
    /\ overwritten' = overwritten \cup {h}
    /\ Fault
    /\ UNCHANGED <<alive, registered, names, joined, been, ui, active, sub, toast, cause, history>>

-----------------------------------------------------------------------------
(* Commands.                                                               *)

\* run: the program ends when it is refused, or when there is no answer; then
\* the server may have a session nobody uses.
Connect ==
    /\ ui.pc = "connect"
    /\ \/ alive' = TRUE /\ Goto("idle", None) /\ UNCHANGED faults
       \/ alive' = FALSE /\ Goto("exited", None) /\ UNCHANGED faults
       \/ alive' \in BOOLEAN /\ Goto("exited", None) /\ Fault
    /\ UNCHANGED <<membership, registered, names, active, sub, toast, cause, history>>

\* sendMessage; the text may be too long.
Send ==
    /\ ui.pc = "idle"
    /\ \/ active = None /\ ShowOwn("no channel") /\ UNCHANGED faults
       \/ active # None /\ ShowLost /\ Fault
       \/ /\ active # None
          /\ \/ ~alive /\ ShowRefusal("ClientNotFound")
             \/ alive /\ active \notin members /\ ShowRefusal("NotAMember")
             \/ alive /\ active \in members /\ (ShowRefusal("MessageTooLong") \/ ShowNothing)
          /\ UNCHANGED faults
    /\ UNCHANGED <<server, ui, active, sub, history>>

\* Fault variant: a name that is not listed is joined all the same.
JoinListUnchecked(h) ==
    /\ ui.pc = "idle"
    /\ Goto("join", h)
    /\ UNCHANGED <<server, active, sub, toast, cause, history, faults>>

\* joinChannelByName looks the name up in the channel list ...
JoinList(h) ==
    /\ ui.pc = "idle"
    /\ \/ h \in names /\ Goto("join", h) /\ ShowNothing /\ UNCHANGED <<warned, faults>>
       \/ h \notin names /\ ShowOwn("ChannelNotFound") /\ warned' = TRUE /\ UNCHANGED <<ui, faults>>
       \/ ShowLost /\ warned' = TRUE /\ Fault /\ UNCHANGED ui
    /\ UNCHANGED <<server, active, sub, hurried>>

\* ... and joins by id.
JoinCall ==
    /\ ui.pc = "join"
    /\ \/ alive /\ ServeJoin(ui.channel) /\ Goto("joined", ui.channel) /\ ShowNothing
          /\ UNCHANGED <<warned, faults>>
       \/ ~alive /\ ShowRefusal("ClientNotFound") /\ warned' = TRUE /\ Goto("idle", None)
          /\ UNCHANGED <<membership, faults>>
       \/ (UNCHANGED membership \/ (alive /\ ServeJoin(ui.channel)))
          /\ ShowLost /\ warned' = TRUE /\ Fault /\ Goto("idle", None)
    /\ UNCHANGED <<alive, registered, names, active, sub, hurried>>

Spawn(h) ==
    /\ Cardinality(Started) < MaxSubs
    /\ sub' = [sub EXCEPT ![Cardinality(Started) + 1] = [pc |-> "spawned", channel |-> h]]
    /\ hurried' = (hurried \/ \E i \in Started : Starting(i))

\* Fault variant: an open stream is not followed by another.
JoinedKeepsStream ==
    /\ ui.pc = "joined"
    /\ active' = ui.channel
    /\ IF active = ui.channel \/ \E i \in Started : sub[i].pc = "open"
         THEN UNCHANGED <<sub, hurried>> ELSE Spawn(ui.channel)
    /\ warned' = FALSE
    /\ ShowInfo
    /\ Goto("list", None)
    /\ UNCHANGED <<server, faults>>

\* The rest of joinChannel: unless the channel was active already, a detached
\* thread subscribes to it.  Both ways end in listChannels.
Joined ==
    /\ ui.pc = "joined"
    /\ active' = ui.channel
    /\ IF active = ui.channel THEN UNCHANGED <<sub, hurried>> ELSE Spawn(ui.channel)
    /\ warned' = FALSE
    /\ ShowInfo
    /\ Goto("list", None)
    /\ UNCHANGED <<server, faults>>

\* createChannel; the name may be malformed.
Create(h) ==
    /\ ui.pc = "idle"
    /\ \/ alive /\ h \notin names /\ names' = names \cup {h} /\ Goto("created", None)
          /\ ShowNothing /\ UNCHANGED faults
       \/ /\ \/ ~alive /\ ShowRefusal("ClientNotFound")
             \/ alive /\ (ShowRefusal("InvalidChannelName")
                            \/ (h \in names /\ ShowRefusal("ChannelAlreadyExists")))
          /\ UNCHANGED <<names, ui, faults>>
       \/ /\ names' \in (IF alive THEN {names, names \cup {h}} ELSE {names})
          /\ ShowLost /\ Fault /\ UNCHANGED ui
    /\ UNCHANGED <<alive, membership, registered, active, sub, history>>

\* listChannels, as a command or at the end of one; createChannel says so last.
List ==
    /\ ui.pc \in {"idle", "list", "created"}
    /\ \/ (IF ui.pc = "created" THEN ShowInfo ELSE ShowNothing) /\ UNCHANGED faults
       \/ (IF ui.pc = "created" THEN ShowInfo ELSE ShowLost) /\ Fault
    /\ Goto("idle", None)
    /\ UNCHANGED <<server, active, sub, history>>

\* Fault variant: the result of the call is not looked at.
LeaveIgnoresResult ==
    /\ ui.pc = "idle"
    /\ active' = None
    /\ \/ active = None /\ UNCHANGED <<membership, faults>>
       \/ active # None /\ ServeLeave(active) /\ UNCHANGED faults
       \/ active # None /\ Fault /\ UNCHANGED membership
    /\ warned' = FALSE
    /\ UNCHANGED <<alive, registered, names, ui, sub, toast, cause, hurried>>

\* leaveChannel gives up the active channel first, whatever the server answers.
Leave ==
    /\ ui.pc = "idle"
    /\ active' = None
    /\ \/ active = None /\ ShowOwn("no channel") /\ UNCHANGED <<membership, warned, faults>>
       \/ /\ active # None /\ alive /\ active \in members
          /\ ServeLeave(active) /\ warned' = FALSE /\ ShowNothing /\ UNCHANGED faults
       \/ /\ active # None
          /\ \/ ~alive /\ ShowRefusal("ClientNotFound")
             \/ alive /\ active \notin members /\ ShowRefusal("NotAMember")
          /\ warned' = TRUE /\ UNCHANGED <<membership, faults>>
       \/ /\ active # None
          /\ UNCHANGED membership \/ (alive /\ active \in members /\ ServeLeave(active))
          /\ warned' = TRUE /\ ShowLost /\ Fault
    /\ UNCHANGED <<alive, registered, names, ui, sub, hurried>>

\* disconnect: one call, and the process ends, its threads and streams with it.
Quit ==
    /\ ui.pc = "idle"
    /\ \/ ServeRemoval /\ UNCHANGED faults
       \/ UNCHANGED <<alive, membership>> /\ Fault
    /\ registered' = None
    /\ Goto("exited", None)
    /\ sub' = [i \in Threads |-> IF i \in Started THEN [sub[i] EXCEPT !.pc = "ended"] ELSE sub[i]]
    /\ UNCHANGED <<names, active, toast, cause, history>>

-----------------------------------------------------------------------------
(* The subscription threads and the server's handler for each.             *)

SubAt(i, pc) == sub' = [sub EXCEPT ![i].pc = pc]

\* The handler registers the stream in the place of any other ...
Register(i) ==
    /\ sub[i].pc = "spawned"
    /\ SubAt(i, "registered")
    /\ registered' = i
    /\ UNCHANGED <<alive, membership, names, ui, active, toast, cause, history, faults>>

\* ... and looks whether it may.  If not it unregisters the client, and the
\* thread shows the refusal and ends.
Authorise(i) ==
    /\ sub[i].pc = "registered"
    /\ \/ sub[i].channel \in members /\ SubAt(i, "open") /\ ShowNothing /\ UNCHANGED registered
       \/ /\ sub[i].channel \notin members /\ SubAt(i, "ended")
          /\ ShowRefusal("NotAMember") /\ registered' = None
    /\ UNCHANGED <<alive, membership, names, ui, active, history, faults>>

\* The call or the stream fails: SubscribeCommand shows it and the thread ends;
\* nothing subscribes again.
Break(i) ==
    /\ sub[i].pc \in {"spawned", "open"}
    /\ SubAt(i, IF sub[i].pc = "open" THEN "broken" ELSE "ended")
    /\ ShowLost
    /\ Fault
    /\ UNCHANGED <<server, ui, active, history>>

\* The server's handler notices later and unregisters the client.
Cleanup(i) ==
    /\ sub[i].pc = "broken"
    /\ SubAt(i, "ended")
    /\ registered' = None
    /\ UNCHANGED <<alive, membership, names, ui, active, toast, cause, history, faults>>

\* The server's sweeper: too few heartbeats got through.
Expire ==
    /\ alive
    /\ ServeRemoval /\ registered' = None
    /\ Fault
    /\ UNCHANGED <<names, ui, active, sub, toast, cause, history>>

Next ==
    \/ Connect \/ Send \/ JoinCall \/ Joined \/ List \/ Leave \/ Quit \/ Expire
    \/ \E h \in Channels : JoinList(h) \/ Create(h) \/ Overwrite(h)
    \/ \E i \in Threads : Register(i) \/ Authorise(i) \/ Break(i) \/ Cleanup(i)

Spec == Init /\ [][Next]_vars

-----------------------------------------------------------------------------
(* Properties.                                                             *)

TypeOK ==
    /\ alive \in BOOLEAN
    /\ members \subseteq been /\ joined \subseteq been
    /\ been \subseteq names /\ overwritten \subseteq been
    /\ registered \in Threads \cup {None}
    /\ names \subseteq Channels /\ General \in names
    /\ ui \in [pc : {"connect", "idle", "join", "joined", "list", "created", "exited"},
               channel : Channels \cup {None}]
    /\ active \in names \cup {None}
    /\ sub \in [Threads -> [pc : {"none", "spawned", "registered", "open", "broken", "ended"},
                            channel : names \cup {None}]]
    /\ toast \in Errors \cup {"no channel", None} /\ cause \in Errors \cup {"no channel", None}
    /\ warned \in BOOLEAN /\ hurried \in BOOLEAN
    /\ faults \in 0..MaxFaults

\* The channels the user believes to be in.
Believed == IF active = None THEN {} ELSE {active}

\* While the session lives, the channel the user writes to and the channels that
\* have the client as a member differ only after a join or a leave that failed
\* and said so (leaveChannel gives up the channel before it asks, joinChannel
\* keeps the old one when the answer is lost), or where another client's join or
\* leave has saved a stale copy of a channel, which nobody is told of.  The next
\* join that gets through mends what a stale save did to the channel it leaves
\* and to the one it joins.
NoSilentDivergence ==
    (ui.pc = "idle" /\ alive /\ overwritten = {} /\ members # Believed) => warned

\* shouldEmitEventForChannel: membership events pass only for the thread's own
\* channel, messages always.
Emits(i, kind, h) == kind = "message" \/ sub[i].channel = h

\* Once a join has settled, the stream the server writes to is one that lets all
\* events of the active channel through, however often channels were joined,
\* left and joined again, provided nothing was lost or overwritten and no join
\* overtook the subscription of the one before.  (If one did, the older thread's refusal
\* unregisters the newer stream, which then stays open and silent.)
HearsActive ==
    /\ ui.pc = "idle" /\ active # None
    /\ faults = 0 /\ ~hurried
    /\ \A i \in Started : ~Starting(i)
    => /\ registered # None
       /\ sub[registered].pc = "open"
       /\ \A kind \in {"message", "joined", "left"} : Emits(registered, kind, active)

\* The error on the status line is the one that occurred, whichever thread
\* raised it: errorToStatus and statusToError lose none of the distinctions
\* between the errors these commands can meet.
ToastIsCause == toast = cause
=============================================================================
