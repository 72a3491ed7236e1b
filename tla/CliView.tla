------------------------------ MODULE CliView -------------------------------
(***************************************************************************)
(* FtxuiPresenter and InboxQueue of bcli: messages wait in the inbox until *)
(* a render takes at most a fixed number of them, the user scrolls over    *)
(* what has been taken, and every change posts an event, because the loop  *)
(* draws only after events.  CliClient adds the threads.                   *)
(*                                                                         *)
(* Messages are numbered in the order of their delivery.                   *)
(***************************************************************************)
EXTENDS Integers, Sequences

CONSTANTS
    Viewport,    \* viewport_height_hint_
    DrainMax,    \* how many messages one render takes
    MaxMessages  \* bounds the messages delivered

ASSUME ViewAssumption == Viewport \in Nat \ {0} /\ DrainMax \in Nat \ {0} /\ MaxMessages \in Nat

VARIABLES
    delivered,       \* messages that threads have begun to show
    pushing,         \* a thread is between the two halves of showMessage
    inbox,           \* InboxQueue
    messages,        \* messages_
    scroll_offset,   \* lines above the newest message
    auto_scroll,     \* the view follows new messages
    show_help,       \* the help panel is open
    channel_names,   \* channel_names_: how many there are
    connection_state,
    posted           \* the loop has an event to handle

view == <<delivered, pushing, inbox, messages, scroll_offset, auto_scroll, show_help,
          channel_names, connection_state, posted>>

scroll == <<scroll_offset, auto_scroll>>

Larger(a, b) == IF a > b THEN a ELSE b

Clamp(n, low, high) == IF n < low THEN low ELSE IF n > high THEN high ELSE n

\* As run leaves it when the loop starts, the seeded channel listed.
ViewInit ==
    /\ delivered = 0 /\ pushing = FALSE /\ inbox = <<>> /\ messages = <<>>
    /\ scroll_offset = 0 /\ auto_scroll = TRUE /\ show_help = FALSE
    /\ channel_names = 1 /\ connection_state = "Connecting" /\ posted = TRUE

-----------------------------------------------------------------------------
(* What the other threads call.                                            *)

PostEvent == posted' = TRUE

\* showMessage, under ui_mutex_: back to the newest message if following.
ShowMessage ==
    /\ ~pushing
    /\ delivered < MaxMessages
    /\ delivered' = delivered + 1
    /\ pushing' = TRUE
    /\ scroll_offset' = IF auto_scroll THEN 0 ELSE scroll_offset
    /\ UNCHANGED <<inbox, messages, auto_scroll, show_help, channel_names, connection_state, posted>>

\* showMessage, without it: InboxQueue::push.
Push ==
    /\ pushing
    /\ pushing' = FALSE
    /\ inbox' = Append(inbox, delivered)
    /\ PostEvent
    /\ UNCHANGED <<delivered, messages, scroll, show_help, channel_names, connection_state>>

showChannelList(n) ==
    /\ channel_names' = n
    /\ PostEvent
    /\ UNCHANGED <<delivered, pushing, inbox, messages, scroll, show_help, connection_state>>

updateConnectionState(state) ==
    /\ connection_state' = state
    /\ PostEvent
    /\ UNCHANGED <<delivered, pushing, inbox, messages, scroll, show_help, channel_names>>

\* showError and showInfo: a toast.
showToast ==
    /\ PostEvent
    /\ UNCHANGED <<delivered, pushing, inbox, messages, scroll, show_help, channel_names,
                   connection_state>>

-----------------------------------------------------------------------------
(* The loop: keys, and a render after the events.                          *)

MaxScrollOffset(count) == Larger(count - Viewport, 0)

\* scrollByLocked, scrollToTopLocked and scrollToBottomLocked set both.
ScrollTo(offset) == scroll_offset' = offset /\ auto_scroll' = (offset = 0)

\* The delta of PageUp and PageDown, the arrows and the wheel.
Deltas == {Viewport, -Viewport, 1, -1, 3, -3}

\* Fault variant: the offset is not clamped.
ScrollKeyUnclamped ==
    /\ \E delta \in Deltas : ScrollTo(scroll_offset + delta)
    /\ PostEvent
    /\ UNCHANGED <<delivered, pushing, inbox, messages, show_help, channel_names, connection_state>>

\* handleScrollEvent; the panel swallows the key.
ScrollKey ==
    /\ IF show_help THEN UNCHANGED scroll
       ELSE LET most == MaxScrollOffset(Len(messages))
            IN  \/ \E delta \in Deltas : ScrollTo(Clamp(scroll_offset + delta, 0, most))
                \/ ScrollTo(most)
                \/ ScrollTo(0)
    /\ PostEvent
    /\ UNCHANGED <<delivered, pushing, inbox, messages, show_help, channel_names, connection_state>>

\* The question mark and Escape.
HelpKey ==
    /\ show_help' \in {~show_help, FALSE}
    /\ PostEvent
    /\ UNCHANGED <<delivered, pushing, inbox, messages, scroll, channel_names, connection_state>>

\* InboxQueue::drainTo.
Drained == IF Len(inbox) < DrainMax THEN Len(inbox) ELSE DrainMax

\* Fault variant: the newest messages are taken first.
drainToNewest ==
    /\ messages' = messages \o SubSeq(inbox, Len(inbox) - Drained + 1, Len(inbox))
    /\ inbox' = SubSeq(inbox, 1, Len(inbox) - Drained)

drainTo ==
    /\ messages' = messages \o SubSeq(inbox, 1, Drained)
    /\ inbox' = SubSeq(inbox, Drained + 1, Len(inbox))

\* Fault variant: only the panel is drawn while it is open.
RenderOnlyHelp ==
    /\ posted
    /\ IF show_help THEN UNCHANGED <<inbox, messages, scroll>>
       ELSE drainTo /\ ScrollTo(Clamp(scroll_offset, 0, MaxScrollOffset(Len(messages'))))
    /\ posted' = FALSE
    /\ UNCHANGED <<delivered, pushing, show_help, channel_names, connection_state>>

\* render: take messages, then clampScrollOffsetLocked.
Render ==
    /\ posted
    /\ drainTo
    /\ ScrollTo(Clamp(scroll_offset, 0, MaxScrollOffset(Len(messages'))))
    /\ posted' = FALSE
    /\ UNCHANGED <<delivered, pushing, show_help, channel_names, connection_state>>

\* Fault variant: the offset moves the end of the window and not its beginning.
computeScrollWindowShort(count, offset, height) ==
    LET most    == Larger(count - height, 0)
        first   == Larger(count - height, 0)
    IN  [first |-> first, last |-> Larger(count - Clamp(offset, 0, most), 0)]

\* The rows drawn are first + 1 .. last.
computeScrollWindow(count, offset, height) ==
    LET most  == Larger(count - height, 0)
        first == Larger(count - height - Clamp(offset, 0, most), 0)
    IN  [first |-> first, last |-> IF first + height < count THEN first + height ELSE count]

-----------------------------------------------------------------------------
(* Properties of the view.                                                 *)

ViewTypeOK ==
    /\ delivered \in 0..MaxMessages /\ pushing \in BOOLEAN
    /\ Len(inbox) <= MaxMessages /\ Len(messages) <= MaxMessages
    /\ scroll_offset \in 0..MaxMessages
    /\ auto_scroll \in BOOLEAN /\ show_help \in BOOLEAN /\ posted \in BOOLEAN
    /\ channel_names \in Nat
    /\ connection_state \in {"Connecting", "Connected", "NetworkError", "Closed"}

\* The list on the screen, what waits in the inbox and the message being pushed
\* are the deliveries, each once and in their order, however renders, bursts
\* and scrolling interleave.
InOrder ==
    /\ Len(messages) + Len(inbox) + (IF pushing THEN 1 ELSE 0) = delivered
    /\ \A i \in 1..Len(messages \o inbox) : (messages \o inbox)[i] = i

\* What has been drawn is a full window of the list; it ends with the newest
\* message when the view follows, and it shows the oldest after Home.
WindowIsRight ==
    ~posted =>
       LET window == computeScrollWindow(Len(messages), scroll_offset, Viewport)
           full   == IF Len(messages) < Viewport THEN Len(messages) ELSE Viewport
       IN  /\ window.first >= 0 /\ window.last - window.first = full
           /\ window.last = Len(messages) - scroll_offset
           /\ auto_scroll <=> window.last = Len(messages)
=============================================================================
