--------------------------- MODULE CliClientProofs ---------------------------
(***************************************************************************)
(* The order of the messages, the window drawn over them and the types of  *)
(* CliClient, for every size of window, drain and history.                 *)
(***************************************************************************)
EXTENDS CliClient, TLAPS

-----------------------------------------------------------------------------
(* The inductive invariant.                                                *)

\* The message between the two halves of showMessage.
Held == IF pushing THEN 1 ELSE 0

\* InOrder, with the two sequences described apart.
Ordered(m, b) ==
    /\ m \in Seq(Nat) /\ b \in Seq(Nat)
    /\ \A i \in 1..Len(m) : m[i] = i
    /\ \A i \in 1..Len(b) : b[i] = Len(m) + i

Deliveries ==
    /\ delivered \in 0..MaxMessages
    /\ Ordered(messages, inbox)
    /\ Len(messages) + Len(inbox) + Held = delivered

\* The offset never leaves the list, which only grows, and following is being at
\* its end.
Scrolled ==
    /\ scroll_offset \in 0..MaxScrollOffset(Len(messages))
    /\ auto_scroll <=> scroll_offset = 0

Rest ==
    /\ {pushing, auto_scroll, show_help, posted} \subseteq BOOLEAN
    /\ channel_names \in Nat
    /\ connection_state \in {"Connecting", "Connected", "NetworkError", "Closed"}

Counts == fetched \in 0..MaxChannels /\ channels \in 1..MaxChannels

Modes ==
    /\ ui \in {"loop", "command", "stopping", "joining", "exited"}
    /\ poll \in {"enter", "wait", "show", "returned"}
    /\ beat \in {"sleep", "returned", "Connected", "NetworkError"}
    /\ link \in {"READY", "DOWN"} /\ seen \in {"READY", "DOWN"} /\ news \in {"", "READY", "DOWN"}
    /\ alive \in BOOLEAN

ThreadsOK == Counts /\ Modes

IInv == Deliveries /\ Scrolled /\ Rest /\ ThreadsOK

-----------------------------------------------------------------------------
(* What the presenter's operations keep.                                   *)

LEMMA ClampInRange ==
    ASSUME NEW n \in Int, NEW high \in Nat
    PROVE  Clamp(n, 0, high) \in 0..high
BY DEF Clamp

LEMMA MaxScrollOffsetNat ==
    ASSUME NEW count \in Nat
    PROVE  MaxScrollOffset(count) \in Nat
BY ViewAssumption DEF MaxScrollOffset, Larger

LEMMA OrderedLengths ==
    ASSUME NEW m, NEW b, Ordered(m, b)
    PROVE  Len(m) \in Nat /\ Len(b) \in Nat
BY DEF Ordered

LEMMA HeldNat == Held \in {0, 1}
BY DEF Held

LEMMA ConcatFacts ==
    ASSUME NEW s \in Seq(Nat), NEW t \in Seq(Nat)
    PROVE  /\ s \o t \in Seq(Nat) /\ Len(s \o t) = Len(s) + Len(t)
           /\ \A i \in 1..Len(s) : (s \o t)[i] = s[i]
           /\ \A i \in 1..Len(t) : (s \o t)[Len(s) + i] = t[i]
OBVIOUS

\* A drain moves a prefix of the inbox to the end of the list.
LEMMA MoveOrdered ==
    ASSUME NEW m, NEW b, Ordered(m, b), NEW n \in Nat, n <= Len(b)
    PROVE  /\ Ordered(m \o SubSeq(b, 1, n), SubSeq(b, n + 1, Len(b)))
           /\ Len(m \o SubSeq(b, 1, n)) = Len(m) + n
           /\ Len(SubSeq(b, n + 1, Len(b))) = Len(b) - n
<1> DEFINE taken == SubSeq(b, 1, n)
<1> DEFINE kept == SubSeq(b, n + 1, Len(b))
<1> DEFINE moved == m \o taken
<1>1. m \in Seq(Nat) /\ b \in Seq(Nat) /\ Len(m) \in Nat /\ Len(b) \in Nat
  BY DEF Ordered
<1>2. taken \in Seq(Nat) /\ Len(taken) = n /\ \A i \in 1..n : taken[i] = b[i]
  BY <1>1
<1>3. /\ kept \in Seq(Nat) /\ Len(kept) = Len(b) - n
      /\ \A i \in 1..(Len(b) - n) : kept[i] = b[n + i]
  BY <1>1
<1>4. /\ moved \in Seq(Nat) /\ Len(moved) = Len(m) + n
      /\ \A i \in 1..Len(m) : moved[i] = m[i]
      /\ \A i \in 1..n : moved[Len(m) + i] = taken[i]
  <2> HIDE DEF taken
  <2> QED BY <1>1, <1>2, ConcatFacts
<1> HIDE DEF taken, kept, moved
<1>5. \A i \in 1..Len(moved) : moved[i] = i
  <2> SUFFICES ASSUME NEW i \in 1..Len(moved)
               PROVE  moved[i] = i
    OBVIOUS
  <2>1. CASE i <= Len(m)
    BY <2>1, <1>1, <1>4 DEF Ordered
  <2>2. CASE ~(i <= Len(m))
    <3>1. PICK j \in 1..n : i = Len(m) + j
      <4>1. i - Len(m) \in 1..n /\ i = Len(m) + (i - Len(m))
        BY <2>2, <1>1, <1>4
      <4> QED BY <4>1
    <3>2. moved[i] = b[j]
      BY <3>1, <1>2, <1>4
    <3> QED BY <3>1, <3>2, <1>1 DEF Ordered
  <2> QED BY <2>1, <2>2
<1>6. \A i \in 1..Len(kept) : kept[i] = Len(moved) + i
  <2> SUFFICES ASSUME NEW i \in 1..Len(kept)
               PROVE  kept[i] = Len(moved) + i
    OBVIOUS
  <2>1. n + i \in 1..Len(b) /\ kept[i] = b[n + i]
    BY <1>1, <1>3
  <2>2. b[n + i] = Len(m) + (n + i)
    BY <2>1 DEF Ordered
  <2> QED BY <2>1, <2>2, <1>1, <1>3, <1>4
<1>7. Ordered(moved, kept)
  BY <1>3, <1>4, <1>5, <1>6 DEF Ordered
<1> QED BY <1>3, <1>4, <1>7 DEF moved, taken, kept

LEMMA AppendOrdered ==
    ASSUME NEW m, NEW b, Ordered(m, b), NEW d, d = Len(m) + Len(b) + 1
    PROVE  Ordered(m, Append(b, d)) /\ Len(Append(b, d)) = Len(b) + 1
<1>1. /\ m \in Seq(Nat) /\ b \in Seq(Nat) /\ Len(m) \in Nat /\ Len(b) \in Nat
      /\ \A i \in 1..Len(m) : m[i] = i
      /\ \A i \in 1..Len(b) : b[i] = Len(m) + i
  BY DEF Ordered
<1>2. /\ Append(b, d) \in Seq(Nat) /\ Len(Append(b, d)) = Len(b) + 1
      /\ \A i \in 1..Len(b) : Append(b, d)[i] = b[i]
      /\ Append(b, d)[Len(b) + 1] = d
  BY <1>1
<1>3. \A i \in 1..(Len(b) + 1) : Append(b, d)[i] = Len(m) + i
  <2> SUFFICES ASSUME NEW i \in 1..(Len(b) + 1)
               PROVE  Append(b, d)[i] = Len(m) + i
    OBVIOUS
  <2>1. CASE i \in 1..Len(b)
    BY <2>1, <1>1, <1>2
  <2>2. CASE i = Len(b) + 1
    BY <2>2, <1>1, <1>2
  <2> QED BY <2>1, <2>2, <1>1
<1> QED BY <1>1, <1>2, <1>3 DEF Ordered

LEMMA DrainedRange ==
    ASSUME Deliveries
    PROVE  Drained \in Nat /\ Drained <= Len(inbox)
BY ViewAssumption, OrderedLengths DEF Deliveries, Drained

LEMMA DrainKeeps ==
    ASSUME Deliveries, drainTo, delivered' = delivered, pushing' = pushing
    PROVE  Deliveries'
<1>1. Ordered(messages, inbox) /\ Drained \in Nat /\ Drained <= Len(inbox)
  BY DrainedRange DEF Deliveries
<1>2. /\ messages' = messages \o SubSeq(inbox, 1, Drained)
      /\ inbox' = SubSeq(inbox, Drained + 1, Len(inbox))
  BY DEF drainTo
<1>3. /\ Ordered(messages', inbox')
      /\ Len(messages') = Len(messages) + Drained /\ Len(inbox') = Len(inbox) - Drained
  BY <1>1, <1>2, MoveOrdered
<1>4. Held' = Held
  BY DEF Held
<1>5. Len(messages') + Len(inbox') + Held' = delivered'
  BY <1>1, <1>3, <1>4, HeldNat, OrderedLengths DEF Deliveries
<1> QED BY <1>3, <1>5 DEF Deliveries

LEMMA ScrollToKeeps ==
    ASSUME NEW n \in 0..MaxScrollOffset(Len(messages')), ScrollTo(n)
    PROVE  Scrolled'
BY DEF ScrollTo, Scrolled

\* The view's part of the invariant is kept by every operation of the presenter.
LEMMA RenderKeeps ==
    ASSUME Deliveries, Scrolled, Rest, Render
    PROVE  Deliveries' /\ Scrolled' /\ Rest'
<1>1. drainTo /\ delivered' = delivered /\ pushing' = pushing
  BY DEF Render
<1>2. Deliveries'
  BY <1>1, DrainKeeps
<1>3. Len(messages) \in Nat /\ Len(messages') \in Nat
  BY <1>2, OrderedLengths DEF Deliveries
<1>4. scroll_offset \in Int
  BY <1>3, MaxScrollOffsetNat DEF Scrolled
<1>5. Clamp(scroll_offset, 0, MaxScrollOffset(Len(messages'))) \in 0..MaxScrollOffset(Len(messages'))
  BY <1>3, <1>4, ClampInRange, MaxScrollOffsetNat
<1>6. ScrollTo(Clamp(scroll_offset, 0, MaxScrollOffset(Len(messages'))))
  BY DEF Render
<1>7. Scrolled'
  BY <1>5, <1>6, ScrollToKeeps
<1>8. Rest'
  BY <1>6 DEF Render, Rest, ScrollTo
<1> QED BY <1>2, <1>7, <1>8

LEMMA ScrollKeyKeeps ==
    ASSUME Deliveries, Scrolled, Rest, ScrollKey
    PROVE  Deliveries' /\ Scrolled' /\ Rest'
<1>1. /\ delivered' = delivered /\ pushing' = pushing /\ inbox' = inbox /\ messages' = messages
      /\ posted' = TRUE /\ show_help' = show_help /\ channel_names' = channel_names
      /\ connection_state' = connection_state
  BY DEF ScrollKey, PostEvent
<1>2. Deliveries'
  BY <1>1 DEF Deliveries, Held
<1> DEFINE most == MaxScrollOffset(Len(messages))
<1>3. most \in Nat /\ most = MaxScrollOffset(Len(messages'))
  BY <1>1, MaxScrollOffsetNat, OrderedLengths DEF Deliveries
<1>4. scroll_offset \in 0..most
  BY DEF Scrolled
<1>5. \/ UNCHANGED scroll
      \/ \E n \in 0..most : ScrollTo(n)
  <2>1. \/ UNCHANGED scroll
        \/ \E delta \in Deltas : ScrollTo(Clamp(scroll_offset + delta, 0, most))
        \/ ScrollTo(most)
        \/ ScrollTo(0)
    BY DEF ScrollKey
  <2> HIDE DEF most
  <2>2. ASSUME NEW delta \in Deltas
        PROVE  Clamp(scroll_offset + delta, 0, most) \in 0..most
    <3>1. scroll_offset + delta \in Int
      BY <1>3, <1>4, ViewAssumption DEF Deltas
    <3> QED BY <3>1, <1>3, ClampInRange
  <2>3. most \in 0..most /\ 0 \in 0..most
    BY <1>3
  <2> QED BY <2>1, <2>2, <2>3, Zenon
<1>6. Scrolled'
  <2>1. CASE UNCHANGED scroll
    BY <2>1, <1>1 DEF Scrolled, scroll
  <2>2. ASSUME NEW n \in 0..most, ScrollTo(n)
        PROVE  Scrolled'
    BY <2>2, <1>3, ScrollToKeeps
  <2> QED BY <1>5, <2>1, <2>2
<1>7. auto_scroll' \in BOOLEAN
  BY <1>5 DEF ScrollTo, scroll, Rest
<1> QED BY <1>1, <1>2, <1>6, <1>7 DEF Rest

LEMMA HelpKeyKeeps ==
    ASSUME Deliveries, Scrolled, Rest, HelpKey
    PROVE  Deliveries' /\ Scrolled' /\ Rest'
<1>1. Deliveries' /\ Scrolled'
  BY DEF HelpKey, scroll, Deliveries, Held, Scrolled
<1>2. Rest'
  BY DEF HelpKey, PostEvent, scroll, Rest
<1> QED BY <1>1, <1>2

LEMMA ShowMessageKeeps ==
    ASSUME Deliveries, Scrolled, Rest, ShowMessage
    PROVE  Deliveries' /\ Scrolled' /\ Rest'
<1>1. /\ inbox' = inbox /\ messages' = messages /\ delivered' = delivered + 1
      /\ delivered < MaxMessages
  BY DEF ShowMessage
<1>2. Held = 0 /\ Held' = 1
  BY DEF ShowMessage, Held
<1>3. Deliveries'
  BY <1>1, <1>2, ViewAssumption, OrderedLengths DEF Deliveries
<1>4. Scrolled'
  BY DEF ShowMessage, Scrolled
<1>5. Rest'
  BY DEF ShowMessage, Rest
<1> QED BY <1>3, <1>4, <1>5

LEMMA PushKeeps ==
    ASSUME Deliveries, Scrolled, Rest, Push
    PROVE  Deliveries' /\ Scrolled' /\ Rest'
<1>1. inbox' = Append(inbox, delivered) /\ messages' = messages /\ delivered' = delivered
  BY DEF Push
<1>2. Held = 1 /\ Held' = 0
  BY DEF Push, Held
<1>3. Ordered(messages, inbox) /\ delivered = Len(messages) + Len(inbox) + 1
  BY <1>2, OrderedLengths DEF Deliveries
<1>4. Ordered(messages', inbox') /\ Len(inbox') = Len(inbox) + 1
  BY <1>1, <1>3, AppendOrdered
<1>5. Deliveries'
  BY <1>1, <1>2, <1>3, <1>4, OrderedLengths DEF Deliveries
<1>6. Scrolled' /\ Rest'
  BY DEF Push, PostEvent, scroll, Scrolled, Rest
<1> QED BY <1>5, <1>6

\* showChannelList, updateConnectionState and the toasts.
LEMMA StatusKeeps ==
    ASSUME Deliveries, Scrolled, Rest,
           \/ \E n \in Nat : showChannelList(n)
           \/ \E s \in {"Connecting", "Connected", "NetworkError", "Closed"} : updateConnectionState(s)
           \/ showToast
           \/ UNCHANGED view
    PROVE  Deliveries' /\ Scrolled' /\ Rest'
<1>1. /\ UNCHANGED <<delivered, pushing, inbox, messages, scroll, show_help>>
      /\ channel_names' \in Nat
      /\ connection_state' \in {"Connecting", "Connected", "NetworkError", "Closed"}
      /\ posted' \in BOOLEAN
  BY DEF Rest, showChannelList, updateConnectionState, showToast, PostEvent, view, scroll
<1>2. Deliveries'
  BY <1>1 DEF Deliveries, Held
<1>3. Scrolled' /\ Rest'
  BY <1>1 DEF Scrolled, Rest, scroll
<1> QED BY <1>2, <1>3

-----------------------------------------------------------------------------
(* The steps.                                                              *)

LEMMA InitIInv == Init => IInv
<1> SUFFICES ASSUME Init PROVE IInv
  OBVIOUS
<1>1. Deliveries
  <2>1. messages = <<>> /\ inbox = <<>> /\ delivered = 0 /\ Held = 0
    BY DEF Init, ViewInit, Held
  <2>2. Ordered(<<>>, <<>>)
    BY DEF Ordered
  <2> QED BY <2>1, <2>2, ViewAssumption DEF Deliveries
<1>2. Scrolled
  <2>1. scroll_offset = 0 /\ auto_scroll = TRUE /\ Len(messages) = 0
    BY DEF Init, ViewInit
  <2> QED BY <2>1, MaxScrollOffsetNat DEF Scrolled
<1>3. Rest
  BY DEF Init, ViewInit, Rest
<1>4. Counts
  <2>1. fetched = 0 /\ channels = 1
    BY DEF Init
  <2> QED BY <2>1, ChannelsAssumption DEF Counts
<1>5. Modes
  BY DEF Init, Modes
<1> QED BY <1>1, <1>2, <1>3, <1>4, <1>5 DEF IInv, ThreadsOK

LEMMA NextIInv == IInv /\ [Next]_vars => IInv'
<1> SUFFICES ASSUME Deliveries, Scrolled, Rest, ThreadsOK, [Next]_vars
             PROVE  Deliveries' /\ Scrolled' /\ Rest' /\ ThreadsOK'
  BY DEF IInv
<1> DEFINE V == Deliveries' /\ Scrolled' /\ Rest'
<1>0. channels \in 1..MaxChannels /\ channels \in Nat /\ fetched \in 0..MaxChannels /\ fetched \in Nat
  BY ChannelsAssumption DEF ThreadsOK, Counts
<1>1. CASE Key
  <2>1. V
    BY <1>1, ScrollKeyKeeps, HelpKeyKeeps DEF Key
  <2>2. ThreadsOK'
    BY <1>1 DEF Key, threads, server, ThreadsOK, Counts, Modes
  <2> QED BY <2>1, <2>2
<1>2. CASE Draw
  <2>1. V
    BY <1>2, RenderKeeps DEF Draw
  <2>2. ThreadsOK'
    BY <1>2 DEF Draw, threads, server, ThreadsOK, Counts, Modes
  <2> QED BY <2>1, <2>2
<1>3. CASE Command
  <2>1. V
    BY <1>3, StatusKeeps DEF Command
  <2>2. ThreadsOK'
    <3>1. channels' = channels \/ (channels < MaxChannels /\ channels' = channels + 1)
      BY <1>3 DEF Command
    <3>2. Counts'
      BY <3>1, <1>0, <1>3, ChannelsAssumption DEF Command, Counts
    <3>3. Modes'
      BY <1>3 DEF Command, ThreadsOK, Modes
    <3> QED BY <3>2, <3>3 DEF ThreadsOK
  <2> QED BY <2>1, <2>2
<1>4. CASE CommandDone
  <2>1. V
    BY <1>0, <1>4, StatusKeeps DEF CommandDone
  <2>2. ThreadsOK'
    BY <1>4 DEF CommandDone, server, ThreadsOK, Counts, Modes
  <2> QED BY <2>1, <2>2
<1>5. CASE Quit
  <2>1. V
    BY <1>5, StatusKeeps DEF Quit
  <2>2. ThreadsOK'
    BY <1>5 DEF Quit, server, ThreadsOK, Counts, Modes
  <2> QED BY <2>1, <2>2
<1>6. CASE Notify
  <2>1. V
    BY <1>6, StatusKeeps DEF Notify
  <2>2. ThreadsOK'
    BY <1>6 DEF Notify, server, ThreadsOK, Counts, Modes
  <2> QED BY <2>1, <2>2
<1>7. CASE Disconnect
  <2>1. V
    BY <1>7, StatusKeeps DEF Disconnect
  <2>2. ThreadsOK'
    BY <1>7 DEF Disconnect, ThreadsOK, Counts, Modes
  <2> QED BY <2>1, <2>2
<1>8. CASE PollWait
  <2>1. V
    BY <1>8, StatusKeeps DEF PollWait
  <2>2. ThreadsOK'
    BY <1>8 DEF PollWait, server, ThreadsOK, Counts, Modes
  <2> QED BY <2>1, <2>2
<1>9. CASE PollTimeout
  <2>1. UNCHANGED view \/ showToast
    BY <1>9 DEF PollTimeout, PollList
  <2>2. V
    BY <2>1, StatusKeeps
  <2>3. ThreadsOK'
    <3>1. fetched' \in {fetched, channels} /\ channels' = channels
      BY <1>9 DEF PollTimeout, PollList, server
    <3>2. Counts'
      BY <3>1, <1>0, ChannelsAssumption DEF Counts
    <3>3. Modes'
      BY <1>9 DEF PollTimeout, PollList, server, ThreadsOK, Modes
    <3> QED BY <3>2, <3>3 DEF ThreadsOK
  <2> QED BY <2>2, <2>3
<1>10. CASE PollShow
  <2>1. V
    BY <1>0, <1>10, StatusKeeps DEF PollShow
  <2>2. Counts'
    BY <1>0, <1>10, ChannelsAssumption DEF PollShow, server, Counts
  <2>3. Modes'
    BY <1>10 DEF PollShow, PollNext, server, ThreadsOK, Modes
  <2> QED BY <2>1, <2>2, <2>3 DEF ThreadsOK
<1>11. CASE Beat
  <2>1. V
    BY <1>11, StatusKeeps DEF Beat
  <2>2. ThreadsOK'
    BY <1>11 DEF Beat, Answer, server, ThreadsOK, Counts, Modes
  <2> QED BY <2>1, <2>2
<1>12. CASE BeatShow
  <2>1. beat \in {"Connected", "NetworkError"}
    BY <1>12 DEF BeatShow, ThreadsOK, Counts, Modes
  <2>2. V
    BY <1>12, <2>1, StatusKeeps DEF BeatShow
  <2>3. ThreadsOK'
    BY <1>12 DEF BeatShow, server, ThreadsOK, Counts, Modes
  <2> QED BY <2>2, <2>3
<1>13. CASE WatchRead
  <2>1. V
    BY <1>13, StatusKeeps DEF WatchRead
  <2>2. ThreadsOK'
    BY <1>13 DEF WatchRead, server, ThreadsOK, Counts, Modes
  <2> QED BY <2>1, <2>2
<1>14. CASE WatchShow
  <2>1. V
    BY <1>14, StatusKeeps DEF WatchShow
  <2>2. ThreadsOK'
    BY <1>14 DEF WatchShow, server, ThreadsOK, Counts, Modes
  <2> QED BY <2>1, <2>2
<1>15. CASE Receive
  <2>1. V
    BY <1>15, ShowMessageKeeps DEF Receive
  <2>2. ThreadsOK'
    BY <1>15 DEF Receive, threads, server, ThreadsOK, Counts, Modes
  <2> QED BY <2>1, <2>2
<1>16. CASE Deliver
  <2>1. V
    BY <1>16, PushKeeps DEF Deliver
  <2>2. ThreadsOK'
    BY <1>16 DEF Deliver, threads, server, ThreadsOK, Counts, Modes
  <2> QED BY <2>1, <2>2
<1>17. CASE LinkChanges
  <2>1. V
    BY <1>17, StatusKeeps DEF LinkChanges
  <2>2. ThreadsOK'
    BY <1>17 DEF LinkChanges, threads, server, ThreadsOK, Counts, Modes
  <2> QED BY <2>1, <2>2
<1>18. CASE ServerChanges
  <2>1. V
    BY <1>18, StatusKeeps DEF ServerChanges
  <2>2. ThreadsOK'
    <3>1. /\ channels' = channels \/ (channels < MaxChannels /\ channels' = channels + 1)
          /\ fetched' = fetched
      BY <1>18 DEF ServerChanges, threads
    <3>2. Counts'
      BY <3>1, <1>0, ChannelsAssumption DEF Counts
    <3>3. Modes'
      BY <1>18 DEF ServerChanges, threads, ThreadsOK, Modes
    <3> QED BY <3>2, <3>3 DEF ThreadsOK
  <2> QED BY <2>1, <2>2
<1>19. CASE UNCHANGED vars
  <2>1. V
    BY <1>19, StatusKeeps DEF vars
  <2>2. ThreadsOK'
    BY <1>19 DEF vars, threads, server, ThreadsOK, Counts, Modes
  <2> QED BY <2>1, <2>2
<1> QED
  BY <1>1, <1>2, <1>3, <1>4, <1>5, <1>6, <1>7, <1>8, <1>9, <1>10, <1>11, <1>12, <1>13,
     <1>14, <1>15, <1>16, <1>17, <1>18, <1>19
  DEF Next, Shutdown, Poll

-----------------------------------------------------------------------------
(* What follows.                                                           *)

LEMMA IInvTypeOK == IInv => TypeOK
<1> SUFFICES ASSUME IInv PROVE TypeOK
  OBVIOUS
<1>1. Len(messages) \in Nat /\ Len(inbox) \in Nat /\ delivered \in 0..MaxMessages
      /\ Len(messages) + Len(inbox) <= delivered
  BY HeldNat, OrderedLengths, ViewAssumption DEF IInv, Deliveries
<1>2. MaxScrollOffset(Len(messages)) <= MaxMessages
  BY <1>1, ViewAssumption DEF MaxScrollOffset, Larger
<1>3. scroll_offset \in 0..MaxMessages
  BY <1>1, <1>2, MaxScrollOffsetNat, ViewAssumption DEF IInv, Scrolled
<1>4. ViewTypeOK
  BY <1>1, <1>3, ViewAssumption DEF IInv, Deliveries, Scrolled, Rest, ViewTypeOK
<1> QED BY <1>4 DEF IInv, ThreadsOK, Counts, Modes, TypeOK

LEMMA IInvInOrder == IInv => InOrder
<1> SUFFICES ASSUME IInv PROVE InOrder
  OBVIOUS
<1>1. /\ messages \in Seq(Nat) /\ inbox \in Seq(Nat)
      /\ \A i \in 1..Len(messages) : messages[i] = i
      /\ \A i \in 1..Len(inbox) : inbox[i] = Len(messages) + i
  BY DEF IInv, Deliveries, Ordered
<1>2. ASSUME NEW i \in 1..Len(messages \o inbox)
      PROVE  (messages \o inbox)[i] = i
  <2>1. CASE i <= Len(messages)
    BY <1>1, <2>1
  <2>2. CASE i > Len(messages)
    <3>1. (messages \o inbox)[i] = inbox[i - Len(messages)] /\ i - Len(messages) \in 1..Len(inbox)
      BY <1>1, <2>2
    <3> QED BY <1>1, <3>1
  <2> QED BY <1>1, <2>1, <2>2
<1>3. Len(messages \o inbox) = Len(messages) + Len(inbox)
  BY <1>1, ConcatFacts
<1> QED BY <1>2, <1>3 DEF IInv, Deliveries, Held, InOrder

\* A window whose offset is in range is full and ends offset lines before the end.
LEMMA WindowFull ==
    ASSUME NEW count \in Nat, NEW offset \in 0..MaxScrollOffset(count)
    PROVE  LET window == computeScrollWindow(count, offset, Viewport)
           IN  /\ window.first >= 0
               /\ window.last - window.first = (IF count < Viewport THEN count ELSE Viewport)
               /\ window.last = count - offset
<1> DEFINE most == MaxScrollOffset(count)
<1> DEFINE first == Larger(count - Viewport - offset, 0)
<1> DEFINE last == IF first + Viewport < count THEN first + Viewport ELSE count
<1>1. most \in Nat /\ offset \in Nat /\ offset <= most /\ Viewport \in Nat \ {0}
  BY MaxScrollOffsetNat, ViewAssumption
<1>2. Clamp(offset, 0, most) = offset
  BY <1>1 DEF Clamp
<1>3. computeScrollWindow(count, offset, Viewport) = [first |-> first, last |-> last]
  BY <1>2 DEF computeScrollWindow, MaxScrollOffset
<1>4. CASE count < Viewport
  <2>1. most = 0 /\ offset = 0
    BY <1>1, <1>4 DEF MaxScrollOffset, Larger
  <2>2. first = 0 /\ last = count
    BY <2>1, <1>1, <1>4 DEF Larger
  <2> QED BY <1>3, <1>4, <2>1, <2>2
<1>5. CASE ~(count < Viewport)
  <2>1. most = count - Viewport
    BY <1>1, <1>5 DEF MaxScrollOffset, Larger
  <2> HIDE DEF most
  <2>2. first = count - Viewport - offset /\ last = count - offset /\ first >= 0
    BY <2>1, <1>1, <1>5 DEF Larger
  <2>3. last - first = Viewport
    BY <2>2, <1>1
  <2> HIDE DEF first, last
  <2> QED BY <1>3, <1>5, <2>2, <2>3
<1> QED BY <1>4, <1>5

LEMMA IInvWindow == IInv => WindowIsRight
<1> SUFFICES ASSUME IInv PROVE WindowIsRight
  OBVIOUS
<1> DEFINE count == Len(messages)
<1> DEFINE window == computeScrollWindow(count, scroll_offset, Viewport)
<1>1. count \in Nat /\ scroll_offset \in 0..MaxScrollOffset(count)
  BY OrderedLengths DEF IInv, Deliveries, Scrolled
<1>2. /\ window.first >= 0
      /\ window.last - window.first = (IF count < Viewport THEN count ELSE Viewport)
      /\ window.last = count - scroll_offset
  BY <1>1, WindowFull
<1>3. scroll_offset = 0 <=> window.last = count
  <2>1. scroll_offset \in Nat
    BY <1>1, MaxScrollOffsetNat
  <2> HIDE DEF window, count
  <2> QED BY <1>1, <1>2, <2>1
<1>4. auto_scroll <=> scroll_offset = 0
  BY DEF IInv, Scrolled
<1> QED BY <1>2, <1>3, <1>4 DEF WindowIsRight

LEMMA Invariant == Spec => []IInv
<1>1. IInv /\ [Next]_vars => IInv'
  BY NextIInv
<1> QED BY <1>1, InitIInv, PTL DEF Spec

\* The presenter's fields and the threads' states stay in range: the scroll
\* offset of scrollByLocked never leaves the list.
THEOREM TypeCorrect == Spec => []TypeOK
BY Invariant, IInvTypeOK, PTL

\* For every drain limit, the list drawn by render and the inbox behind it hold
\* the deliveries of showMessage once each and in their order.
THEOREM InOrderCorrect == Spec => []InOrder
BY Invariant, IInvInOrder, PTL

\* For every window height, computeScrollWindow yields a full window over the
\* list at the offset the keys have set.
THEOREM WindowIsRightCorrect == Spec => []WindowIsRight
BY Invariant, IInvWindow, PTL
=============================================================================
