------------------------ MODULE ChannelListPublisher ------------------------
(***************************************************************************)
(* The live channel list, from the repository to the web page:             *)
(* GrpcChannelListPublisher and the SubscribeToChannelList handler, the    *)
(* use cases that publish to it, and the hook useChannels with the         *)
(* channels store at the other end of the stream.                          *)
(*                                                                         *)
(* A stream is one mounting of the hook, its SubscribeToChannelList call   *)
(* and its WriterEntry.  A page subscribes again only after its previous   *)
(* handler has returned (ClientPublisher models what happens otherwise:    *)
(* unregisterSubscriber is the same code in both publishers), so that      *)
(* client ids and streams correspond.                                      *)
(***************************************************************************)
EXTENDS Integers, Sequences, FiniteSets

CONSTANTS
    Channels, \* channel ids
    General,  \* the channel the server seeds
    Clients,  \* clients that join and leave
    Streams,  \* mountings of useChannels (bounds their number)
    Workers,  \* gRPC threads and the sweeper
    MaxEdits, \* bounds the joins, leaves and expiries
    None      \* no stream

ASSUME ListAssumption ==
    /\ General \in Channels
    /\ None \notin Streams
    /\ IsFiniteSet(Clients)
    /\ MaxEdits \in Nat

VARIABLES
    members, \* the repository: channel -> member set, for the channels created
    writers, \* the streams with an entry in writers_
    mutex,   \* the stream whose registration holds mutex_, or None
    handler, \* where the SubscribeToChannelList call of each stream is
    listed,  \* what the stream's registration read from the repository
    wire,    \* stream -> events written and not yet read by the page
    hook,    \* where each mounting of useChannels is
    store,   \* stream -> the channels store: channel -> member count
    worker,  \* the use case a thread is in
    edits,   \* edits begun so far
    overlap  \* edits have overlapped, or a session has expired (history)

vars == <<members, writers, mutex, handler, listed, wire, hook, store, worker, edits, overlap>>

Idle == [pc |-> "idle", channel |-> General, copy |-> {}, event |-> <<>>, targets |-> {}]

Empty == [h \in {} |-> 0]

\* populate_channel_summary for every channel of the repository.
Summaries == [h \in DOMAIN members |-> Cardinality(members[h])]

Event(kind, counts) == [kind |-> kind, counts |-> counts]

\* The server has been running: General has some members.
Init ==
    /\ members \in [{General} -> SUBSET Clients]
    /\ writers = {}
    /\ mutex = None
    /\ handler = [s \in Streams |-> "none"]
    /\ listed = [s \in Streams |-> Empty]
    /\ wire = [s \in Streams |-> <<>>]
    /\ hook = [s \in Streams |-> "unmounted"]
    /\ store = [s \in Streams |-> Empty]
    /\ worker = [t \in Workers |-> Idle]
    /\ edits = 0
    /\ overlap = FALSE

-----------------------------------------------------------------------------
(* The SubscribeToChannelList handler.                                     *)

\* ServerWriter::Write, which reaches the page while it still listens.
Written(s, event) ==
    IF hook[s] = "live" THEN [wire EXCEPT ![s] = Append(@, event)] ELSE wire

\* SubscribeToChannelList::execute: the session is gone.  The call fails.
Refuse(s) ==
    /\ handler[s] = "called"
    /\ handler' = [handler EXCEPT ![s] = "returned"]
    /\ UNCHANGED <<members, writers, mutex, listed, wire, hook, store, worker, edits, overlap>>

\* Fault variant: mutex_ is not held across the snapshot.
RegisterUnlocked(s) ==
    /\ handler[s] = "called"
    /\ mutex = None
    /\ handler' = [handler EXCEPT ![s] = "listed"]
    /\ listed' = [listed EXCEPT ![s] = Summaries]
    /\ writers' = writers \cup {s}
    /\ UNCHANGED <<members, mutex, wire, hook, store, worker, edits, overlap>>

\* registerSubscriberWithSnapshot takes mutex_, files the entry and lists the
\* repository ...
Register(s) ==
    /\ handler[s] = "called"
    /\ mutex = None
    /\ mutex' = s
    /\ handler' = [handler EXCEPT ![s] = "listed"]
    /\ listed' = [listed EXCEPT ![s] = Summaries]
    /\ writers' = writers \cup {s}
    /\ UNCHANGED <<members, wire, hook, store, worker, edits, overlap>>

\* Fault variant: the lock is never released.
WriteSnapshotKeepsLock(s) ==
    /\ handler[s] = "listed"
    /\ wire' = Written(s, Event("snapshot", listed[s]))
    /\ listed' = [listed EXCEPT ![s] = Empty]
    /\ handler' = [handler EXCEPT ![s] = "open"]
    /\ UNCHANGED <<members, writers, mutex, hook, store, worker, edits, overlap>>

\* ... and writes what it found before it lets go of mutex_.
WriteSnapshot(s) ==
    /\ handler[s] = "listed"
    /\ wire' = Written(s, Event("snapshot", listed[s]))
    /\ listed' = [listed EXCEPT ![s] = Empty]
    /\ handler' = [handler EXCEPT ![s] = "open"]
    /\ mutex' = None
    /\ UNCHANGED <<members, writers, hook, store, worker, edits, overlap>>

\* The polling loop sees that the page is gone: unregisterSubscriber.
Unregister(s) ==
    /\ handler[s] = "open"
    /\ hook[s] \notin {"live"}
    /\ mutex = None
    /\ writers' = writers \ {s}
    /\ handler' = [handler EXCEPT ![s] = "returned"]
    /\ UNCHANGED <<members, mutex, listed, wire, hook, store, worker, edits, overlap>>

-----------------------------------------------------------------------------
(* The use cases: a change of the repository, then a publication.          *)

Put(t, w) == worker' = [worker EXCEPT ![t] = w]

\* Another thread is between its first read and the end of its publication.
Busy(t) == \E u \in Workers \ {t} : worker[u].pc # "idle"

\* CreateChannel::execute: the repository's create; the event has the new
\* channel's count.
Create(t, h) ==
    /\ worker[t].pc = "idle"
    /\ h \notin DOMAIN members
    /\ members' = [x \in DOMAIN members \cup {h} |-> IF x = h THEN {} ELSE members[x]]
    /\ Put(t, [Idle EXCEPT !.pc = "lookup", !.channel = h,
                           !.event = Event("created", [x \in {h} |-> 0])])
    /\ overlap' = (overlap \/ Busy(t))
    /\ UNCHANGED <<writers, mutex, handler, listed, wire, hook, store, edits>>

\* A join, a leave (also one of leaveOtherChannels, or of Disconnect) or an
\* expiry copies the channel ...
ReadCopy(t, h) ==
    /\ worker[t].pc = "idle"
    /\ edits < MaxEdits
    /\ h \in DOMAIN members
    /\ Put(t, [Idle EXCEPT !.pc = "edit", !.channel = h, !.copy = members[h]])
    /\ edits' = edits + 1
    /\ overlap' = (overlap \/ Busy(t))
    /\ UNCHANGED <<members, writers, mutex, handler, listed, wire, hook, store>>

\* ... and saves the edited copy over whatever the repository holds by then.
SaveCopy(t, edited) == members' = [members EXCEPT ![worker[t].channel] = edited]

Changed(t, edited) == Event("changed", [x \in {worker[t].channel} |-> Cardinality(edited)])

\* Fault variant: the count is taken before the copy is edited.
AddMemberCountsFirst(t, c) ==
    /\ worker[t].pc = "edit"
    /\ c \notin worker[t].copy
    /\ SaveCopy(t, worker[t].copy \cup {c})
    /\ Put(t, [worker[t] EXCEPT !.pc = "lookup", !.copy = {}, !.event = Changed(t, worker[t].copy)])
    /\ UNCHANGED <<writers, mutex, handler, listed, wire, hook, store, edits, overlap>>

\* JoinChannel publishes the size of its own copy.
AddMember(t, c) ==
    /\ worker[t].pc = "edit"
    /\ c \notin worker[t].copy
    /\ SaveCopy(t, worker[t].copy \cup {c})
    /\ Put(t, [worker[t] EXCEPT !.pc = "lookup", !.copy = {},
                                !.event = Changed(t, worker[t].copy \cup {c})])
    /\ UNCHANGED <<writers, mutex, handler, listed, wire, hook, store, edits, overlap>>

\* LeaveChannel and leaveOtherChannels save, and are going to read the channel
\* once more.
RemoveMember(t, c) ==
    /\ worker[t].pc = "edit"
    /\ c \in worker[t].copy
    /\ SaveCopy(t, worker[t].copy \ {c})
    /\ Put(t, [worker[t] EXCEPT !.pc = "recount", !.copy = {}])
    /\ UNCHANGED <<writers, mutex, handler, listed, wire, hook, store, edits, overlap>>

\* leaveOtherChannels passes over NotAMember and publishes the count all the same.
PassOver(t, c) ==
    /\ worker[t].pc = "edit"
    /\ c \notin worker[t].copy
    /\ Put(t, [worker[t] EXCEPT !.pc = "recount", !.copy = {}])
    /\ UNCHANGED <<members, writers, mutex, handler, listed, wire, hook, store, edits, overlap>>

\* Fault variant: the count is decremented, also where nothing was removed.
RecountDown(t) ==
    /\ worker[t].pc = "recount"
    /\ Put(t, [worker[t] EXCEPT !.pc = "lookup",
                 !.event = Event("changed", [x \in {worker[t].channel} |->
                                                Cardinality(members[worker[t].channel]) - 1])])
    /\ UNCHANGED <<members, writers, mutex, handler, listed, wire, hook, store, edits, overlap>>

Recount(t) ==
    /\ worker[t].pc = "recount"
    /\ Put(t, [worker[t] EXCEPT !.pc = "lookup", !.event = Changed(t, members[worker[t].channel])])
    /\ UNCHANGED <<members, writers, mutex, handler, listed, wire, hook, store, edits, overlap>>

\* Nothing to do: a member joins again, or LeaveChannel fails with NotAMember.
NoEdit(t, c) ==
    /\ worker[t].pc = "edit"
    /\ Put(t, Idle)
    /\ UNCHANGED <<members, writers, mutex, handler, listed, wire, hook, store, edits, overlap>>

\* ExpireInactiveClients::run saves and publishes no count.
ExpireMember(t, c) ==
    /\ worker[t].pc = "edit"
    /\ c \in worker[t].copy
    /\ SaveCopy(t, worker[t].copy \ {c})
    /\ Put(t, Idle)
    /\ overlap' = TRUE
    /\ UNCHANGED <<writers, mutex, handler, listed, wire, hook, store, edits>>

\* The rest of a publication; it returns when no entry is left.
WriteTo(t, targets) ==
    IF targets = {} THEN Idle ELSE [worker[t] EXCEPT !.pc = "write", !.targets = targets]

\* publishChannelCreated and publishMemberCountChanged copy the entries under
\* mutex_ ...
Lookup(t) ==
    /\ worker[t].pc = "lookup"
    /\ mutex = None
    /\ Put(t, WriteTo(t, writers))
    /\ UNCHANGED <<members, writers, mutex, handler, listed, wire, hook, store, edits, overlap>>

\* ... and write to each, in the order of a hash map, unless its writer has been
\* cleared meanwhile.
WriteEvent(t, s) ==
    /\ worker[t].pc = "write"
    /\ s \in worker[t].targets
    /\ wire' = IF s \in writers THEN Written(s, worker[t].event) ELSE wire
    /\ Put(t, WriteTo(t, worker[t].targets \ {s}))
    /\ UNCHANGED <<members, writers, mutex, handler, listed, hook, store, edits, overlap>>

-----------------------------------------------------------------------------
(* useChannels and the channels store.                                     *)

\* The effect opens the stream.
Mount(s) ==
    /\ hook[s] = "unmounted"
    /\ handler[s] = "none"
    /\ hook' = [hook EXCEPT ![s] = "live"]
    /\ handler' = [handler EXCEPT ![s] = "called"]
    /\ UNCHANGED <<members, writers, mutex, listed, wire, store, worker, edits, overlap>>

applyCreated(channels, counts) ==
    [h \in DOMAIN channels \cup DOMAIN counts |->
        IF h \in DOMAIN counts THEN counts[h] ELSE channels[h]]

applyMemberCountChanged(channels, counts) ==
    [h \in DOMAIN channels |-> IF h \in DOMAIN counts THEN counts[h] ELSE channels[h]]

\* processChannelListEvent; a snapshot replaces the map.
Apply(channels, event) ==
    CASE event.kind = "snapshot" -> event.counts
      [] event.kind = "created" -> applyCreated(channels, event.counts)
      [] event.kind = "changed" -> applyMemberCountChanged(channels, event.counts)

Receive(s) ==
    /\ hook[s] = "live"
    /\ wire[s] # <<>>
    /\ store' = [store EXCEPT ![s] = Apply(@, Head(wire[s]))]
    /\ wire' = [wire EXCEPT ![s] = Tail(@)]
    /\ UNCHANGED <<members, writers, mutex, handler, listed, hook, worker, edits, overlap>>

\* Fault variant: the error path empties the store.
FailResets(s) ==
    /\ hook[s] = "live"
    /\ hook' = [hook EXCEPT ![s] = "failed"]
    /\ wire' = [wire EXCEPT ![s] = <<>>]
    /\ store' = [store EXCEPT ![s] = Empty]
    /\ UNCHANGED <<members, writers, mutex, handler, listed, worker, edits, overlap>>

\* The stream fails, or ends because it was refused: the error is shown, what
\* the store holds stays, and nothing subscribes again.
Fail(s) ==
    /\ hook[s] = "live"
    /\ hook' = [hook EXCEPT ![s] = "failed"]
    /\ wire' = [wire EXCEPT ![s] = <<>>]
    /\ UNCHANGED <<members, writers, mutex, handler, listed, store, worker, edits, overlap>>

\* The effect's cleanup: abort the stream, reset the store.
Unmount(s) ==
    /\ hook[s] \in {"live", "failed"}
    /\ hook' = [hook EXCEPT ![s] = "gone"]
    /\ wire' = [wire EXCEPT ![s] = <<>>]
    /\ store' = [store EXCEPT ![s] = Empty]
    /\ UNCHANGED <<members, writers, mutex, handler, listed, worker, edits, overlap>>

-----------------------------------------------------------------------------

Serve(s) == Refuse(s) \/ Register(s) \/ WriteSnapshot(s) \/ Unregister(s)

Publish(t) == Recount(t) \/ Lookup(t) \/ \E s \in Streams : WriteEvent(t, s)

Edit(t, c) ==
    AddMember(t, c) \/ RemoveMember(t, c) \/ PassOver(t, c) \/ NoEdit(t, c) \/ ExpireMember(t, c)

Next ==
    \/ \E s \in Streams : Serve(s) \/ Mount(s) \/ Receive(s) \/ Fail(s) \/ Unmount(s)
    \/ \E t \in Workers :
          \/ Publish(t)
          \/ \E h \in Channels : Create(t, h) \/ ReadCopy(t, h)
          \/ \E c \in Clients : Edit(t, c)

Spec == Init /\ [][Next]_vars

\* Threads are scheduled, gRPC completes or fails a Write, the page's event loop
\* runs.  Nobody owes a request or an unmounting.
FairSpec ==
    /\ Spec
    /\ \A s \in Streams : WF_vars(Serve(s)) /\ WF_vars(Receive(s))
    /\ \A t \in Workers : WF_vars(Publish(t)) /\ WF_vars(\E c \in Clients : Edit(t, c))

-----------------------------------------------------------------------------
(* Properties.                                                             *)

\* Member counts of some of the channels.
IsCounts(counts) ==
    /\ counts = [h \in DOMAIN counts |-> counts[h]]
    /\ DOMAIN counts \subseteq Channels
    /\ \A h \in DOMAIN counts : counts[h] \in Nat

IsEvent(event) ==
    /\ event = Event(event.kind, event.counts)
    /\ event.kind \in {"snapshot", "created", "changed"}
    /\ IsCounts(event.counts)

TypeOK ==
    /\ General \in DOMAIN members /\ DOMAIN members \subseteq Channels
    /\ \A h \in DOMAIN members : members[h] \subseteq Clients
    /\ writers \subseteq Streams
    /\ mutex \in Streams \cup {None}
    /\ handler \in [Streams -> {"none", "called", "listed", "open", "returned"}]
    /\ \A s \in Streams : IsCounts(listed[s]) /\ IsCounts(store[s])
    /\ \A s \in Streams : \A i \in DOMAIN wire[s] : IsEvent(wire[s][i])
    /\ hook \in [Streams -> {"unmounted", "live", "failed", "gone"}]
    /\ \A t \in Workers :
          /\ worker[t].pc \in {"idle", "edit", "recount", "lookup", "write"}
          /\ worker[t].targets \subseteq Streams
          /\ worker[t].pc \in {"lookup", "write"} => IsEvent(worker[t].event)
    /\ edits \in 0..MaxEdits
    /\ overlap \in BOOLEAN

\* The streams over which the list is complete or on its way.
Subscribed(s) == hook[s] = "live" /\ handler[s] = "open"

\* The event tells of channel h.
Tells(event, h) == event.kind # "changed" /\ h \in DOMAIN event.counts

\* Worker t has still to tell stream s of channel h.
Owes(t, s, h) ==
    /\ worker[t].pc = "lookup" \/ (worker[t].pc = "write" /\ s \in worker[t].targets)
    /\ Tells(worker[t].event, h)

\* However creations and registrations overlap, a channel is in the page's
\* store, on the wire to it, or in the hands of a thread that will send it:
\* registerSubscriberWithSnapshot misses none between its snapshot and the
\* first event.
NoChannelMissed ==
    \A s \in Streams : Subscribed(s) =>
       \A h \in DOMAIN members :
          \/ h \in DOMAIN store[s]
          \/ \E i \in DOMAIN wire[s] : Tells(wire[s][i], h)
          \/ \E t \in Workers : Owes(t, s, h)

\* Once all is quiet, the page shows the repository's member counts, provided no
\* two changes overlapped and no session expired (an expiry publishes nothing);
\* the page may have subscribed at any point of any change.
CountsAgree ==
    \A s \in Streams :
       /\ Subscribed(s)
       /\ ~overlap
       /\ wire[s] = <<>>
       /\ \A t \in Workers : worker[t].pc = "idle"
       => store[s] = Summaries

\* A page that keeps watching comes to show every channel that is created,
\* although registrations hold mutex_ while they write.
EventuallyShown ==
    \A s \in Streams : \A h \in Channels :
       (hook[s] = "live" /\ h \in DOMAIN members)
          ~> (h \in DOMAIN store[s] \/ hook[s] # "live" \/ handler[s] = "returned")

Directory == INSTANCE ChannelDirectory
    WITH Viewers <- Streams,
         existing <- DOMAIN members,
         watching <- {s \in Streams : hook[s] \in {"live", "failed"}},
         shown <- [s \in Streams |-> DOMAIN store[s]]

\* The publisher, the wire and the store together implement ChannelDirectory: a
\* page shows only channels that exist and, while mounted, never loses one,
\* although a snapshot replaces the whole store.
ImplementsDirectory == Directory!Spec
=============================================================================
