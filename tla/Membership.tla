----------------------------- MODULE Membership -----------------------------
(***************************************************************************)
(* Who is connected and who is a member of what: the client registry, the  *)
(* channel repository, and the use cases that change them from concurrent  *)
(* gRPC threads and from the heartbeat sweeper.                            *)
(*                                                                         *)
(* Each registry or repository call takes and releases one lock, so one    *)
(* call is one step; a use case is a sequence of such steps.  A channel    *)
(* read from the repository is a COPY: the use case edits the copy and     *)
(* saves it whole in a later step, and the thread's frame carries it.      *)
(* Broadcasts and member-count events touch neither store; they belong to  *)
(* the step they follow (ClientPublisher models delivery).                 *)
(***************************************************************************)
CONSTANTS
    ClientIds,   \* the UUIDs ClientId::generate can return (bounds the Connects)
    Usernames,   \* valid usernames, after trimming
    ChannelIds,  \* the UUIDs ChannelId::generate can return (bounds the creates)
    Names,       \* valid channel names, after trimming
    General,     \* the id of the channel main seeds
    GeneralName, \* "general"
    Workers,     \* gRPC threads
    Sweeper,     \* the HeartbeatSweeper thread
    Expiry,      \* heartbeat expiry is enabled (--heartbeat-timeout > 0)
    Patient,     \* clients that wait for one answer before the next request
    None         \* no client, no channel

ASSUME MembershipAssumption ==
    /\ General \in ChannelIds
    /\ GeneralName \in Names
    /\ Sweeper \notin Workers
    /\ None \notin ClientIds \cup ChannelIds
    /\ Patient \subseteq ClientIds
    /\ Expiry \in BOOLEAN

VARIABLES
    clients_by_id,        \* client id -> session
    username_to_id,       \* username -> client id, for live sessions
    historical_usernames, \* client id -> username, never erased
    channels_by_id,       \* channel id -> channel
    name_to_id,           \* channel name -> channel id
    thread,               \* what each thread is executing
    batch,                \* expired sessions the sweeper has still to process
    contended             \* history: a use case has begun while another ran

registry == <<clients_by_id, username_to_id, historical_usernames>>
repository == <<channels_by_id, name_to_id>>
vars == <<registry, repository, thread, batch, contended>>

Threads == Workers \cup {Sweeper}

\* last_heartbeat_at_ matters only against the sweep deadline: fresh is
\* "not older than the deadline of the next sweep".
Session == [username : Usernames, joined : SUBSET ChannelIds, fresh : BOOLEAN]

Channel == [name : Names, members : SUBSET ClientIds]

\* One activation of a use case: the client it serves, the channel a join
\* targets and the copy of its members, the channels still to leave (todo),
\* the one being left (from) and the edited copy of its members (rest).
Frame == [op : {"none", "create", "join", "leave", "disconnect", "expire"},
          pc : {"idle", "create", "find", "session", "rmFind", "rmSave",
                "leaveAtomic", "addMember", "joinAtomic", "remove", "sweep"},
          client : ClientIds \cup {None},
          channel : ChannelIds \cup {None},
          copy : SUBSET ClientIds,
          todo : SUBSET ChannelIds,
          from : ChannelIds \cup {None},
          rest : SUBSET ClientIds]

Idle == [op |-> "none", pc |-> "idle", client |-> None, channel |-> None,
         copy |-> {}, todo |-> {}, from |-> None, rest |-> {}]

Started(op, pc, c, todo) ==
    [Idle EXCEPT !.op = op, !.pc = pc, !.client = c, !.todo = todo]

\* std::unordered_map: insert_or_assign (and emplace of an absent key), erase.
InsertOrAssign(m, k, v) ==
    [x \in DOMAIN m \cup {k} |-> IF x = k THEN v ELSE m[x]]

Erase(m, k) == [x \in DOMAIN m \ {k} |-> m[x]]

Live(c) == c \in DOMAIN clients_by_id

Goto(t, f) == thread' = [thread EXCEPT ![t] = f]

\* The server starts a handler as soon as a thread is free; a patient client
\* has only one request under way.
MayStart(t, c) ==
    /\ thread[t].pc = "idle"
    /\ c \in Patient => \A u \in Workers : thread[u].client # c

Begin(t, f) ==
    /\ Goto(t, f)
    /\ contended' = (contended \/ \E u \in Threads : thread[u].pc # "idle")

-----------------------------------------------------------------------------
(* main: empty stores, then the default channel is created.                *)

Init ==
    /\ clients_by_id = [c \in {} |-> None]
    /\ username_to_id = [u \in {} |-> None]
    /\ historical_usernames = [c \in {} |-> None]
    /\ channels_by_id = [h \in {General} |-> [name |-> GeneralName, members |-> {}]]
    /\ name_to_id = [n \in {GeneralName} |-> General]
    /\ thread = [t \in Threads |-> Idle]
    /\ batch = [c \in {} |-> {}]
    /\ contended = FALSE

-----------------------------------------------------------------------------
(* Handlers that are a single critical section of the registry.            *)

\* Connect: registerClient refuses a taken username and generates a fresh id.
Connect(c, u) ==
    /\ u \notin DOMAIN username_to_id
    /\ c \notin DOMAIN historical_usernames
    /\ clients_by_id' = InsertOrAssign(clients_by_id, c,
                           [username |-> u, joined |-> {}, fresh |-> TRUE])
    /\ username_to_id' = InsertOrAssign(username_to_id, u, c)
    /\ historical_usernames' = InsertOrAssign(historical_usernames, c, u)
    /\ UNCHANGED <<repository, thread, batch, contended>>

\* Heartbeat: touchHeartbeat; an unknown id is refused and changes nothing.
Heartbeat(c) ==
    /\ Live(c)
    /\ clients_by_id' = [clients_by_id EXCEPT ![c].fresh = TRUE]
    /\ UNCHANGED <<username_to_id, historical_usernames, repository, thread, batch, contended>>

\* The steady clock passes the session's last heartbeat plus the timeout;
\* with expiry disabled there is no sweeper and no deadline to pass.
Age(c) ==
    /\ Expiry
    /\ Live(c)
    /\ clients_by_id[c].fresh
    /\ clients_by_id' = [clients_by_id EXCEPT ![c].fresh = FALSE]
    /\ UNCHANGED <<username_to_id, historical_usernames, repository, thread, batch, contended>>

-----------------------------------------------------------------------------
(* CreateChannel: check the session, then create under the repository lock.*)

CreateBegin(t, c) ==
    /\ MayStart(t, c)
    /\ Live(c)
    /\ Begin(t, Started("create", "create", c, {}))
    /\ UNCHANGED <<registry, repository, batch>>

\* Fault variant: create trusts an earlier lookup instead of checking the name
\* under the lock that inserts it.
CreateStoreUnchecked(t, n, h) ==
    /\ thread[t].pc = "create"
    /\ h \notin DOMAIN channels_by_id
    /\ channels_by_id' = InsertOrAssign(channels_by_id, h, [name |-> n, members |-> {}])
    /\ name_to_id' = InsertOrAssign(name_to_id, n, h)
    /\ Goto(t, Idle)
    /\ UNCHANGED <<registry, batch, contended>>

\* A taken name is ChannelAlreadyExists: nothing changes.
CreateStore(t, n, h) ==
    /\ thread[t].pc = "create"
    /\ \/ /\ n \in DOMAIN name_to_id
          /\ UNCHANGED repository
       \/ /\ n \notin DOMAIN name_to_id
          /\ h \notin DOMAIN channels_by_id
          /\ channels_by_id' = InsertOrAssign(channels_by_id, h,
                                  [name |-> n, members |-> {}])
          /\ name_to_id' = InsertOrAssign(name_to_id, n, h)
    /\ Goto(t, Idle)
    /\ UNCHANGED <<registry, batch, contended>>

-----------------------------------------------------------------------------
(* The loop over channels to leave, shared by JoinChannel                  *)
(* (leaveOtherChannels), LeaveChannel, Disconnect and the sweeper.         *)

\* Where a use case continues once the channels left so far are done.
AfterChannel(f) ==
    CASE f.todo # {} /\ f.op = "disconnect"           -> "session"
      [] f.todo # {} /\ f.op # "disconnect"           -> "rmFind"
      [] f.todo = {} /\ f.op = "join" /\ f.client \notin f.copy -> "addMember"
      [] f.todo = {} /\ f.op = "join" /\ f.client \in f.copy    -> "joinAtomic"
      [] f.todo = {} /\ f.op # "join"                 -> "remove"

Advance(f) ==
    IF f.op = "leave" THEN Idle
    ELSE [f EXCEPT !.pc = AfterChannel(f), !.from = None, !.rest = {}]

\* Fault variants: a join that cannot leave a channel skips the session's set;
\* the sweeper gives up the sweep; the caller retries the same channel.
RmFailedSkipsLeave(f) == Advance(f)
RmFailedAbortsSweep(f) ==
    CASE f.op = "join"   -> [f EXCEPT !.pc = "leaveAtomic"]
      [] f.op = "expire" -> Idle
      [] OTHER           -> Advance(f)
RmFailedRetries(f) ==
    IF f.op = "join" THEN [f EXCEPT !.pc = "leaveAtomic"]
    ELSE [f EXCEPT !.pc = "rmFind", !.todo = @ \cup {f.from}, !.from = None]

\* ChannelNotFound and NotAMember end a LeaveChannel and are tolerated by
\* Disconnect and the sweeper; leaveOtherChannels goes on to the session's set.
RmFailed(f) ==
    IF f.op = "join" THEN [f EXCEPT !.pc = "leaveAtomic"] ELSE Advance(f)

\* removeMemberAndBroadcast, first half: read the channel, drop the client
\* from the copy.
RmFind(t, h) ==
    LET f == thread[t]
        g == [f EXCEPT !.todo = @ \ {h}, !.from = h]
    IN  /\ f.pc = "rmFind"
        /\ h \in f.todo
        /\ IF h \in DOMAIN channels_by_id /\ f.client \in channels_by_id[h].members
           THEN Goto(t, [g EXCEPT !.pc = "rmSave",
                                  !.rest = channels_by_id[h].members \ {f.client}])
           ELSE Goto(t, RmFailed(g))
        /\ UNCHANGED <<registry, repository, batch, contended>>

\* removeMemberAndBroadcast, second half: save the copy, tell its members.
\* The sweeper does not touch the session's set.
RmSave(t) ==
    LET f == thread[t]
    IN  /\ f.pc = "rmSave"
        /\ channels_by_id' = [channels_by_id EXCEPT ![f.from].members = f.rest]
        /\ name_to_id' = InsertOrAssign(name_to_id, channels_by_id[f.from].name, f.from)
        /\ IF f.op = "expire"
           THEN Goto(t, Advance(f))
           ELSE Goto(t, [f EXCEPT !.pc = "leaveAtomic", !.rest = {}])
        /\ UNCHANGED <<registry, batch, contended>>

\* Fault variant: the session read earlier is edited and saved whole, with the
\* heartbeat it had then.
LeaveBySave(t) ==
    LET f == thread[t]
    IN  /\ f.pc = "leaveAtomic"
        /\ IF Live(f.client)
           THEN clients_by_id' = [clients_by_id EXCEPT ![f.client].joined = @ \ {f.from},
                                                       ![f.client].fresh = FALSE]
           ELSE UNCHANGED clients_by_id
        /\ Goto(t, Advance(f))
        /\ UNCHANGED <<username_to_id, historical_usernames, repository, batch, contended>>

\* leaveChannelAtomic (ClientNotFound is tolerated), then the count event.
LeaveAtomic(t) ==
    LET f == thread[t]
    IN  /\ f.pc = "leaveAtomic"
        /\ IF Live(f.client)
           THEN clients_by_id' = [clients_by_id EXCEPT ![f.client].joined = @ \ {f.from}]
           ELSE UNCHANGED clients_by_id
        /\ Goto(t, Advance(f))
        /\ UNCHANGED <<username_to_id, historical_usernames, repository, batch, contended>>

-----------------------------------------------------------------------------
(* JoinChannel::execute and executeByName.                                 *)

JoinBegin(t, c) ==
    /\ MayStart(t, c)
    /\ Live(c)
    /\ Begin(t, Started("join", "find", c, clients_by_id[c].joined))
    /\ UNCHANGED <<registry, repository, batch>>

\* The target is found: from here on the use case works on this copy of it.
JoinTarget(t, h) ==
    LET f == thread[t]
    IN  Goto(t, Advance([f EXCEPT !.channel = h,
                                  !.copy = channels_by_id[h].members,
                                  !.todo = @ \ {h}]))

\* The request's channel is first used here, so it is chosen here.
JoinFindById(t, h) ==
    /\ thread[t].pc = "find"
    /\ IF h \in DOMAIN channels_by_id THEN JoinTarget(t, h) ELSE Goto(t, Idle)
    /\ UNCHANGED <<registry, repository, batch, contended>>

JoinFindByName(t, n) ==
    /\ thread[t].pc = "find"
    /\ IF n \in DOMAIN name_to_id /\ name_to_id[n] \in DOMAIN channels_by_id
       THEN JoinTarget(t, name_to_id[n]) ELSE Goto(t, Idle)
    /\ UNCHANGED <<registry, repository, batch, contended>>

\* addMember on the copy and save of the copy.
AddMember(t) ==
    LET f == thread[t]
    IN  /\ f.pc = "addMember"
        /\ channels_by_id' = [channels_by_id EXCEPT
                                 ![f.channel].members = f.copy \cup {f.client}]
        /\ name_to_id' = InsertOrAssign(name_to_id, channels_by_id[f.channel].name, f.channel)
        /\ Goto(t, [f EXCEPT !.pc = "joinAtomic"])
        /\ UNCHANGED <<registry, batch, contended>>

\* Fault variants: the session read earlier is saved whole even if it was
\* removed since; the session is told the channel just left.
JoinBySave(t) ==
    LET f == thread[t]
    IN  /\ f.pc = "joinAtomic"
        /\ clients_by_id' = InsertOrAssign(clients_by_id, f.client,
               [username |-> historical_usernames[f.client],
                joined |-> {f.channel},
                fresh |-> Live(f.client) => clients_by_id[f.client].fresh])
        /\ username_to_id' = InsertOrAssign(username_to_id,
                                 historical_usernames[f.client], f.client)
        /\ Goto(t, Idle)
        /\ UNCHANGED <<historical_usernames, repository, batch, contended>>

JoinAtomicWrongChannel(t) ==
    LET f == thread[t]
    IN  /\ f.pc = "joinAtomic"
        /\ IF Live(f.client)
           THEN clients_by_id' = [clients_by_id EXCEPT ![f.client].joined = @ \cup {f.from}]
           ELSE UNCHANGED clients_by_id
        /\ Goto(t, Idle)
        /\ UNCHANGED <<username_to_id, historical_usernames, repository, batch, contended>>

\* joinChannelAtomic; on ClientNotFound the join fails and the saved
\* membership stays.
JoinAtomic(t) ==
    LET f == thread[t]
    IN  /\ f.pc = "joinAtomic"
        /\ IF Live(f.client)
           THEN clients_by_id' = [clients_by_id EXCEPT ![f.client].joined = @ \cup {f.channel}]
           ELSE UNCHANGED clients_by_id
        /\ Goto(t, Idle)
        /\ UNCHANGED <<username_to_id, historical_usernames, repository, batch, contended>>

-----------------------------------------------------------------------------
(* LeaveChannel::execute as an RPC, and Disconnect.                        *)

LeaveBegin(t, c, h) ==
    /\ MayStart(t, c)
    /\ Live(c)
    /\ Begin(t, Started("leave", "rmFind", c, {h}))
    /\ UNCHANGED <<registry, repository, batch>>

\* Fault variant: the session is removed without leaving its channels.
DisconnectKeepsChannels(t, c) ==
    /\ MayStart(t, c)
    /\ Live(c)
    /\ Begin(t, Started("disconnect", "remove", c, {}))
    /\ UNCHANGED <<registry, repository, batch>>

\* Disconnect snapshots the joined channels before it leaves them.
DisconnectBegin(t, c) ==
    /\ MayStart(t, c)
    /\ Live(c)
    /\ Begin(t, Advance(Started("disconnect", "session", c, clients_by_id[c].joined)))
    /\ UNCHANGED <<registry, repository, batch>>

\* LeaveChannel::execute inside Disconnect looks the session up again; when it
\* is gone, this channel is only logged.
LeaveSession(t, h) ==
    LET f == thread[t]
    IN  /\ f.pc = "session"
        /\ h \in f.todo
        /\ IF Live(f.client)
           THEN Goto(t, [f EXCEPT !.pc = "rmFind"])
           ELSE Goto(t, Advance([f EXCEPT !.todo = @ \ {h}]))
        /\ UNCHANGED <<registry, repository, batch, contended>>

\* Fault variant: the name is released before the id is looked up.
RemoveReleasesName(t) ==
    LET f == thread[t]
    IN  /\ f.pc = "remove"
        /\ username_to_id' = Erase(username_to_id, historical_usernames[f.client])
        /\ clients_by_id' = Erase(clients_by_id, f.client)
        /\ IF f.op = "expire" /\ DOMAIN batch # {}
           THEN Goto(t, Started("expire", "sweep", None, {}))
           ELSE Goto(t, Idle)
        /\ UNCHANGED <<historical_usernames, repository, batch, contended>>

\* InMemoryClientRegistry::remove, the last step of Disconnect and of one
\* expired session; ClientNotFound changes nothing.  The subscriber is then
\* unregistered (ClientPublisher).
Remove(t) ==
    LET f == thread[t]
    IN  /\ f.pc = "remove"
        /\ IF Live(f.client)
           THEN /\ username_to_id' = Erase(username_to_id, clients_by_id[f.client].username)
                /\ clients_by_id' = Erase(clients_by_id, f.client)
           ELSE UNCHANGED <<username_to_id, clients_by_id>>
        /\ IF f.op = "expire" /\ DOMAIN batch # {}
           THEN Goto(t, Started("expire", "sweep", None, {}))
           ELSE Goto(t, Idle)
        /\ UNCHANGED <<historical_usernames, repository, batch, contended>>

-----------------------------------------------------------------------------
(* ExpireInactiveClients::run, called by the sweeper.                      *)

Expired == {c \in DOMAIN clients_by_id : ~clients_by_id[c].fresh}

\* collectExpired copies the sessions; a sweep that finds none does nothing.
CollectExpired ==
    /\ MayStart(Sweeper, None)
    /\ Expired # {}
    /\ batch' = [c \in Expired |-> clients_by_id[c].joined]
    /\ Begin(Sweeper, Started("expire", "sweep", None, {}))
    /\ UNCHANGED <<registry, repository>>

ExpireSession(c) ==
    /\ thread[Sweeper].pc = "sweep"
    /\ c \in DOMAIN batch
    /\ Goto(Sweeper, Advance(Started("expire", "sweep", c, batch[c])))
    /\ batch' = Erase(batch, c)
    /\ UNCHANGED <<registry, repository, contended>>

-----------------------------------------------------------------------------

\* The next critical section of a use case that is under way.
Step(t) ==
    \/ \E n \in Names, h \in ChannelIds : CreateStore(t, n, h)
    \/ \E h \in ChannelIds : RmFind(t, h) \/ LeaveSession(t, h) \/ JoinFindById(t, h)
    \/ \E n \in Names : JoinFindByName(t, n)
    \/ RmSave(t)
    \/ LeaveAtomic(t)
    \/ AddMember(t)
    \/ JoinAtomic(t)
    \/ Remove(t)

\* A client's request, a tick of the clock.
Environment ==
    \/ \E c \in ClientIds : Heartbeat(c) \/ Age(c) \/ \E u \in Usernames : Connect(c, u)
    \/ \E t \in Workers, c \in ClientIds :
          \/ CreateBegin(t, c)
          \/ JoinBegin(t, c)
          \/ DisconnectBegin(t, c)
          \/ \E h \in ChannelIds : LeaveBegin(t, c, h)

Sweep == CollectExpired \/ \E c \in ClientIds : ExpireSession(c)

Next == Environment \/ Sweep \/ \E t \in Threads : Step(t)

Spec == Init /\ [][Next]_vars

\* Threads are scheduled by the operating system and no lock is held across a
\* step; the sweeper's loop never exits while the server runs.
FairSpec == Spec /\ WF_vars(Sweep) /\ \A t \in Threads : WF_vars(Step(t))

-----------------------------------------------------------------------------
(* Properties.                                                             *)

TypeOK ==
    /\ DOMAIN clients_by_id \subseteq ClientIds
    /\ clients_by_id \in [DOMAIN clients_by_id -> Session]
    /\ DOMAIN username_to_id \subseteq Usernames
    /\ username_to_id \in [DOMAIN username_to_id -> ClientIds]
    /\ DOMAIN historical_usernames \subseteq ClientIds
    /\ historical_usernames \in [DOMAIN historical_usernames -> Usernames]
    /\ DOMAIN channels_by_id \subseteq ChannelIds
    /\ channels_by_id \in [DOMAIN channels_by_id -> Channel]
    /\ DOMAIN name_to_id \subseteq Names
    /\ name_to_id \in [DOMAIN name_to_id -> ChannelIds]
    /\ thread \in [Threads -> Frame]
    /\ DOMAIN batch \subseteq ClientIds
    /\ batch \in [DOMAIN batch -> SUBSET ChannelIds]
    /\ contended \in BOOLEAN

\* The username index and the sessions agree in both directions, and with the
\* permanent record lookupUsername reads, whatever removals of one client by
\* Disconnect and by the sweeper interleave with the name being taken again:
\* a username has exactly one live session, and a live session keeps its name.
RegistryIndexes ==
    /\ \A u \in DOMAIN username_to_id :
          /\ username_to_id[u] \in DOMAIN clients_by_id
          /\ clients_by_id[username_to_id[u]].username = u
    /\ \A c \in DOMAIN clients_by_id :
          /\ clients_by_id[c].username \in DOMAIN username_to_id
          /\ username_to_id[clients_by_id[c].username] = c
          /\ c \in DOMAIN historical_usernames
          /\ historical_usernames[c] = clients_by_id[c].username

\* The name index and the channels agree in both directions although every
\* save of an old copy rewrites the index: no two channels share a name.
RepositoryIndexes ==
    /\ \A n \in DOMAIN name_to_id :
          /\ name_to_id[n] \in DOMAIN channels_by_id
          /\ channels_by_id[name_to_id[n]].name = n
    /\ \A h \in DOMAIN channels_by_id :
          /\ channels_by_id[h].name \in DOMAIN name_to_id
          /\ name_to_id[channels_by_id[h].name] = h

\* No use case that started before a client was removed brings its session
\* back, and lookupUsername answers the same name for ever after.
RemovedStaysRemoved ==
    [][\A c \in DOMAIN historical_usernames :
          /\ c \in DOMAIN historical_usernames'
          /\ historical_usernames'[c] = historical_usernames[c]
          /\ c \in DOMAIN clients_by_id' => c \in DOMAIN clients_by_id]_vars

\* A join or a leave that overlaps a heartbeat never overwrites it: the
\* timestamp of a session changes only by a heartbeat or by time passing,
\* never in a step of a use case.
HeartbeatNotClobbered ==
    [][\A c \in DOMAIN clients_by_id \cap DOMAIN clients_by_id' :
          clients_by_id'[c].fresh # clients_by_id[c].fresh
             => /\ thread' = thread
                /\ clients_by_id'[c].joined = clients_by_id[c].joined]_vars

Quiescent == \A t \in Threads : thread[t].pc = "idle"

\* A channel in a live session's joined set has that client as a member.
JoinedIsMember ==
    Quiescent => \A c \in DOMAIN clients_by_id : \A h \in clients_by_id[c].joined :
                    h \in DOMAIN channels_by_id /\ c \in channels_by_id[h].members

\* A member of a channel has a live session that lists the channel: nobody
\* stays a member after Disconnect or expiry.
MemberIsJoined ==
    Quiescent => \A h \in DOMAIN channels_by_id : \A c \in channels_by_id[h].members :
                    c \in DOMAIN clients_by_id /\ h \in clients_by_id[c].joined

\* As long as no two use cases have overlapped, joined sets and member sets
\* agree whenever the server is quiet, through joins that leave other channels,
\* leaves, disconnects and sweeps.
UncontendedAgree == ~contended => JoinedIsMember /\ MemberIsJoined

\* A join leaves every other channel before it adds its target: at no time
\* does the session of a patient client list two channels, whatever the other
\* clients and the sweeper do to those channels meanwhile.
AtMostOneChannel ==
    \A c \in Patient \cap DOMAIN clients_by_id :
       \A g, h \in clients_by_id[c].joined : g = h

\* A session whose client has gone silent is removed (and its username freed)
\* even if its joined set names channels it is no longer a member of.
StaleIsReaped ==
    \A c \in ClientIds : []<>(c \in DOMAIN clients_by_id => clients_by_id[c].fresh)

\* Every use case returns, whatever the others do.
UseCasesReturn ==
    \A t \in Threads : []<>(thread[t].pc = "idle")
=============================================================================
