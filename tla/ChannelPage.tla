----------------------------- MODULE ChannelPage -----------------------------
(***************************************************************************)
(* The web client: the session in the auth store, its heartbeat, and the   *)
(* channel page, whose hook useChannelMessages joins a channel, listens to *)
(* its stream and loads its history into React Query's cache, while the    *)
(* server sends, lists and publishes.                                      *)
(*                                                                         *)
(* A visit is one run of the hook's main effect.  The server's side of a   *)
(* stream outlives the visit: a handler notices an abort some time later   *)
(* and then drops whatever stream the client id has (ClientPublisher).     *)
(* Messages are numbered in the order they are saved, so that a page of    *)
(* the history, and the sorted, deduplicated list the channel page shows,  *)
(* is the set of their numbers.                                            *)
(***************************************************************************)
EXTENDS Integers, Sequences, FiniteSets, Functions, ErrorMapping

CONSTANTS
    Channels,    \* channel ids
    General,     \* the channel that has messages when the user connects ...
    Backlog,     \* ... and how many
    Senders,     \* server threads in SendMessage
    PageSize,    \* VITE_CHANNEL_HISTORY_PAGE_SIZE
    Retries,     \* 3: how often a history request is repeated
    MaxMessages, \* bounds the sends
    MaxVisits,   \* bounds the visits
    None         \* no channel page is shown

ASSUME PageAssumption ==
    /\ General \in Channels /\ None \notin Channels
    /\ PageSize \in Nat \ {0} \* env.ts: a positive integer
    /\ Retries \in Nat /\ MaxVisits \in Nat
    /\ MaxMessages \in Nat /\ Backlog \in 0..MaxMessages

VARIABLES
    auth,    \* the auth store's status; clientId is null unless it is "connected"
    leaving, \* the user has asked to disconnect
    here,    \* the channel whose page is shown
    trail,   \* the channels visited, the last one being this visit's
    hook,    \* state and refs of the hook, and where its async task is
    data,    \* query cache: channel -> history
    fetch,   \* query cache: channel -> the request in flight
    wire,    \* events on their way to this visit's stream
    calm,    \* nothing has cost this visit a message so far (see CalmIsComplete)
    session, \* server: "none", "alive" or "gone"
    member,  \* server: the channel the user is a member of (a join leaves the others)
    stray,   \* joins of ended visits that the server has yet to serve
    handler, \* server: visit -> its SubscribeToChannel handler
    writer,  \* server: the visit whose stream is registered for the user, or 0
    log,     \* server: channel -> its messages
    sender   \* server: where each sender is

store == <<auth, leaving>>
page == <<here, trail, hook, data, fetch, wire>>
server == <<session, member, stray, handler, writer>>
sends == <<log, sender>>
vars == <<store, page, calm, server, sends>>

visit == Len(trail)

\* This visit's stream is open as far as the hook knows.
Listening == hook.pc = "streaming"

NoData == [loaded |-> FALSE, isSuccess |-> FALSE, msgs |-> {}, cursor |-> 0, more |-> FALSE]

NoFetch == [pc |-> "idle", older |-> FALSE, base |-> {}, page |-> {}, more |-> FALSE,
            error |-> "", failures |-> 0]

NoHook == [pc |-> "none", isJoined |-> FALSE, connection |-> "idle",
           initialFetched |-> FALSE, pendingLive |-> {}, seen |-> FALSE]

Init ==
    /\ auth = "idle" /\ leaving = FALSE
    /\ here = None /\ trail = <<>> /\ hook = NoHook /\ wire = <<>> /\ calm = FALSE
    /\ data = [h \in Channels |-> NoData] /\ fetch = [h \in Channels |-> NoFetch]
    /\ session = "none" /\ member = None /\ stray = {}
    /\ handler = [v \in 1..MaxVisits |-> "none"] /\ writer = 0
    /\ log = [h \in Channels |-> IF h = General THEN [i \in 1..Backlog |-> i] ELSE <<>>]
    /\ sender = [s \in Senders |-> [pc |-> "idle", channel |-> None, to |-> FALSE, id |-> 0]]

-----------------------------------------------------------------------------
(* The session.                                                            *)

isClientNotFound(error) ==
    mapError(IF error = "NetworkError" THEN Unavailable ELSE errorToStatus(error))
       = "client-not-found"

\* A visit ends: abort.  A join under way still reaches the server.
Aborted ==
    /\ wire' = <<>>
    /\ stray' = IF hook.pc = "joining" THEN stray \cup {here} ELSE stray

\* The store's reset, and setDisconnected.  The page's effects run without a
\* client id: they clear the refs and isJoined, and leave the connection state.
\* The cache's keys hold the client id, so nothing reads the old entries.
reset ==
    /\ auth' = "disconnected"
    /\ data' = [h \in Channels |-> NoData] /\ fetch' = [h \in Channels |-> NoFetch]
    /\ hook' = [hook EXCEPT !.pc = "none", !.isJoined = FALSE, !.initialFetched = FALSE,
                            !.pendingLive = {}, !.seen = FALSE]
    /\ Aborted

\* useConnectMutation.
Connect ==
    /\ auth \in {"idle", "disconnected"} /\ session = "none"
    /\ auth' = "connecting"
    /\ UNCHANGED <<leaving, page, calm, server, sends>>

\* The answer to Connect.  One that is served but whose answer is lost leaves a
\* session whose id no page knows, which nobody can use or keep alive: all the
\* user sees of it is that the name is refused until the sweeper has removed it,
\* which is a failure like any other here.
Connected ==
    /\ auth = "connecting"
    /\ \/ auth' = "connected" /\ session' = "alive"
       \/ auth' = "disconnected" /\ UNCHANGED session
    /\ UNCHANGED <<leaving, page, calm, member, stray, handler, writer, sends>>

\* useDisconnectMutation: onSettled, whatever came of the request.  The server may
\* have served it before (SessionEnds), may serve it later, or never.
Disconnect ==
    /\ auth = "connected"
    /\ leaving' = TRUE
    /\ reset
    /\ UNCHANGED <<here, trail, calm, session, member, handler, writer, sends>>

\* A heartbeat that is refused.  One that is accepted, or lost, changes nothing.
Heartbeat ==
    /\ auth = "connected" /\ session = "gone"
    /\ isClientNotFound("ClientNotFound")
    /\ reset
    /\ UNCHANGED <<leaving, here, trail, calm, session, member, handler, writer, sends>>

\* The server serves the Disconnect, or expires the session: the memberships and
\* the stream's registration go with it, the handler stays.
SessionEnds ==
    /\ session = "alive"
    /\ session' = "gone" /\ member' = None /\ writer' = 0 /\ calm' = FALSE
    /\ UNCHANGED <<store, page, stray, handler, sends>>

-----------------------------------------------------------------------------
(* The page: effects and the async task.                                   *)

injectLiveMessage(d, ids) == [d EXCEPT !.msgs = @ \cup ids, !.isSuccess = TRUE]

isSuccess(h) == data[h].isSuccess

\* The query is enabled: it fetches unless it has data, which never is stale.
Enabled(h) ==
    IF data[h].loaded \/ fetch[h].pc # "idle" THEN fetch
    ELSE [fetch EXCEPT ![h] = [NoFetch EXCEPT !.pc = "asked"]]

\* The page is shown, or shows another channel.  In the first render isJoined is
\* still the previous visit's, so the query may start at once; then the drain
\* effect runs, with the previous visit's refs, and then the main effect.
Visit(h) ==
    /\ auth = "connected" /\ here # h /\ visit < MaxVisits
    /\ here' = h
    /\ trail' = Append(trail, h)
    /\ Aborted
    /\ fetch' = IF hook.isJoined THEN Enabled(h) ELSE fetch
    /\ data' = IF isSuccess(h) /\ ~hook.initialFetched
               THEN [data EXCEPT ![h] = injectLiveMessage(@, hook.pendingLive)] ELSE data
    /\ hook' = [NoHook EXCEPT !.pc = "joining", !.connection = "joining", !.seen = isSuccess(h)]
    /\ calm' = (~data[h].loaded /\ fetch[h].pc # "read")
    /\ UNCHANGED <<store, session, member, handler, writer, sends>>

Unmount ==
    /\ here # None
    /\ here' = None
    /\ hook' = NoHook
    /\ Aborted
    /\ UNCHANGED <<store, trail, data, fetch, calm, session, member, handler, writer, sends>>

\* await joinChannel: served, refused, or lost, when the server may or may not
\* have served it.
Join ==
    /\ hook.pc = "joining"
    /\ \/ session = "alive" /\ member' = here
          /\ hook' = [hook EXCEPT !.pc = "joined"] /\ UNCHANGED <<auth, data, fetch, wire, stray>>
       \/ session = "gone" /\ isClientNotFound("ClientNotFound") /\ reset
          /\ UNCHANGED member
       \/ member' \in {member, IF session = "alive" THEN here ELSE member}
          /\ hook' = [hook EXCEPT !.pc = "ended", !.connection = "disconnected"]
          /\ UNCHANGED <<auth, data, fetch, wire, stray>>
    /\ UNCHANGED <<leaving, here, trail, calm, session, handler, writer, sends>>

\* ... and what follows it: the query is enabled and the stream requested.
Joined ==
    /\ hook.pc = "joined"
    /\ hook' = [hook EXCEPT !.pc = "streaming", !.isJoined = TRUE, !.connection = "connected"]
    /\ fetch' = Enabled(here)
    /\ handler' = [handler EXCEPT ![visit] = "sent"]
    /\ UNCHANGED <<store, here, trail, data, wire, calm, session, member, stray, writer, sends>>

\* The loop's body.
LiveEvent ==
    /\ Listening /\ wire # <<>>
    /\ wire' = Tail(wire)
    /\ IF hook.initialFetched
       THEN /\ data' = [data EXCEPT ![here] = injectLiveMessage(@, {Head(wire)})]
            /\ UNCHANGED hook
       ELSE /\ hook' = [hook EXCEPT !.pendingLive = @ \cup {Head(wire)}]
            /\ UNCHANGED data
    /\ UNCHANGED <<store, here, trail, fetch, calm, server, sends>>

\* The stream fails or ends.  The hook does not subscribe again.
StreamEnds ==
    /\ Listening
    /\ hook' = [hook EXCEPT !.pc = "ended", !.connection = "disconnected"]
    /\ wire' = <<>>
    /\ UNCHANGED <<store, here, trail, data, fetch, calm, server, sends>>

\* Fault variant: the buffer is cleared without injecting what it held.
DrainForgets ==
    /\ here # None /\ auth = "connected" /\ hook.seen # isSuccess(here)
    /\ hook' = [hook EXCEPT !.seen = isSuccess(here), !.initialFetched = @ \/ isSuccess(here),
                            !.pendingLive = IF isSuccess(here) THEN {} ELSE @]
    /\ UNCHANGED <<store, here, trail, data, fetch, wire, calm, server, sends>>

\* The drain effect, due when isSuccess is no longer what its last run saw.
Drain ==
    /\ here # None /\ auth = "connected" /\ hook.seen # isSuccess(here)
    /\ IF isSuccess(here) /\ ~hook.initialFetched
       THEN /\ hook' = [hook EXCEPT !.seen = TRUE, !.initialFetched = TRUE, !.pendingLive = {}]
            /\ data' = [data EXCEPT ![here] = injectLiveMessage(@, hook.pendingLive)]
       ELSE hook' = [hook EXCEPT !.seen = isSuccess(here)] /\ UNCHANGED data
    /\ UNCHANGED <<store, here, trail, fetch, wire, calm, server, sends>>

-----------------------------------------------------------------------------
(* The history query.                                                      *)

\* fetchOlder: the pages are read from the cache when the request starts.
fetchOlder ==
    /\ here # None /\ auth = "connected" /\ data[here].more /\ fetch[here].pc = "idle"
    /\ fetch' = [fetch EXCEPT ![here] = [NoFetch EXCEPT !.pc = "asked", !.older = TRUE,
                                                        !.base = data[here].msgs]]
    /\ UNCHANGED <<store, here, trail, hook, data, wire, calm, server, sends>>

Newest(ms, n) == {m \in ms : Cardinality({k \in ms : k > m}) < n}

Oldest(ms) == CHOOSE m \in ms : \A k \in ms : m <= k

\* ListMessages on the server (MessageHistory has its two halves).
ListMessages(h) ==
    LET f == fetch[h]
        before == {m \in Range(log[h]) : ~f.older \/ m < data[h].cursor}
    IN  /\ f.pc = "asked"
        /\ \/ /\ h = member
              /\ fetch' = [fetch EXCEPT ![h].pc = "read", ![h].page = Newest(before, PageSize),
                                        ![h].more = Cardinality(before) > PageSize,
                                        ![h].failures = 0]
              /\ calm' = (calm /\ (h = here /\ ~f.older => writer = visit))
           \/ /\ h # member
              /\ fetch' = [fetch EXCEPT ![h].pc = "failed", ![h].error = "NotAMember"]
              /\ UNCHANGED calm
           \/ /\ fetch' = [fetch EXCEPT ![h].pc = "failed", ![h].error = "NetworkError"]
              /\ UNCHANGED calm
    /\ UNCHANGED <<store, here, trail, hook, data, wire, server, sends>>

\* The page is stored: behind the pages read when the request started, which
\* drops what was injected since.
Fetched(h) ==
    LET f == fetch[h]
        d == data[h]
    IN  /\ f.pc = "read"
        /\ fetch' = [fetch EXCEPT ![h] = NoFetch]
        /\ data' = [data EXCEPT ![h] =
              [loaded |-> TRUE, isSuccess |-> TRUE, msgs |-> f.base \cup f.page,
               cursor |-> IF f.page = {} THEN d.cursor ELSE Oldest(f.page), more |-> f.more]]
        /\ calm' = (calm /\ (h = here => d.msgs \subseteq f.base))
        /\ UNCHANGED <<store, here, trail, hook, wire, server, sends>>

\* Fault variant: the request is repeated for ever.
RetryAlways(f) == TRUE

Retry(f) == ~isClientNotFound(f.error) /\ f.failures < Retries

\* A failed request is repeated while the page is shown; after that its error
\* resets the session if the client is unknown.
FetchFailed(h) ==
    LET f == fetch[h]
    IN  /\ f.pc = "failed"
        /\ \/ /\ Retry(f) /\ h = here
              /\ fetch' = [fetch EXCEPT ![h].pc = "asked", ![h].failures = @ + 1, ![h].error = ""]
              /\ UNCHANGED <<auth, hook, data, wire, stray>>
           \/ /\ ~Retry(f) \/ h # here
              /\ IF h = here /\ isClientNotFound(f.error) THEN reset
                 ELSE /\ fetch' = [fetch EXCEPT ![h] = NoFetch]
                      /\ data' = [data EXCEPT ![h].isSuccess = FALSE]
                      /\ UNCHANGED <<auth, hook, wire, stray>>
        /\ UNCHANGED <<leaving, here, trail, calm, session, member, handler, writer, sends>>

-----------------------------------------------------------------------------
(* The server.                                                             *)

\* It takes the user out of the channel the page shows.
StrayJoin(h) ==
    /\ h \in stray
    /\ stray' = stray \ {h}
    /\ member' = IF session = "alive" THEN h ELSE member
    /\ UNCHANGED <<store, page, calm, session, handler, writer, sends>>

\* LeaveChannel, from the page's header.
LeaveChannel ==
    /\ hook.connection = "connected" /\ auth = "connected" /\ here = member
    /\ member' = None
    /\ UNCHANGED <<store, page, calm, session, stray, handler, writer, sends>>

\* A handler, this visit's or an older one's, drops the registration.
Unregister ==
    /\ writer' = 0
    /\ calm' = (calm /\ ~(Listening /\ writer = visit))

\* SubscribeToChannel registers the stream and opens it, or refuses.
Subscribe(v) ==
    /\ handler[v] = "sent"
    /\ IF trail[v] = member
       THEN /\ handler' = [handler EXCEPT ![v] = "open"]
            /\ writer' = v
            /\ calm' = (calm /\ ~(Listening /\ writer = visit))
            /\ UNCHANGED hook
       ELSE /\ handler' = [handler EXCEPT ![v] = "closed"]
            /\ Unregister
            /\ hook' = IF v = visit /\ Listening
                       THEN [hook EXCEPT !.pc = "ended", !.connection = "disconnected"] ELSE hook
    /\ UNCHANGED <<store, here, trail, data, fetch, wire, session, member, stray, sends>>

\* A handler notices that its stream was aborted.
StreamClosed(v) ==
    /\ handler[v] = "open" /\ ~(v = visit /\ Listening)
    /\ handler' = [handler EXCEPT ![v] = "closed"]
    /\ Unregister
    /\ UNCHANGED <<store, page, session, member, stray, sends>>

Sent == {m \in 1..MaxMessages : \E h \in Channels : m \in Range(log[h])}

\* SendMessage by anybody, the user included, who hears himself: the copy of the
\* channel ...
SendTo(s, h) ==
    /\ sender[s].pc = "idle" /\ auth = "connected" /\ Cardinality(Sent) < MaxMessages
    /\ sender' = [sender EXCEPT ![s] = [pc |-> "copied", channel |-> h, to |-> h = member, id |-> 0]]
    /\ UNCHANGED <<store, page, calm, server, log>>

\* ... the save ...
Save(s) ==
    LET f == sender[s]
        m == Cardinality(Sent) + 1
    IN  /\ f.pc = "copied" /\ m <= MaxMessages
        /\ log' = [log EXCEPT ![f.channel] = Append(@, m)]
        /\ sender' = [sender EXCEPT ![s].pc = "saved", ![s].id = m]
        /\ calm' = (calm /\ (f.channel = here => f.to))
        /\ UNCHANGED <<store, page, server>>

\* ... and publish to the recipients in the copy: to whatever stream the user
\* has, which an aborted visit no longer reads.
Publish(s) ==
    LET f == sender[s]
    IN  /\ f.pc = "saved"
        /\ sender' = [sender EXCEPT ![s] = [pc |-> "idle", channel |-> None, to |-> FALSE, id |-> 0]]
        /\ wire' = IF f.to /\ writer = visit /\ Listening THEN Append(wire, f.id) ELSE wire
        /\ UNCHANGED <<store, here, trail, hook, data, fetch, calm, server, log>>

-----------------------------------------------------------------------------

Next ==
    \/ Connect \/ Connected \/ Disconnect \/ Heartbeat \/ SessionEnds
    \/ Unmount \/ Join \/ Joined \/ LiveEvent \/ StreamEnds \/ Drain \/ fetchOlder \/ LeaveChannel
    \/ \E h \in Channels : Visit(h) \/ ListMessages(h) \/ Fetched(h) \/ FetchFailed(h) \/ StrayJoin(h)
    \/ \E v \in 1..MaxVisits : Subscribe(v) \/ StreamClosed(v)
    \/ \E s \in Senders : Save(s) \/ Publish(s) \/ (\E h \in Channels : SendTo(s, h))

\* The interval goes on firing, and a beat is answered some time.
Spec == Init /\ [][Next]_vars /\ WF_vars(Heartbeat)

-----------------------------------------------------------------------------
(* Properties.                                                             *)

TypeOK ==
    /\ auth \in {"idle", "connecting", "connected", "disconnected"} /\ leaving \in BOOLEAN
    /\ here \in Channels \cup {None} /\ trail \in Seq(Channels)
    /\ hook.pc \in {"none", "joining", "joined", "streaming", "ended"}
    /\ hook.connection \in {"idle", "joining", "connected", "disconnected"}
    /\ hook.pendingLive \subseteq Sent
    /\ \A h \in Channels :
          /\ data[h].msgs \subseteq Sent
          /\ fetch[h].pc \in {"idle", "asked", "read", "failed"} /\ fetch[h].failures \in 0..Retries
    /\ session \in {"none", "alive", "gone"} /\ member \in Channels \cup {None} /\ stray \subseteq Channels
    /\ writer \in 0..visit /\ wire \in Seq(Sent)

\* The history has been stored, and the effect it makes due has run.
Settled == hook.connection = "connected" /\ auth = "connected" /\ isSuccess(here) /\ hook.seen

\* The page misses nothing although history and stream are asked for at once and
\* answered in any order: from the oldest message it holds on, every message of
\* the channel is shown, on its way, or about to be published.  This is so
\* while the visit is calm: the history was not cached before, the stream was
\* registered when the page was read and still is, every sender's copy has the
\* user, and no live message came during a request for older ones.
CalmIsComplete ==
    (here # None /\ Settled /\ calm) =>
       \A m \in Range(log[here]) :
          m >= data[here].cursor =>
             m \in data[here].msgs \cup Range(wire) \cup {sender[s].id : s \in Senders}

\* The session is given up only if the server has, or the user wanted it: a
\* request that is refused because it overtook the join does not end it.
NoFalseReset == (auth = "disconnected" /\ session = "alive") => leaving

\* A session the server has given up is noticed, although its stream stays open.
SessionLossNoticed == (session = "gone") ~> (auth # "connected")

\* A live message of a page whose history is loaded is injected, not buffered.
LiveIsInjected == (here # None /\ Settled) => hook.pendingLive = {}
=============================================================================
