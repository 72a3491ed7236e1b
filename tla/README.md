# Verification of the broadcast messaging system

TLA+ models, TLC runs and TLAPS proofs for the broadcast server and its two
clients. Paths below are relative to the repository root; `server/` means
`server/src/` unless an `include/` path is given.

## 1. The system

A C++ server (gRPC, synchronous API, a pool of handler threads) keeps clients,
channels and a bounded message history in memory. A terminal client (C++, FTXUI)
and a web client (TypeScript, gRPC-web, TanStack Query, zustand) connect to it.

| Component | State | Operations | Works with |
|---|---|---|---|
| Client registry (`adapter/persistence/in_memory_client_registry.cpp`) | sessions by id, username → id, id → username for ever; one `shared_mutex` | registerClient, findById, findByUsername, lookupUsername, touchHeartbeat, joinChannelAtomic, leaveChannelAtomic, remove, collectExpired | every use case |
| Channel repository (`adapter/persistence/in_memory_channel_repository.cpp`) | channels by id (with their member sets), name → id; its own `shared_mutex` | create, findById, findByName, listAll, save | every use case; hands out **copies** |
| Membership use cases (`application/usecase/{create,join,leave}_channel.cpp`, `internal/remove_member_broadcast.cpp`) | none | create, join by id or name (leaving the other channels first), leave | registry, repository, both publishers |
| Heartbeat expiry (`expire_inactive_clients.cpp`, `heartbeat_sweeper.cpp`) | a thread and its stop token | sweep: leave each channel, remove the session, unregister the stream | registry, repository, client publisher |
| Client publisher (`adapter/grpc/client_publisher.cpp`) | client id → shared entry (writer pointer + write mutex) | registerSubscriber, unregisterSubscriber, publish, broadcastMemberJoined/Left | SubscribeToChannel handlers, senders, joins, leaves, the sweeper |
| Channel-list publisher (`adapter/grpc/channel_list_publisher.cpp`) | the same for the list stream | snapshot on registration, created, member count changed | create, join, leave |
| Message history (`in_memory_message_repository.cpp`, `send_message.cpp`, `list_messages.cpp`) | channel → deque of at most `cap` messages | save, recent, listBefore | SendMessage, ListMessages |
| gRPC service (`broadcast_service_impl.cpp`) | none | one handler per RPC: parse, call the use case, map the error | all of the above |
| Server lifecycle (`server_runner.cpp`, `main.cpp`) | the gRPC server, a stop flag | start, seed `general`, shutdown | signals |
| Error mapping (`shared/src/result.cpp`, `error_to_status.cpp`, the CLI's `status_to_error.cpp`, the web's `api/broadcast/errors.ts`) | none | an error becomes a gRPC status and an error again | every call |
| CLI session (`client-cli/src/main.cpp`, `subscribe_command.cpp`, the gateway) | client id, active channel, detached subscription threads, error toast | join, leave, create, list, send, disconnect; subscribe; polling, heartbeat and watcher threads | server, presenter |
| CLI presenter and inbox (`adapter/tui/ftxui_presenter.cpp`, `inbox_queue.cpp`, `components/message_view.hpp`) | messages, inbox, scroll offset, help panel, connection state, one posted event | showMessage, showChannelList, scrolling, render | every thread of the CLI |
| Web message hook (`client-web/src/hooks/use-channel-messages.ts`) | joined flag, connection state, live buffer, query cache | join, stream, history, paging, drain, cleanup | server, auth store |
| Web channel list and auth stores (`use-channels.ts`, `stores/*.ts`, `use-auth.ts`, `use-heartbeat-scheduler.ts`) | channels by id, session status and client id | apply list events; connect, heartbeat, disconnect, reset | server |
| Value objects, TLS, options, logging, UI components | – | validation, drawing | – |

What is hard here:

* **Read – edit a copy – save whole.** The two stores have one lock each, and no use
  case holds a lock across two calls. Everything a use case does between its calls can
  interleave with every other thread.
* **Streams outlive their map entries.** An entry is shared; a publisher may hold one
  that was removed or replaced, while the handler that owns the writer returns.
* **Removal from three sides.** A client's own Disconnect, the sweeper, and the end of
  its stream all unregister it.
* **Eviction under a paging client**, and a page and its `has_more` flag that are read
  in two critical sections.
* **A snapshot, then events**, to subscribers that register while channels are created.
* **Two sources of messages in the web client** (live stream and history) that must merge
  without loss, across effects, refs and a cache with lives of their own.
* **Detached and polling threads in the CLI** that outlive the command that started them, and
  answers that are shown after newer ones.
* **Answers that never come**: the clients decide what to show after a call that may or may
  not have taken effect, and tell errors apart by how the server words them.

What makes each part correct: the indexes of both stores agree with their maps; a
removed session stays removed; joined sets and member sets agree; a silent session is
reaped; a Write never touches a dead stream and never overlaps another
Write; an open stream hears its channel; the history is the newest messages and paging
yields an unbroken, complete run; a list subscriber sees every channel; the clients show
each message once and end up on the channel last asked for.

## 2. Modules

| Module | Models | Checked by | Proofs |
|---|---|---|---|
| `Membership` | registry, repository, create/join/leave/disconnect, heartbeats, the sweeper | `MCMembership` | `MembershipProofs` |
| `ClientPublisher` | `GrpcClientPublisher` and the `SubscribeToChannel` handler | `MCClientPublisher` | `ClientPublisherProofs` |
| `MessageHistory` | message repository, SendMessage, ListMessages, a paging client | itself | `MessageHistoryProofs` |
| `ChannelListPublisher` | `GrpcChannelListPublisher`, its handler, the use cases that publish to it, `useChannels` and the channels store | itself | `ChannelListPublisherProofs` |
| `ChannelDirectory` | nothing of the code: what the channel list promises, which `ChannelListPublisher` implements | through `ChannelListPublisher` | `ChannelListPublisherProofs` |
| `ErrorMapping` | server error → gRPC status → client error (operators only) | through `CliSession`, `ChannelPage` | – |
| `CliSession` | the commands of `bcli`, its subscription threads and the gateway | itself | `CliSessionProofs` |
| `CliView` | presenter, inbox queue, scroll window | through `CliClient` | `CliClientProofs` |
| `CliClient` | the threads of `bcli` around `CliView`: UI loop, polling, heartbeat, watcher, shutdown | itself | `CliClientProofs` |
| `ChannelPage` | the web session and heartbeat, the message hook with its query cache, routing of messages on the server | itself | `ChannelPageProofs` |

The composition: `CliClient` extends `CliView` with the threads that call it.
`ChannelListPublisher` spans server, wire and browser, and `ChannelPage` joins the hook
to the parts of membership, publisher and history it can see. Where a module repeats a part
that another models in detail it keeps only what can be observed from its side
and says so in its header comment.

Definitions named after a mutation (`JoinBySave`, `RegisterUnlocked`, `DrainForgets`, …) are
**fault variants**: the plausible bug each property is meant to catch. No specification uses
them; the mutant list in `PROJECT.json` says which variant replaces which definition, and
TLC then finds the property violated.

### Membership

State: `clients_by_id`, `username_to_id`, `historical_usernames`, `channels_by_id`,
`name_to_id` are the five maps of the two stores under the code's names. `thread[t]` is
the activation record of the use case a thread runs: program counter, client, target
channel and the **copy** of its members, the channels still to leave, the one being left
and the edited copy of its members. `batch` is the vector `collectExpired` returned.
`contended` is a history variable: two use cases have overlapped.

One action per critical section. A join is `JoinBegin` (session read: the channels to
leave are fixed here), `JoinFindById`/`JoinFindByName` (channel copied),
then for each other channel `RmFind`, `RmSave`, `LeaveAtomic`, and finally `AddMember`
(the copy plus the client is saved) and `JoinAtomic`. Leave, Disconnect and the sweeper
share the loop; `RmFailed`, `Advance` and `AfterChannel` are the differences between them:
LeaveChannel returns an error, Disconnect and the sweeper tolerate it, a join
goes on to the session's joined set. Save rewrites the name index as the code does.
Publishing touches neither store and belongs to the step before it.

Abstractions: a UUID or a name is a model value; generated ids never repeat (`Connect`
takes an id never used, `CreateStore` one not in the map); `last_heartbeat_at` is reduced
to whether it is before the next sweep's deadline (`fresh`, `Age`); which
channel a join names is chosen when it is first used; the order of an unordered set of
joined channels is any order. `Patient` is the set of clients that wait for one answer
before they send the next request; nothing in the server enforces it, so the properties
that need it say so.

### ClientPublisher

A stream is one SubscribeToChannel call: its handler (`pc`), its `ServerWriter` (usable
until the handler returns) and its entry. `writers` is the map, `armed` the entries whose
writer is not null, `disarming[k]` the entry a thread in `unregisterSubscriber` took out
of the map, `targets[p]` the entries a publisher has copied under the shared lock, and
`writing[p]` the one whose `Write` it is inside, holding `write_mutex`. `Subscribe`
registers before `Authorise`, as the handler does. A reaper is a Disconnect or an expiry:
it reaches `unregisterSubscriber` from outside the stream. `Patient` clients subscribe
again only after their last handler has returned. A client cannot observe that moment (the
handler polls for cancellation every 50 ms), so patience is a matter of timing, and
`Calm`, the streams of patient clients nobody removes from outside, is the hypothesis of
two properties. Recipients of a publish are any set of clients.

### MessageHistory

`buffers` is the deque per channel; `log` (history variable) is everything ever saved.
A message is named by its place in the order of construction, which is the order of
`sent_at`. `Stamp` constructs it, `Save` appends and evicts. A reader pages as
`useInfiniteQuery` does in `client-web/src/hooks/use-channel-messages.ts`: `Open`, then
`ReadPage` (the page) and `ReadMore` (`has_more`, in a second critical section, and the
client's decision to go on), with the oldest message of a page as the next cursor.
`Refused` is the membership check failing. `end` (history) is how many messages the
channel had when the first page was read.

### ChannelListPublisher and ChannelDirectory

The whole path of the live channel list. `members` is the repository's member sets (its
other indexes are in `Membership`), `writers` and `mutex` are the publisher's map and
`mutex_`, `handler[s]` is where a SubscribeToChannelList call is, `wire[s]` the events written
and not yet read, `store[s]` the page's channels store while the hook is mounted.
`Register` and `WriteSnapshot` are the two halves of `registerSubscriberWithSnapshot`,
which holds `mutex_` across the list of the repository **and** the Write. `Create`,
`ReadCopy`, `AddMember`, `RemoveMember`, `PassOver`, `Recount`, `NoEdit` and `ExpireMember`
are what the use cases do to the repository and what they decide to publish (a join
counts its own copy, a leave reads the channel once more, `leaveOtherChannels` publishes even
where there was nothing to leave, an expiry publishes nothing); `Lookup` and `WriteEvent`
are a publication. `Mount`, `Receive`, `Fail` and `Unmount` are `useChannels`; `Apply` is the
store's three operations. `overlap` (history) excuses `CountsAgree`: two edits overlapped, or
a session expired.

`ChannelDirectory` is the abstract specification: a viewer shows channels that exist and,
while it watches, never loses one. `ImplementsDirectory` maps `existing` to the repository's
channels, `watching` to the mounted pages and `shown` to the domain of each page's store.
It is not obvious because a snapshot **replaces** the store: had anything been written
to the stream before it, or if the snapshot could be older than a channel already shown,
the step would map to none of the directory's.

### ErrorMapping

`errorToStatus` (server), `statusToError` (CLI) and `mapError` (web) as operators over
messages that are sequences of words, because both clients look into the wording to tell
apart errors that share a status code. `CliSession` and `ChannelPage` pass every refusal
through them, so that a property about what the client does next depends on the tables.

### CliSession

The UI thread runs one command at a time, `ui` is where it is: `Connect`, `Send`,
`JoinList`/`JoinCall`/`Joined`, `Create`, `List`, `Leave`, `Quit`. Every call may be answered, refused
for the server's reason, or lost before or after it took effect (`Fault`). `active` is
`active_channel_id_`, which `leaveChannel` gives up before it calls. Each change of channel
spawns a detached thread (`sub[i]`); `Register` and `Authorise` are the server's handler for
its stream, `Break` and `Cleanup` its failure and the handler noticing it. `registered` is the
thread whose stream the publisher has for the client. `members` are the channels that have
the client as a member and `joined` those its session records: `ServeJoin`, `ServeLeave` and
`ServeRemoval` are what JoinChannel, LeaveChannel and Disconnect or the sweeper do to the two.
The calls of **other clients** appear as `Overwrite`, the save of a channel copied before this
client joined or left it (`join_channel.cpp:85`, `remove_member_broadcast.cpp:25`; finding 1): it
drops a member that had joined or restores one that had left, and tells neither. Any number of other clients may
hold such copies, so all that is remembered is `been` (history), the channels of which one with the
client in it can exist. `overwritten` (history) are the channels where such a save had
the last word; a join rewrites the one it leaves and the one it joins and so mends them. `toast` is what the status line
words and `cause` (history) what went wrong. `warned` and `hurried` (history) are the
hypotheses of two properties: the last join or leave failed visibly; a thread was started
before the one before had settled.

### CliView and CliClient

`CliView` is the presenter: `showMessage` in its two halves (`ShowMessage`, `Push`),
`showChannelList`, `updateConnectionState`, toasts, the keys, and `Render`, which takes at most
`DrainMax` messages from the inbox and clamps the scroll offset before it draws
`computeScrollWindow`. `posted` is "the loop has an event": FTXUI draws only after one.
`CliClient` adds the threads: the loop and commands of the UI thread, `PollWait`/`PollTimeout`/
`PollShow` (the polling thread, whose wait may miss the notification), `Beat`/`BeatShow`,
`WatchRead`/`WatchShow` (each reads something and tells the presenter in a later step) and the
shutdown `Quit`, `Notify`, `Disconnect`. The states of the gRPC channel other than READY are
one; a call succeeds when the channel is READY.

### ChannelPage

One browser, one user. `auth` and `leaving` are the auth store; `hook` holds the state and
refs of `useChannelMessages` and where its async task is; `data` and `fetch` are React Query's
cache and its request in flight per channel (React Query is external: modelled from
how the hook configures it – no stale time, infinite query, retry function). A **visit** is one
run of the main effect; `trail` lists them. `Visit` is one commit: the first render, which still
sees the previous visit's `isJoined`, then the drain effect with the previous visit's refs, then
the main effect, in the order React runs them. `Join`, `Joined`, `LiveEvent`, `StreamEnds` are the async task,
`Drain` the drain effect when it is due, `ListMessages`, `Fetched`, `FetchFailed`, `fetchOlder`
the query. A Connect that is served but whose answer is lost is a failure like any other: its
session has an id no page knows, and only its name shows until the sweeper has it. `reset` is what a lost session does to store, cache and hook. The server's side is
what this user can see: `session`, `member`, the handler of each visit's stream and `writer`,
the one registered. Messages are numbered in the order they are saved, so that a page of the
history is the set of its numbers (`Newest`, `Oldest`) and the sorted, deduplicated list the page
shows is a union of such sets; `SendTo`, `Save` and `Publish` are SendMessage's copy, save and publish, with
the recipients taken from the copy (`MessageRouter::recipientsFor`). `stray` are joins of ended
visits still under way. `calm` (history) is defined by the actions: what has not happened
to this visit, listed at `CalmIsComplete`.

## 3. Runs

| Run | Configuration | Distinct states | Shows |
|---|---|---|---|
| `membership` | 2 client ids, 2 usernames, 2 channels and names, 1 worker, the sweeper, both clients patient, fairness | 368 849 | `TypeOK`, `RegistryIndexes`, `RepositoryIndexes`, `UncontendedAgree`, `RemovedStaysRemoved`, `HeartbeatNotClobbered`, `StaleIsReaped`, `UseCasesReturn` |
| `membership_workers` | 2 workers, no expiry, one client patient and one not; workers and usernames symmetric | 461 970 | `AtMostOneChannel` |
| `membership_lost_join` | 2 workers, both clients patient | violation | `JoinedIsMember` fails: a later save of an old copy loses a successful join |
| `publisher` | 2 clients with 2 streams each (one overlapping and removed from outside once, one patient), 1 publisher that never stops, fairness | 96 448 | `TypeOK`, `WriterDiscipline`, `NoDanglingEntry`, `CalmWriteEndsFirst`, `CalmIsRegistered`, `ClosersReturn` |
| `publisher_replaced` | 2 overlapping streams of one client, 1 publisher | violation | `NoWriteAfterReturn` fails: the first handler disarms the second entry |
| `publisher_resubscribe` | the same | violation | `OpenStaysRegistered` fails: the handler of the dropped stream, when it notices, erases the registration of the stream opened since (`GrantedSpec`: no request is refused, so a handler closes only for a dropped stream) |
| `history` | 2 channels, 2 senders, 6 messages, cap 0 with default 4, page limit 3 with server maximum 2, fairness | 136 497 | `TypeOK`, `BufferIsNewest`, `PagesAreContiguous`, `PagingIsComplete`, `PagingEnds` |
| `channel_list` | 2 channels, 1 client, 2 pages, 2 threads, 1 edit, fairness | 236 289 | `TypeOK`, `NoChannelMissed`, `CountsAgree`, `EventuallyShown`, `ImplementsDirectory` |
| `cli_session` | 2 channels, 3 subscription threads, 2 faults (lost calls, broken streams, an expiry, stale saves of other clients) | 2 479 179 | `TypeOK`, `NoSilentDivergence`, `HearsActive`, `ToastIsCause` |
| `cli_client` | window of 1 line, 1 message a render, 2 messages, 2 channels, fairness | 297 336 | `TypeOK`, `InOrder`, `WindowIsRight`, `InboxDrains`, `ListCatchesUp`, `StatusSettles`, `QuitEnds` |
| `web_messages` | 2 channels, 1 message of backlog, 1 sender, page size 1, 1 retry, 2 messages, 2 visits, fairness of the heartbeat | 654 688 | `TypeOK`, `CalmIsComplete`, `NoFalseReset`, `SessionLossNoticed` |
| `web_revisit` | the same with 3 visits | violation | `LiveIsInjected` fails: a revisited channel buffers live messages for ever |

Why the bounds are enough for the cases that matter:

* Membership: two clients are what a lost update needs; two channels make a join leave
  one; two ids over two usernames let a name be released and taken again while the old
  session's removal is under way; one worker and the sweeper already remove one client
  from two sides and sweep under a join. Ids are consumed, so every client connects once
  per id.
* Publisher: two streams of one client are needed for one to replace the other, a third
  and a fourth for a client that subscribes twice in turn; one publisher that looks up again and again
  already keeps a mutex busy. That two publishers exclude each other is the entry's mutex, and
  proved for any number of them.
* History: six messages over a cap of four evict within a page walk of three pages; the
  page limit exceeds the server's maximum and the cap is the default, so both clamps are
  exercised.
* Channel list: the second channel is the one created under a registration; two threads let
  a creation, an edit and a publication overlap, two pages hold the mutex against
  each other. One edit is a join, a leave or an expiry of the one client, and it overlaps with the
  creation. More overlapping edits only reach states that `CountsAgree` excuses.
* CLI session: the third thread is the one that can be started with an old one open and
  another starting; two faults are a lost answer and a broken stream, or an expiry or another
  client's stale save and either; two stale saves drop the client from one channel and restore it in another.
  Without faults joins and leaves repeat up to the third thread.
* CLI client: window and drain of 1 already make two messages overflow both. The second
  channel is what an old poll answer can lack. The theorems hold for all sizes.
* Web: two visits have an ending visit's join, stream handler and request in the
  next one, and with three the user comes back; a page of one message leaves the backlog for
  `fetchOlder`. One retry is enough for a request to fail, be repeated and be given up.

Deadlock is checked in the three publisher runs, where a call that returned may stutter for ever only
because a publisher can always look up again. Elsewhere it is not: ids, messages, visits and threads
are bounded, and a client that has quit or a server nobody calls is idle. The properties that would
see a real deadlock are the liveness ones.

Fairness.

* `Membership!FairSpec`: weak fairness of each thread's next critical section (threads are
  scheduled, no lock is held across steps) and of the sweep (its loop only ends with the server).
  Clients owe nothing: no fairness on requests, heartbeats or the clock.
* `ClientPublisher!FairSpec`: weak fairness of each thread that is closing and of each
  publisher with entries in hand (gRPC completes or fails a Write); a mutex may be
  granted unfairly, so that `ClosersReturn` depends on the entry leaving the map before its
  mutex is awaited.
* `MessageHistory!FairSpec`: weak fairness of the reader; senders may stop or never stop.
* `ChannelListPublisher!FairSpec`: weak fairness of each handler, each publication and each
  edit once begun, and of the page reading its stream. Nobody owes a mounting or a creation.
* `CliClient!Spec`: weak fairness of commands returning, of the three background threads
  and of a push once begun. Their intervals pass; of their calls only the heartbeat has a
  deadline (5 s), so that the commands and the poll's `listChannels` are **assumed** to be answered or to fail
  some time. `ListCatchesUp` and `QuitEnds` rest on that assumption: a quit while `listChannels`
  hangs joins a polling thread that never returns, and is not represented. And **strong**
  fairness of `Draw`, because a loop that has an event draws between commands even if the user
  keeps giving commands. Nothing is assumed of the user, the network, the server, or
  the notification reaching the polling thread.
* `ChannelPage!Spec`: weak fairness of `Heartbeat` only: the interval goes on firing and a
  beat is answered some time. Requests, streams and React's retries may stall for ever.

Findings, each by a violation run and with the quoted line in `PROJECT.json`:

1. `join_channel.cpp` saves a stale channel copy: simultaneous joins lose a member whose
   join returned success. (The same pattern in `removeMemberAndBroadcast` brings a member
   back after it left, and two overlapping joins of one impatient client leave it in two
   channels.)
2. `registerSubscriber` replaces an entry without disarming it and
   `unregisterSubscriber` goes by client id: with overlapping streams of one client a
   handler can return while its own writer is being written to. (The same happens with
   one stream when Disconnect or the sweeper has taken its entry first: the handler finds
   none and returns at once.)
3. For the same reason a new stream opened before the old handler has noticed its
   cancellation is unregistered by it, and stays open and silent. (That a newer stream takes
   over the registration of an older one is intended, and not held against the code:
   `OpenStaysRegistered` speaks of the newest only.)
4. `use-channel-messages.ts` resets `initialFetchedRef` on every visit, but on a channel whose
   history is cached the effect that sets it again is not due any more: live messages of
   the visit stay in the buffer.

Met while modelling, and part of the models, but contradicted by no document or only in
passing, so without a run of their own:

* The sweeper removes a session whose heartbeat arrived after `collectExpired`; an expiry
  publishes no member counts, so lists show the old count until the next change.
* ListMessages checks the membership and never the client: after an expiry the page's history
  request is refused with NotAMember, and only the heartbeat learns the truth.
* The first render after a switch of channels still has `isJoined` of the previous one, so the
  history request may overtake the join. (`use-channel-messages.test.ts:114` has it that nothing
  is listed before the join; it mounts one channel only.) It is then refused and retried.
* The drain effect of that commit has the previous visit's refs: with the new channel's
  history cached, pending messages of the previous channel are injected into it, relabelled
  with the new channel's id.
* `fetchNextPage` stores its page behind the pages it captured at its start: a live message
  injected meanwhile disappears. A cached history is never fetched again, so messages sent
  while the user was elsewhere are missing from it.
* A join whose visit has ended is still served, and moves the user out of the channel the
  page shows by then; `isConnected` stays true after a reset.
* In the CLI, a join that overtakes the subscription of the one before can have the older
  thread's refusal unregister the newer stream. The stale saves of finding 1 reach the user of the
  CLI without a word: the status line stays as it was until the next send is refused. `joinChannel`'s AlreadyMember branch and
  `resolveChannelIdByName` cannot be reached.

## 4. Proofs

All theorems are for any number of clients, channels, threads, streams, pages, messages and
faults, from the named assumptions of the modules only: `MembershipAssumption`,
`PublisherAssumption`, `HistoryAssumption`, `ListAssumption`, `SessionAssumption`,
`ViewAssumption`, `ChannelsAssumption`, `PageAssumption`. They say that ids and threads are distinct from the
null value where the code's types make them so, that bounds and limits are numbers
(positive where the code's defaults are), and that the clients are finitely many, so that they can be
counted. TLC evaluates each of them in the module's runs.

**`MembershipProofs`**

* `TypeCorrect`: `TypeOK` is not inductive, because saving a copy indexes the map by
  the channel id in the frame. `TypeInv` adds `FramesOK`: what each program counter
  implies about the frame (a saving frame names an existing channel, a joining frame has
  its target, …). Channels are never deleted, so other threads keep these facts.
* `RegistryIndexesCorrect`, `RepositoryIndexesCorrect`: inductive given `TypeInv`. Removal
  erases the name stored **in the session under the lock**; a save of an old copy rewrites
  the index with a name that never changes.
* `RemovedStaysRemovedCorrect`, `HeartbeatNotClobberedCorrect`: action properties, from
  `TypeInv` (and the registry invariant).
* `AtMostOneChannelCorrect`: the invariant is `OneChannelInv`: no two workers
  serve one patient client (`Exclusive`); where a frame is in its loop (`JoinFrames`); and
  `JoinCovers`: a join's frame accounts for every channel its client's session
  still lists (to leave, being left, or the target). So when the loop is over and
  the target is added, the target is all the session can list.
* `UncontendedAgreeCorrect`: the invariant says nothing once two use cases have overlapped; until
  then `AloneInv` says that at most one thread is under way (`Alone`), that joined sets and
  member sets agree but for the channels its client is leaving or joining (`AgreeBut`, with
  `Left` and `Joining` reading them off the frame), that the copies in its frame are what
  the stores hold (`InHand`), and that the sweeper's batch is what the registry holds
  (`BatchOK`). It is inductive with `TypeInv`, `JoinFrames` and `RegistryIndexes` (a new session
  has a new id). Overlap is what falsifies `InHand`: the runs that expect a violation show
  the stale copies.

**`ClientPublisherProofs`**

* `TypeCorrect`; `WriterDisciplineCorrect` (inductive with the types: `Disarm` takes the
  lock a Write holds); `NoDanglingEntryCorrect` through `EntriesLive` (an entry in the map
  has a handler that has not begun to disarm).
* `CalmWriteEndsFirstCorrect`, `CalmIsRegisteredCorrect` through `CalmInv`: a calm stream's
  handler owns its client's entry until it takes it out itself (`OwnEntry`), one handler of
  the client at a time (`OneHandler`); only calm streams share a client id with a calm
  stream (`CalmCloser`).

**`MessageHistoryProofs`**

* `BufferIsNewestCorrect`: by `HistoryInv`, the types of the stores with the invariant
  itself. The step is `NewestAppend`: appending to the window of the newest `n` messages
  and cutting it again is the window of the longer log, for every `n` but 0. That
  0 never reaches it is `CapPositive`, the constructor's default.
* `TypeCorrect`, `PagesAreContiguousCorrect`, `PagingIsCompleteCorrect`, by `IInv`, which adds
  `Distinct` (each message is saved once, so that a cursor names one position) and
  `Readings` (`Placed`: the pages collected are the log up to where reading began, and a page just read
  comes directly before them; `Exhausted`: a reader that stopped has nothing retained before its
  pages). Evictions between a page and its `has_more`, or under the cursor, only move the
  beginning of the window (`WindowMoves`); `ListBeforeRun` says what a page before a cursor
  is, an evicted cursor included, and `JoinRuns` puts it before the earlier pages.

**`ChannelListPublisherProofs`**

* `NoChannelMissedCorrect`. `Covered` extends the property to a stream between its two
  halves of registration: every channel is in the list it has read, or a thread is still **before**
  its lookup and owes it (`ListedCovers`). It holds because the entry is filed, and the list read,
  under one hold of `mutex_`, and a creation changes the repository before it looks up.
  `Registered` ties entries and mutex to handlers, `Working` the events in hand to the
  repository.
* `ImplementsDirectoryCorrect`: `Spec` implies `Directory!Spec`. The invariant it needs is
  `Wires`: a snapshot can only be first on the wire of a stream whose store is empty, and every
  event tells of existing channels only. So no step of the store loses a channel.
* `CountsAgreeCorrect`, through `CountInv`: while no two changes have overlapped, one thread at
  most is busy (`OneEdit`); the copy it edits is what the repository holds and its event tells
  the counts the repository holds (`Fresh`); and for each stream and channel either the thread has
  still to tell this stream (`WillTell`), or the list in the registering handler's hand, or the
  store once the wire is read, has the repository's count (`PagesRight`). `ShowsIn` says what a store
  will show after a queue of events – the last event that mentions the channel decides – so that
  `Receive` keeps it (`ApplyShows`) and an appended event restores it (`ShowsAppend`). A page
  that subscribes between the save of a change and its lookup has the new count from the
  snapshot and is told it once more; one that is registered after the lookup is not told, and
  need not be.
* `TypeCorrect`: `IInv` with the two history variables.

**`CliSessionProofs`**

* `ToastIsCauseCorrect`: by `RefusalsSurvive`, that `statusToError` inverts `errorToStatus` on the
  refusals these commands meet: it recognises one error only, because two
  messages differ in a word both have (`DifferAt`, `Apart`).
* `NoSilentDivergenceCorrect`: the theorem is conditional, as the property is: never in silence **unless**
  another client's stale save had the last word on one of the memberships (`overwritten`). It
  goes through the session's record. `Agreement`: outside `overwritten` the channels and
  the session agree, and a session records one channel at most. `Divergence`: what the session records
  is what the user believes, or a failure was shown, or a command is half done (a join that
  succeeded has moved the member and has still to set the active channel). `MembershipSteps` lists the
  only steps that touch the memberships.
* `HearsActiveCorrect`: `InTurn` (threads are started in order, 1 to the last) and `Quiet`: while
  nothing failed and no join overtook, only the last thread can be starting, every older one is
  settled, and the last is what the server has registered for the active channel.
* `TypeCorrect`.

**`CliClientProofs`**

* `InOrderCorrect`: `Deliveries` describes list and inbox apart (each is a run of numbers, the
  inbox starting after the list), from which the concatenation follows.
* `WindowIsRightCorrect`: `Scrolled` keeps the offset within the list, and ties
  `auto_scroll` to offset 0. `WindowFull` computes the window for every height.
* `TypeCorrect`.

**`ChannelPageProofs`**

* `NoFalseResetCorrect`: by `SessionOK` (a session begins with the answer to Connect, and once) and
  `FetchOK` (a history request fails only as NotAMember or for the network), with
  `NotTheClient`: `mapError` takes neither for an unknown client.
* `TypeCorrect`, `CalmIsCompleteCorrect`, through `PInv`, which is inductive with `IInv`. Its parts:
  `LogOK` (messages are numbered in the order they were saved: the ones sent are 1 to `Count`, and
  each channel's are increasing);
  `Cached` (a history is only added to once it has been loaded, and a page read before the
  cursor has every message between its oldest and the cursor); `Visited` and `Streamed` (what the
  hook's place implies about session, visit and the server's handlers; no stream is registered
  for a visit that has not asked for one); `Buffered` (a buffer that has been drained stays empty);
  and `Calm`, which extends the property to the middle of things: as soon as the first page
  has been **read** on the server, not only when it is stored, the stream is registered and
  whatever is `Due` `Reaches` the page – it is in the page in flight, the history, the buffer, on the wire, or
  saved and about to be published to the user. The lemmas about the model's operators carry the
  arithmetic: `NewestFacts` (the newest `PageSize` of a set have no gap and have its newest),
  `ReadFacts` (what ListMessages returns has no gap above its oldest message), `OldestFacts`.

Only model-checked: the liveness properties (`StaleIsReaped`, `UseCasesReturn`,
`ClosersReturn`, `PagingEnds`, `EventuallyShown`, `InboxDrains`, `ListCatchesUp`,
`StatusSettles`, `QuitEnds`, `SessionLossNoticed`): fairness and ENABLED are beyond the
prover. Every invariant and action property that a passing run checks is a theorem.

## 5. Not modelled

* Value objects, trimming and UUID parsing: the modules start from validated input.
* TLS, option parsing, logging, drawing, command syntax, rendering and routing of web
  pages: I/O or presentation.
* The event log and the database adapters: created and never used, and stubs, respectively.
* The sweeper's stop token and `ServerRunner::shutdown`: the sweeper lives as long as
  the server, and only tests call shutdown.
* The FTXUI menu reading `channel_names_` without the mutex: a data race on a vector, whose
  outcomes are those of no interleaving.
* Operations without a caller: `IClientRegistry::save` (a fault variant only), `broadcastEvent`,
  `clearMessages`, `setActiveChannel`, and the CLI's `resolveChannelIdByName`.
* React Query, FTXUI and gRPC themselves: modelled from how the code uses them.

## 6. What is left

1. An abstract stream writer that `ClientPublisher` refines, and an abstract bounded log that
   `MessageHistory` refines.
