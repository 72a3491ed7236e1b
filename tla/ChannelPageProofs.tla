-------------------------- MODULE ChannelPageProofs --------------------------
(***************************************************************************)
(* Proofs about the web client, for any number of channels, visits,        *)
(* senders, messages and retries and any page size:                        *)
(*   - it gives up its session for a reason (IInv),                        *)
(*   - its state is well typed and the page of a calm visit misses         *)
(*     nothing (PInv, which has for each place a message can be in on its  *)
(*     way to the page what the steps before have to have left there).     *)
(***************************************************************************)
EXTENDS ChannelPage, FiniteSetTheorems, WellFoundedInduction, TLAPS

\* A session begins with the answer to Connect, and begins once.
SessionOK ==
    /\ auth \in {"idle", "connecting"} => session = "none"
    /\ auth = "disconnected" /\ session = "alive" => leaving

\* A history request fails because it overtook the join, or because it was lost:
\* ListMessages looks at the membership and never for the client.
FetchOK ==
    /\ DOMAIN fetch = Channels
    /\ \A h \in Channels :
          /\ {"pc", "error"} \subseteq DOMAIN fetch[h]
          /\ fetch[h].pc = "failed" => fetch[h].error \in {"NotAMember", "NetworkError"}

IInv == SessionOK /\ FetchOK

LEMMA NotTheClient ==
    ~isClientNotFound("NotAMember") /\ ~isClientNotFound("NetworkError")
<1>1. ~isClientNotFound("NetworkError")
  BY DEF isClientNotFound, Unavailable, mapError
<1>2. errorToStatus("NotAMember") = [code |-> "NOT_FOUND", message |-> <<"not", "a", "member">>]
  BY DEF errorToStatus, error_message
<1>3. ~Mentions(<<"not", "a", "member">>, "client")
  BY DEF Mentions
<1>4. ~isClientNotFound("NotAMember")
  BY <1>2, <1>3 DEF isClientNotFound, mapError
<1> QED BY <1>1, <1>4

LEMMA NoFetchFacts == {"pc", "error"} \subseteq DOMAIN NoFetch /\ NoFetch.pc = "idle"
BY DEF NoFetch

LEMMA EnabledKeeps ==
    ASSUME FetchOK, NEW h \in Channels, fetch' = Enabled(h) \/ fetch' = fetch
    PROVE  FetchOK'
<1> DEFINE asked == [NoFetch EXCEPT !.pc = "asked"]
<1>1. {"pc", "error"} \subseteq DOMAIN asked /\ asked.pc = "asked"
  BY NoFetchFacts
<1> HIDE DEF asked
<1>2. fetch' = fetch \/ fetch' = [fetch EXCEPT ![h] = asked]
  BY DEF Enabled, asked
<1> QED BY <1>1, <1>2 DEF FetchOK

LEMMA ResetKeeps ==
    ASSUME reset
    PROVE  FetchOK' /\ auth' = "disconnected"
BY NoFetchFacts DEF reset, FetchOK

LEMMA InitIInv == Init => IInv
BY NoFetchFacts DEF Init, IInv, SessionOK, FetchOK

LEMMA SessionStep == IInv /\ [Next]_vars => SessionOK'
<1> SUFFICES ASSUME IInv, [Next]_vars PROVE SessionOK'
  OBVIOUS
<1> USE DEF SessionOK
<1>0. SessionOK
  BY DEF IInv
<1>1. CASE UNCHANGED <<auth, leaving, session>>
  BY <1>0, <1>1
<1>2. CASE Connect
  BY <1>0, <1>2 DEF Connect, server
<1>3. CASE Connected
  BY <1>0, <1>3 DEF Connected
<1>4. CASE Disconnect
  BY <1>4, ResetKeeps DEF Disconnect
<1>5. CASE Heartbeat
  BY <1>5, ResetKeeps DEF Heartbeat
<1>6. CASE SessionEnds
  BY <1>0, <1>6 DEF SessionEnds, store
<1>7. CASE Join
  <2>1. \/ UNCHANGED <<auth, leaving, session>>
        \/ session = "gone" /\ session' = session /\ reset
    BY <1>7 DEF Join
  <2> QED BY <2>1, <1>1, ResetKeeps
<1>8. ASSUME NEW h \in Channels, FetchFailed(h) PROVE SessionOK'
  <2>1. fetch[h].error \in {"NotAMember", "NetworkError"}
    BY <1>8 DEF FetchFailed, IInv, FetchOK
  <2>2. UNCHANGED <<auth, leaving, session>>
    BY <2>1, <1>8, NotTheClient DEF FetchFailed
  <2> QED BY <1>1, <2>2
<1>9. CASE Unmount \/ Joined \/ LiveEvent \/ StreamEnds \/ Drain \/ fetchOlder \/ LeaveChannel
              \/ UNCHANGED vars
  BY <1>1, <1>9 DEF Unmount, Joined, LiveEvent, StreamEnds, Drain, fetchOlder, LeaveChannel, vars,
                    store, server
<1>10. ASSUME NEW h \in Channels, Visit(h) \/ ListMessages(h) \/ Fetched(h) \/ StrayJoin(h)
       PROVE  SessionOK'
  BY <1>1, <1>10 DEF Visit, ListMessages, Fetched, StrayJoin, store, server
<1>11. ASSUME NEW v \in 1..MaxVisits, Subscribe(v) \/ StreamClosed(v) PROVE SessionOK'
  BY <1>1, <1>11 DEF Subscribe, StreamClosed, store, server
<1>12. ASSUME NEW s \in Senders, Save(s) \/ Publish(s) \/ (\E h \in Channels : SendTo(s, h)) PROVE SessionOK'
  BY <1>1, <1>12 DEF Save, Publish, SendTo, store, server
<1> QED
  BY <1>2, <1>3, <1>4, <1>5, <1>6, <1>7, <1>8, <1>9, <1>10, <1>11, <1>12 DEF Next

LEMMA FetchStep == IInv /\ [Next]_vars => FetchOK'
<1> SUFFICES ASSUME IInv, [Next]_vars PROVE FetchOK'
  OBVIOUS
<1>0. FetchOK
  BY DEF IInv
<1>1. CASE fetch' = fetch
  BY <1>0, <1>1 DEF FetchOK
<1>2. CASE Disconnect \/ Heartbeat
  BY <1>2, ResetKeeps DEF Disconnect, Heartbeat
<1>3. CASE Join
  BY <1>1, <1>3, ResetKeeps DEF Join
<1>4. ASSUME NEW h \in Channels, Visit(h) PROVE FetchOK'
  BY <1>0, <1>4, EnabledKeeps DEF Visit
<1>5. CASE Joined
  <2>1. fetch' = Enabled(here)
    BY <1>5 DEF Joined
  <2>2. CASE here \in Channels
    BY <2>1, <2>2, <1>0, EnabledKeeps
  <2>3. CASE here \notin Channels
    <3>1. fetch' = fetch \/ fetch' = [fetch EXCEPT ![here] = [NoFetch EXCEPT !.pc = "asked"]]
      BY <2>1 DEF Enabled
    <3>2. \A h \in Channels : fetch'[h] = fetch[h]
      BY <3>1, <2>3, <1>0 DEF FetchOK
    <3>3. DOMAIN fetch' = Channels
      BY <3>1, <1>0 DEF FetchOK
    <3> QED BY <3>2, <3>3, <1>0 DEF FetchOK
  <2> QED BY <2>2, <2>3
<1>6. CASE fetchOlder
  <2> DEFINE asked == [NoFetch EXCEPT !.pc = "asked", !.older = TRUE, !.base = data[here].msgs]
  <2>1. {"pc", "error"} \subseteq DOMAIN asked /\ asked.pc = "asked"
    BY DEF NoFetch
  <2>2. fetch' = [fetch EXCEPT ![here] = asked]
    BY <1>6 DEF fetchOlder
  <2> HIDE DEF asked
  <2> QED BY <2>1, <2>2, <1>0 DEF FetchOK
<1>7. ASSUME NEW h \in Channels, ListMessages(h) PROVE FetchOK'
  <2>1. /\ DOMAIN fetch' = Channels /\ \A g \in Channels \ {h} : fetch'[g] = fetch[g]
        /\ {"pc", "error"} \subseteq DOMAIN fetch'[h]
    BY <1>0, <1>7 DEF ListMessages, FetchOK
  <2>2. fetch'[h].pc = "failed" => fetch'[h].error \in {"NotAMember", "NetworkError"}
    BY <1>0, <1>7 DEF ListMessages, FetchOK
  <2> QED BY <2>1, <2>2, <1>0 DEF FetchOK
<1>8. ASSUME NEW h \in Channels, Fetched(h) PROVE FetchOK'
  <2>1. fetch' = [fetch EXCEPT ![h] = NoFetch]
    BY <1>8 DEF Fetched
  <2> QED BY <2>1, <1>0, NoFetchFacts DEF FetchOK
<1>9. ASSUME NEW h \in Channels, FetchFailed(h) PROVE FetchOK'
  <2>1. \/ reset
        \/ fetch' = [fetch EXCEPT ![h] = NoFetch]
        \/ fetch' = [fetch EXCEPT ![h].pc = "asked", ![h].failures = @ + 1, ![h].error = ""]
    BY <1>9 DEF FetchFailed
  <2>2. CASE fetch' = [fetch EXCEPT ![h] = NoFetch]
    BY <2>2, <1>0, NoFetchFacts DEF FetchOK
  <2>3. CASE fetch' = [fetch EXCEPT ![h].pc = "asked", ![h].failures = @ + 1, ![h].error = ""]
    <3>1. /\ DOMAIN fetch' = Channels /\ \A g \in Channels \ {h} : fetch'[g] = fetch[g]
          /\ {"pc", "error"} \subseteq DOMAIN fetch'[h] /\ fetch'[h].pc = "asked"
      BY <2>3, <1>0 DEF FetchOK
    <3> QED BY <3>1, <1>0 DEF FetchOK
  <2> QED BY <2>1, <2>2, <2>3, ResetKeeps
<1>10. CASE Connect \/ Connected \/ SessionEnds \/ Unmount \/ LiveEvent \/ StreamEnds \/ Drain
              \/ LeaveChannel \/ UNCHANGED vars
  BY <1>1, <1>10 DEF Connect, Connected, SessionEnds, Unmount, LiveEvent, StreamEnds, Drain,
                     LeaveChannel, vars, page
<1>11. ASSUME NEW h \in Channels, StrayJoin(h) PROVE FetchOK'
  BY <1>1, <1>11 DEF StrayJoin, page
<1>12. ASSUME NEW v \in 1..MaxVisits, Subscribe(v) \/ StreamClosed(v) PROVE FetchOK'
  BY <1>1, <1>12 DEF Subscribe, StreamClosed, page
<1>13. ASSUME NEW s \in Senders, Save(s) \/ Publish(s) \/ (\E h \in Channels : SendTo(s, h)) PROVE FetchOK'
  BY <1>1, <1>13 DEF Save, Publish, SendTo, page
<1> QED
  BY <1>2, <1>3, <1>4, <1>5, <1>6, <1>7, <1>8, <1>9, <1>10, <1>11, <1>12, <1>13 DEF Next

\* However visits, heartbeats, retries and expiries interleave, the auth store is
\* reset only when the server has ended the session or the user has left: the
\* NOT_FOUND of a history request that overtook its join is not taken for it.
THEOREM NoFalseResetCorrect == Spec => []NoFalseReset
<1>1. IInv /\ [Next]_vars => IInv'
  BY SessionStep, FetchStep DEF IInv
<1>2. IInv => NoFalseReset
  BY DEF IInv, SessionOK, NoFalseReset
<1> QED BY <1>1, <1>2, InitIInv, PTL DEF Spec

-----------------------------------------------------------------------------
(* What the page shows: the inductive invariant.                           *)

\* The messages so far.
Count == Cardinality(Sent)

Messages == 1..Count

Hooks(M) ==
    [pc : {"none", "joining", "joined", "streaming", "ended"}, isJoined : BOOLEAN,
     connection : {"idle", "joining", "connected", "disconnected"},
     initialFetched : BOOLEAN, pendingLive : SUBSET M, seen : BOOLEAN]

Histories(M) ==
    [loaded : BOOLEAN, isSuccess : BOOLEAN, msgs : SUBSET M, cursor : M \cup {0}, more : BOOLEAN]

Requests(M) ==
    [pc : {"idle", "asked", "read", "failed"}, older : BOOLEAN, base : SUBSET M, page : SUBSET M,
     more : BOOLEAN, error : {"", "NotAMember", "NetworkError"}, failures : 0..Retries]

Sending(M) ==
    [pc : {"idle", "copied", "saved"}, channel : Channels \cup {None}, to : BOOLEAN,
     id : M \cup {0}]

\* Messages are numbered in the order they are saved, whatever the channel.
LogOK ==
    /\ log \in [Channels -> Seq(Messages)]
    /\ Sent = Messages /\ Count \in 0..MaxMessages
    /\ \A h \in Channels : \A i, j \in 1..Len(log[h]) : i < j => log[h][i] < log[h][j]
    /\ sender \in [Senders -> Sending(Messages)]
    /\ \A s \in Senders :
          /\ sender[s].pc # "idle" => sender[s].channel \in Channels
          /\ sender[s].pc = "saved" => sender[s].id # 0

CacheType ==
    /\ data \in [Channels -> Histories(Messages)]
    /\ fetch \in [Channels -> Requests(Messages)]

PageType ==
    /\ auth \in {"idle", "connecting", "connected", "disconnected"} /\ leaving \in BOOLEAN
    /\ here \in Channels \cup {None} /\ trail \in Seq(Channels) /\ visit <= MaxVisits
    /\ hook \in Hooks(Messages)
    /\ wire \in Seq(Messages)
    /\ calm \in BOOLEAN

ServerType ==
    /\ session \in {"none", "alive", "gone"} /\ member \in Channels \cup {None}
    /\ stray \subseteq Channels
    /\ handler \in [1..MaxVisits -> {"none", "sent", "open", "closed"}]
    /\ writer \in 0..visit

Types == LogOK /\ CacheType /\ PageType /\ ServerType

\* A page is visited in a session only, and the session that is lost is the last.
Visited ==
    /\ auth = "connected" => session # "none"
    /\ session = "none" => here = None
    /\ here = None => hook.pc = "none" /\ hook.connection = "idle"
    /\ here # None /\ auth = "connected" => hook.pc # "none"
    /\ hook.pc # "none" => visit # 0
    /\ auth = "connected" /\ hook.connection = "connected" => Listening

\* A stream is registered when its visit has asked for it.
Streamed ==
    /\ hook.pc \in {"joining", "joined"} => handler[visit] = "none"
    /\ \A v \in 1..MaxVisits : v > visit => handler[v] = "none"
    /\ writer # 0 => handler[writer] # "none"

HasOldest(ms) == \E m \in ms : \A k \in ms : m <= k

\* The cache: only a history that has been loaded is added to, and a page read
\* before its cursor has no gap.
CachedAt(d, f, ms) ==
    /\ d.isSuccess => d.loaded
    /\ ~d.loaded => d.msgs = {} /\ d.cursor = 0 /\ ~d.more
    /\ f.pc # "idle" => (f.older <=> d.loaded)
    /\ f.pc = "read" =>
          /\ f.page # {} => HasOldest(f.page)
          /\ f.older => \A m \in ms, k \in f.page : k <= m /\ m < d.cursor => m \in f.page

Cached == \A h \in Channels : CachedAt(data[h], fetch[h], Range(log[h]))

\* The buffer is not used once it has been drained.
Buffered ==
    hook.initialFetched => here # None /\ data[here].loaded /\ hook.pendingLive = {}

\* The visit's history is there, or has been read.
HasRead == data[here].loaded \/ fetch[here].pc = "read"

\* The messages the page has to show.
Due(m) ==
    IF data[here].loaded THEN m >= data[here].cursor
    ELSE fetch[here].page = {} \/ \E k \in fetch[here].page : k <= m

\* A message is on the page, or will come to be.
Reaches(m) ==
    \/ m \in data[here].msgs \cup hook.pendingLive \cup Range(wire)
    \/ ~data[here].loaded /\ m \in fetch[here].page
    \/ \E s \in Senders : sender[s].pc = "saved" /\ sender[s].to /\ sender[s].id = m

Calm ==
    calm /\ auth = "connected" /\ here # None =>
       /\ hook.seen => hook.initialFetched
       /\ hook.pc \in {"joining", "joined"} => ~HasRead
       /\ Listening /\ HasRead =>
             writer = visit /\ \A m \in Range(log[here]) : Due(m) => Reaches(m)

PInv == Types /\ Visited /\ Streamed /\ Cached /\ Buffered /\ Calm

-----------------------------------------------------------------------------
(* Numbers and pages.                                                      *)

LEMMA LogFacts ==
    ASSUME LogOK
    PROVE  /\ Count \in Nat /\ Sent = Messages /\ Cardinality(Sent) = Count
           /\ \A h \in Channels : Range(log[h]) \subseteq Messages
           /\ \A h \in Channels : Range(log[h]) # {} =>
                 \E m \in Range(log[h]) : \A k \in Range(log[h]) : k <= m
<1>1. MaxMessages \in Nat
  BY PageAssumption
<1>2. Count \in Nat /\ Sent = Messages /\ Cardinality(Sent) = Count
  BY <1>1 DEF LogOK, Count
<1>3. ASSUME NEW h \in Channels
      PROVE  Range(log[h]) \subseteq Messages
  BY DEF LogOK, Range
<1>4. ASSUME NEW h \in Channels, Range(log[h]) # {}
      PROVE  \E m \in Range(log[h]) : \A k \in Range(log[h]) : k <= m
  <2> DEFINE q == log[h]
             n == Len(log[h])
  <2>1. q \in Seq(Messages) /\ DOMAIN q = 1..n /\ n \in Nat
    BY DEF LogOK
  <2>2. n \in DOMAIN q
    BY <1>4, <2>1 DEF Range
  <2>3. \A i \in DOMAIN q : q[i] <= q[n]
    <3>1. \A i \in DOMAIN q : i = n \/ i < n
      BY <2>1
    <3>2. \A i \in DOMAIN q : q[i] \in Nat
      BY <1>2, <2>1 DEF Messages
    <3> QED BY <2>1, <2>2, <3>1, <3>2 DEF LogOK
  <2> QED BY <2>2, <2>3 DEF Range
<1> QED BY <1>2, <1>3, <1>4

LEMMA OldestExists ==
    ASSUME NEW ms \in SUBSET Nat, ms # {}
    PROVE  HasOldest(ms)
<1>1. PICK m \in ms : \A k \in ms : <<k, m>> \notin OpToRel(<, Nat)
  BY NatLessThanWellFounded, WFMin
<1>2. \A k \in ms : <<k, m>> \in OpToRel(<, Nat) <=> k < m
  BY DEF OpToRel
<1>3. \A k \in ms : m <= k
  <2>1. \A k \in ms : k \in Nat
    OBVIOUS
  <2>2. \A k \in ms : ~(k < m)
    BY <1>1, <1>2, Zenon
  <2> QED BY <2>1, <2>2
<1> QED BY <1>3 DEF HasOldest

\* The newest PageSize of ms have no gap, and have the newest one.
LEMMA NewestFacts ==
    ASSUME NEW b \in Nat, NEW ms \in SUBSET (1..b)
    PROVE  /\ Newest(ms, PageSize) \subseteq ms
           /\ Newest(ms, PageSize) # {} => HasOldest(Newest(ms, PageSize))
           /\ \A m \in ms, k \in Newest(ms, PageSize) : k <= m => m \in Newest(ms, PageSize)
           /\ \A m \in ms : (\A k \in ms : k <= m) => m \in Newest(ms, PageSize)
<1> DEFINE after(m) == {k \in ms : k > m}
<1>1. PageSize \in Nat /\ PageSize > 0
  BY PageAssumption
<1>0. \A m \in ms : m \in Nat
  OBVIOUS
<1>2. \A m \in ms : m \in Newest(ms, PageSize) <=> Cardinality(after(m)) < PageSize
  BY DEF Newest
<1>3. IsFiniteSet(ms)
  <2>1. IsFiniteSet(1..b)
    BY FS_Interval
  <2> QED BY <2>1, FS_Subset
<1>4. \A m \in ms : IsFiniteSet(after(m)) /\ Cardinality(after(m)) \in Nat
  BY <1>3, FS_Subset, FS_CardinalityType
<1>5. ASSUME NEW m \in ms, NEW k \in ms, k <= m
      PROVE  Cardinality(after(m)) <= Cardinality(after(k))
  <2>1. after(m) \subseteq after(k)
    <3>1. \A x \in ms : x > m => x > k
      BY <1>0, <1>5
    <3> QED BY <3>1
  <2> HIDE DEF after
  <2> QED BY <1>4, <2>1, FS_Subset
<1>6. ASSUME NEW m \in ms, \A k \in ms : k <= m
      PROVE  Cardinality(after(m)) = 0
  <2>1. after(m) = {}
    <3>1. \A x \in ms : ~(x > m)
      BY <1>0, <1>6
    <3> QED BY <3>1
  <2> HIDE DEF after
  <2> QED BY <2>1, FS_EmptySet
<1>7. Newest(ms, PageSize) \subseteq ms
  BY DEF Newest
<1>8. Newest(ms, PageSize) # {} => HasOldest(Newest(ms, PageSize))
  BY <1>7, OldestExists
<1> HIDE DEF after
<1>9. ASSUME NEW m \in ms, NEW k \in Newest(ms, PageSize), k <= m
      PROVE  m \in Newest(ms, PageSize)
  <2>1. k \in ms /\ Cardinality(after(k)) < PageSize
    BY <1>2, <1>7, <1>9
  <2>2. Cardinality(after(m)) < PageSize
    BY <1>1, <1>4, <1>5, <1>9, <2>1
  <2> QED BY <1>2, <2>2
<1> QED BY <1>1, <1>2, <1>6, <1>7, <1>8, <1>9

LEMMA OldestFacts ==
    ASSUME NEW ms, HasOldest(ms)
    PROVE  Oldest(ms) \in ms /\ \A k \in ms : Oldest(ms) <= k
BY DEF HasOldest, Oldest

\* What ListMessages reads: the newest messages there are, or the newest before
\* the cursor, without a gap.
LEMMA ReadFacts ==
    ASSUME LogOK, NEW h \in Channels, NEW p,
           p = Newest({m \in Range(log[h]) : ~fetch[h].older \/ m < data[h].cursor}, PageSize)
    PROVE  /\ p \in SUBSET Messages
           /\ p # {} => HasOldest(p)
           /\ \A m \in Range(log[h]), k \in p :
                 k <= m /\ (~fetch[h].older \/ m < data[h].cursor) => m \in p
           /\ p = {} /\ ~fetch[h].older => Range(log[h]) = {}
<1> DEFINE before == {m \in Range(log[h]) : ~fetch[h].older \/ m < data[h].cursor}
<1>1. before \in SUBSET (1..Count) /\ Count \in Nat
  BY LogFacts DEF Messages
<1>2. ~fetch[h].older /\ Range(log[h]) # {} => \E m \in before : \A k \in before : k <= m
  BY LogFacts
<1>3. \A m \in Range(log[h]) : (~fetch[h].older \/ m < data[h].cursor) => m \in before
  OBVIOUS
<1> HIDE DEF before
<1>4. /\ p \subseteq before
      /\ p # {} => HasOldest(p)
      /\ \A m \in before, k \in p : k <= m => m \in p
      /\ \A m \in before : (\A k \in before : k <= m) => m \in p
  BY <1>1, NewestFacts DEF before
<1> QED BY <1>1, <1>2, <1>3, <1>4 DEF Messages

LEMMA ElementInSet ==
    ASSUME NEW S, NEW q \in Seq(S), NEW i \in 1..Len(q)
    PROVE  q[i] \in S
OBVIOUS

\* SendMessage's three steps; nothing else writes a log.
LEMMA SaveFacts ==
    ASSUME LogOK, NEW s \in Senders, Save(s)
    PROVE  LET c == sender[s].channel
           IN  /\ LogOK'
               /\ Messages \subseteq Messages'
               /\ c \in Channels /\ \A h \in Channels \ {c} : log'[h] = log[h]
               /\ \A m \in Range(log'[c]) : m \in Range(log[c]) \/ m = sender'[s].id
               /\ sender'[s].id \in Nat /\ sender'[s].id > Count
               /\ sender[s].pc = "copied"
               /\ sender'[s].pc = "saved" /\ sender'[s].to = sender[s].to
               /\ \A r \in Senders \ {s} : sender'[r] = sender[r]
<1> DEFINE m == Count + 1
           c == sender[s].channel
<1>1. /\ Count \in Nat /\ Sent = 1..Count /\ MaxMessages \in Nat
      /\ log \in [Channels -> Seq(1..Count)]
  BY LogFacts, PageAssumption DEF LogOK, Messages
<1>2. /\ sender[s].pc = "copied" /\ c \in Channels /\ m <= MaxMessages
      /\ log' = [log EXCEPT ![c] = Append(log[c], m)]
      /\ sender' = [sender EXCEPT ![s].pc = "saved", ![s].id = m]
  BY DEF Save, LogOK, Count
<1>3. m \in Nat /\ m \in 1..m /\ m > Count /\ 1..Count \subseteq 1..m /\ 1..m = (1..Count) \cup {m}
  BY <1>1
<1> HIDE DEF m, c
<1>4. /\ log'[c] = Append(log[c], m) /\ log[c] \in Seq(1..m)
      /\ \A h \in Channels \ {c} : log'[h] = log[h] /\ log[h] \in Seq(1..m)
      /\ log' = [h \in Channels |-> log'[h]]
  <2>1. \A h \in Channels : log[h] \in Seq(1..m)
    BY <1>1, <1>3
  <2> QED BY <1>1, <1>2, <2>1
<1>5. log' \in [Channels -> Seq(1..m)]
  <2>1. \A h \in Channels : log'[h] \in Seq(1..m)
    BY <1>3, <1>4
  <2> QED BY <1>4, <2>1
<1>6. /\ Range(log'[c]) = Range(log[c]) \cup {m}
      /\ \A i \in 1..Len(log[c]) : log'[c][i] = log[c][i]
      /\ Len(log'[c]) = Len(log[c]) + 1 /\ log'[c][Len(log[c]) + 1] = m
      /\ Len(log[c]) \in Nat
  <2>1. /\ Len(log'[c]) = Len(log[c]) + 1 /\ log'[c][Len(log[c]) + 1] = m
        /\ \A i \in 1..Len(log[c]) : log'[c][i] = log[c][i]
        /\ DOMAIN log[c] = 1..Len(log[c]) /\ DOMAIN log'[c] = 1..(Len(log[c]) + 1)
        /\ Len(log[c]) \in Nat
    BY <1>3, <1>4
  <2>2. DOMAIN log'[c] = DOMAIN log[c] \cup {Len(log[c]) + 1}
    BY <2>1
  <2> QED BY <2>1, <2>2 DEF Range
<1>7. Sent' = 1..m
  <2>1. \A k : (\E h \in Channels : k \in Range(log'[h]))
                 <=> k = m \/ \E h \in Channels : k \in Range(log[h])
    BY <1>2, <1>4, <1>6
  <2>2. Sent' = Sent \cup {m}
    <3>1. m \in 1..MaxMessages
      BY <1>1, <1>2, <1>3
    <3> QED BY <2>1, <3>1 DEF Sent
  <2> QED BY <1>1, <1>3, <2>2
<1>8. Count' = m /\ Messages' = 1..m
  <2>1. Cardinality(1..m) = m
    BY <1>3, FS_Interval
  <2> QED BY <1>7, <2>1 DEF Count, Messages
<1>9. ASSUME NEW h \in Channels, NEW i \in 1..Len(log'[h]), NEW j \in 1..Len(log'[h]), i < j
      PROVE  log'[h][i] < log'[h][j]
  <2>1. CASE h # c
    BY <1>4, <1>9, <2>1 DEF LogOK
  <2>2. CASE h = c
    <3>1. i \in 1..Len(log[c]) /\ (j \in 1..Len(log[c]) \/ j = Len(log[c]) + 1)
      BY <1>6, <1>9, <2>2
    <3>2. log[c][i] \in 1..Count
      <4>1. log[c] \in Seq(1..Count)
        BY <1>1, <1>2
      <4>2. i \in 1..Len(log[c])
        BY <3>1
      <4> QED BY <4>1, <4>2, ElementInSet, Zenon
    <3> QED BY <1>1, <1>2, <1>3, <1>6, <1>9, <2>2, <3>1, <3>2 DEF LogOK
  <2> QED BY <2>1, <2>2
<1>10. /\ sender'[s] \in Sending(Messages') /\ sender'[s].pc = "saved" /\ sender'[s].id = m
       /\ sender'[s].channel = c /\ sender'[s].to = sender[s].to
       /\ \A r \in Senders \ {s} : sender'[r] = sender[r] /\ sender[r] \in Sending(Messages')
       /\ DOMAIN sender' = Senders
  BY <1>1, <1>2, <1>3, <1>8 DEF LogOK, Sending, Messages, c
<1>11. sender' \in [Senders -> Sending(Messages')]
  <2>1. sender' = [r \in Senders |-> sender'[r]]
    BY <1>2, <1>10 DEF LogOK
  <2> QED BY <2>1, <1>10
<1>12. \A r \in Senders : /\ sender'[r].pc # "idle" => sender'[r].channel \in Channels
                          /\ sender'[r].pc = "saved" => sender'[r].id # 0
  BY <1>2, <1>3, <1>10 DEF LogOK
<1>13. LogOK'
  <2>1. Count' \in 0..MaxMessages
    BY <1>1, <1>2, <1>3, <1>8
  <2> QED BY <1>5, <1>7, <1>8, <1>9, <1>11, <1>12, <2>1 DEF LogOK
<1>14. Messages \subseteq Messages'
  BY <1>3, <1>8 DEF Messages
<1> QED BY <1>2, <1>3, <1>4, <1>6, <1>10, <1>13, <1>14 DEF c

LEMMA SenderFacts ==
    ASSUME LogOK, NEW s \in Senders, Publish(s) \/ (\E h \in Channels : SendTo(s, h))
    PROVE  /\ LogOK' /\ log' = log
           /\ sender'[s].pc # "saved"
           /\ \A r \in Senders \ {s} : sender'[r] = sender[r]
<1>1. PICK w \in Sending(Messages) :
         /\ log' = log /\ sender' = [sender EXCEPT ![s] = w]
         /\ w.pc # "saved" /\ (w.pc # "idle" => w.channel \in Channels)
  <2>1. ASSUME NEW h \in Channels, SendTo(s, h)
        PROVE  \E w \in Sending(Messages) :
                  /\ log' = log /\ sender' = [sender EXCEPT ![s] = w]
                  /\ w.pc # "saved" /\ (w.pc # "idle" => w.channel \in Channels)
    <3> DEFINE w == [pc |-> "copied", channel |-> h, to |-> h = member, id |-> 0]
    <3>1. w \in Sending(Messages)
      BY DEF Sending
    <3> QED BY <2>1, <3>1 DEF SendTo
  <2>2. CASE Publish(s)
    <3> DEFINE w == [pc |-> "idle", channel |-> None, to |-> FALSE, id |-> 0]
    <3>1. w \in Sending(Messages)
      BY DEF Sending
    <3> QED BY <2>2, <3>1 DEF Publish
  <2> QED BY <2>1, <2>2
<1>2. Sent' = Sent
  BY <1>1 DEF Sent
<1> QED BY <1>1, <1>2 DEF LogOK, Count, Messages

LEMMA LogStep ==
    ASSUME LogOK, [Next]_vars
    PROVE  /\ LogOK'
           /\ Messages \subseteq Messages'
           /\ (\A s \in Senders : ~Save(s)) => log' = log /\ Messages' = Messages
<1>1. CASE UNCHANGED sends
  BY <1>1 DEF LogOK, Count, Sent, Messages, sends
<1>2. ASSUME NEW s \in Senders, Save(s) PROVE LogOK' /\ Messages \subseteq Messages'
  BY <1>2, SaveFacts
<1>3. ASSUME NEW s \in Senders, Publish(s) \/ (\E h \in Channels : SendTo(s, h))
      PROVE  LogOK' /\ log' = log /\ Messages' = Messages
  BY <1>3, SenderFacts DEF Messages, Count, Sent
<1>4. CASE Connect \/ Connected \/ Disconnect \/ Heartbeat \/ SessionEnds \/ Unmount \/ Join \/ Joined
           \/ LiveEvent \/ StreamEnds \/ Drain \/ fetchOlder \/ LeaveChannel \/ UNCHANGED vars
  BY <1>1, <1>4 DEF Connect, Connected, Disconnect, Heartbeat, SessionEnds, Unmount, Join, Joined,
                    LiveEvent, StreamEnds, Drain, fetchOlder, LeaveChannel, vars
<1>5. ASSUME NEW h \in Channels,
             Visit(h) \/ ListMessages(h) \/ Fetched(h) \/ FetchFailed(h) \/ StrayJoin(h)
      PROVE  UNCHANGED sends
  BY <1>5 DEF Visit, ListMessages, Fetched, FetchFailed, StrayJoin
<1>6. ASSUME NEW v \in 1..MaxVisits, Subscribe(v) \/ StreamClosed(v) PROVE UNCHANGED sends
  BY <1>6 DEF Subscribe, StreamClosed
<1>7. UNCHANGED sends => log' = log /\ Messages' = Messages
  BY DEF sends, Messages, Count, Sent
<1> QED BY <1>1, <1>2, <1>3, <1>4, <1>5, <1>6, <1>7 DEF Next

-----------------------------------------------------------------------------
(* The cache.                                                              *)

CacheInv == LogOK /\ CacheType /\ Cached

\* A step that touches the history and the request of one channel at most.
LEMMA CacheAt ==
    ASSUME CacheInv, log' = log, Messages' = Messages, NEW h \in Channels,
           NEW d \in Histories(Messages), NEW f \in Requests(Messages),
           data' = [data EXCEPT ![h] = d], fetch' = [fetch EXCEPT ![h] = f],
           CachedAt(d, f, Range(log[h]))
    PROVE  CacheType' /\ Cached'
<1>1. /\ data' \in [Channels -> Histories(Messages)] /\ fetch' \in [Channels -> Requests(Messages)]
      /\ data'[h] = d /\ fetch'[h] = f
      /\ \A g \in Channels \ {h} : data'[g] = data[g] /\ fetch'[g] = fetch[g]
  BY DEF CacheInv, CacheType
<1>2. \A g \in Channels : CachedAt(data'[g], fetch'[g], Range(log[g]))
  BY <1>1 DEF CacheInv, Cached
<1> QED BY <1>1, <1>2 DEF CacheType, Cached

\* What is known of a channel's history and request.
LEMMA CacheFacts ==
    ASSUME CacheInv, NEW h \in Channels
    PROVE  /\ data[h] \in Histories(Messages) /\ fetch[h] \in Requests(Messages)
           /\ CachedAt(data[h], fetch[h], Range(log[h]))
           /\ data = [data EXCEPT ![h] = data[h]] /\ fetch = [fetch EXCEPT ![h] = fetch[h]]
           /\ Range(log[h]) \subseteq Messages
BY LogFacts DEF CacheInv, CacheType, Cached

LEMMA EmptyCache ==
    ASSUME NEW M, NEW ms
    PROVE  /\ NoData \in Histories(M) /\ NoFetch \in Requests(M) /\ CachedAt(NoData, NoFetch, ms)
           /\ ~NoData.loaded /\ NoFetch.pc = "idle" /\ ~NoFetch.older
<1>1. 0 \in 0..Retries
  BY PageAssumption
<1> QED BY <1>1 DEF NoData, NoFetch, Histories, Requests, CachedAt

LEMMA ResetCache ==
    ASSUME reset
    PROVE  CacheType' /\ Cached'
<1>1. data' = [h \in Channels |-> NoData] /\ fetch' = [h \in Channels |-> NoFetch]
  BY DEF reset
<1> QED BY <1>1, EmptyCache DEF CacheType, Cached

\* The query starts, if it has no data and is not under way.
LEMMA EnabledFacts ==
    ASSUME CacheInv, NEW h \in Channels
    PROVE  \E f \in Requests(Messages) :
              /\ Enabled(h) = [fetch EXCEPT ![h] = f]
              /\ CachedAt(data[h], f, Range(log[h]))
              /\ f = fetch[h] \/ (~data[h].loaded /\ f.pc = "asked")
<1> DEFINE asked == [NoFetch EXCEPT !.pc = "asked"]
<1>1. asked \in Requests(Messages) /\ asked.pc = "asked" /\ ~asked.older
  BY EmptyCache DEF Requests
<1>2. CASE data[h].loaded \/ fetch[h].pc # "idle"
  <2>1. Enabled(h) = fetch
    BY <1>2 DEF Enabled
  <2> QED BY <2>1, CacheFacts
<1>3. CASE ~(data[h].loaded \/ fetch[h].pc # "idle")
  <2>1. Enabled(h) = [fetch EXCEPT ![h] = asked]
    BY <1>3 DEF Enabled
  <2> HIDE DEF asked
  <2>2. CachedAt(data[h], asked, Range(log[h]))
    BY <1>1, <1>3, CacheFacts DEF CachedAt
  <2> QED BY <1>1, <1>3, <2>1, <2>2
<1> QED BY <1>2, <1>3

\* Live messages are injected into a history that has been loaded.
LEMMA InjectFacts ==
    ASSUME CacheInv, NEW h \in Channels, data[h].loaded, NEW ids \in SUBSET Messages
    PROVE  LET d == injectLiveMessage(data[h], ids)
           IN  /\ d \in Histories(Messages) /\ CachedAt(d, fetch[h], Range(log[h]))
               /\ d.msgs = data[h].msgs \cup ids
               /\ d.loaded /\ d.isSuccess /\ d.cursor = data[h].cursor
<1> DEFINE d == injectLiveMessage(data[h], ids)
<1>1. d = [data[h] EXCEPT !.msgs = data[h].msgs \cup ids, !.isSuccess = TRUE]
  BY DEF injectLiveMessage
<1>2. /\ d \in Histories(Messages) /\ d.msgs = data[h].msgs \cup ids
      /\ d.loaded /\ d.isSuccess /\ d.cursor = data[h].cursor
  BY <1>1, CacheFacts DEF Histories
<1> HIDE DEF d
<1>3. CachedAt(d, fetch[h], Range(log[h]))
  BY <1>2, CacheFacts DEF CachedAt
<1> QED BY <1>2, <1>3 DEF d

LEMMA fetchOlderCache ==
    ASSUME CacheInv, here \in Channels, fetchOlder, log' = log, Messages' = Messages
    PROVE  CacheType' /\ Cached'
<1> DEFINE f == [NoFetch EXCEPT !.pc = "asked", !.older = TRUE, !.base = data[here].msgs]
<1>1. data' = data /\ fetch' = [fetch EXCEPT ![here] = f] /\ data[here].more
  BY DEF fetchOlder
<1>2. f \in Requests(Messages) /\ f.pc = "asked" /\ f.older
  <2>1. data[here].msgs \in SUBSET Messages
    BY CacheFacts DEF Histories
  <2> QED BY <2>1, EmptyCache DEF Requests
<1> HIDE DEF f
<1>3. CachedAt(data[here], f, Range(log[here]))
  BY <1>1, <1>2, CacheFacts DEF CachedAt
<1> QED BY <1>1, <1>2, <1>3, CacheFacts, CacheAt

\* The three outcomes of a history request.
LEMMA ListMessagesFacts ==
    ASSUME CacheInv, NEW h \in Channels, ListMessages(h)
    PROVE  \E f \in Requests(Messages) :
              /\ data' = data /\ fetch' = [fetch EXCEPT ![h] = f]
              /\ CachedAt(data[h], f, Range(log[h]))
              /\ fetch[h].pc = "asked" /\ f.older = fetch[h].older
              /\ \/ f.pc = "failed" /\ calm' = calm
                 \/ /\ f.pc = "read"
                    /\ calm' = (calm /\ (h = here /\ ~fetch[h].older => writer = visit))
                    /\ ~f.older => /\ f.page = {} => Range(log[h]) = {}
                                   /\ \A m \in Range(log[h]), k \in f.page : k <= m => m \in f.page
<1> DEFINE before == {m \in Range(log[h]) : ~fetch[h].older \/ m < data[h].cursor}
           p == Newest(before, PageSize)
           r == [fetch[h] EXCEPT !.pc = "read", !.page = p, !.more = Cardinality(before) > PageSize,
                                 !.failures = 0]
           n == [fetch[h] EXCEPT !.pc = "failed", !.error = "NotAMember"]
           x == [fetch[h] EXCEPT !.pc = "failed", !.error = "NetworkError"]
<1>1. /\ fetch[h].pc = "asked" /\ data' = data
      /\ \/ /\ fetch' = [fetch EXCEPT ![h] = r]
            /\ calm' = (calm /\ (h = here /\ ~fetch[h].older => writer = visit))
         \/ fetch' = [fetch EXCEPT ![h] = n] /\ calm' = calm
         \/ fetch' = [fetch EXCEPT ![h] = x] /\ calm' = calm
  BY DEF ListMessages
<1>2. /\ p \in SUBSET Messages
      /\ p # {} => HasOldest(p)
      /\ \A m \in Range(log[h]), k \in p :
            k <= m /\ (~fetch[h].older \/ m < data[h].cursor) => m \in p
      /\ p = {} /\ ~fetch[h].older => Range(log[h]) = {}
  BY ReadFacts DEF CacheInv
<1>3. CachedAt(data[h], fetch[h], Range(log[h])) /\ fetch[h] \in Requests(Messages)
  BY CacheFacts
<1> HIDE DEF p, before
<1>4. /\ r \in Requests(Messages) /\ r.pc = "read" /\ r.page = p /\ r.older = fetch[h].older
      /\ n \in Requests(Messages) /\ n.pc = "failed" /\ n.older = fetch[h].older
      /\ x \in Requests(Messages) /\ x.pc = "failed" /\ x.older = fetch[h].older
  <2>1. 0 \in 0..Retries /\ (Cardinality(before) > PageSize) \in BOOLEAN
    BY PageAssumption
  <2>2. r \in Requests(Messages) /\ r.pc = "read" /\ r.page = p /\ r.older = fetch[h].older
    BY <1>2, <1>3, <2>1 DEF Requests
  <2>3. n \in Requests(Messages) /\ n.pc = "failed" /\ n.older = fetch[h].older
    BY <1>3 DEF Requests
  <2>4. x \in Requests(Messages) /\ x.pc = "failed" /\ x.older = fetch[h].older
    BY <1>3 DEF Requests
  <2> QED BY <2>2, <2>3, <2>4
<1> HIDE DEF r, n, x
<1>5. /\ CachedAt(data[h], r, Range(log[h]))
      /\ CachedAt(data[h], n, Range(log[h]))
      /\ CachedAt(data[h], x, Range(log[h]))
  BY <1>1, <1>2, <1>3, <1>4 DEF CachedAt
<1>6. CASE /\ fetch' = [fetch EXCEPT ![h] = r]
           /\ calm' = (calm /\ (h = here /\ ~fetch[h].older => writer = visit))
  BY <1>1, <1>2, <1>4, <1>5, <1>6
<1>7. CASE calm' = calm /\ (fetch' = [fetch EXCEPT ![h] = n] \/ fetch' = [fetch EXCEPT ![h] = x])
  BY <1>1, <1>4, <1>5, <1>7
<1> QED BY <1>1, <1>6, <1>7

\* The page is stored.
LEMMA FetchedFacts ==
    ASSUME CacheInv, NEW h \in Channels, Fetched(h)
    PROVE  \E d \in Histories(Messages) :
              /\ data' = [data EXCEPT ![h] = d] /\ fetch' = [fetch EXCEPT ![h] = NoFetch]
              /\ CachedAt(d, NoFetch, Range(log[h]))
              /\ fetch[h].pc = "read"
              /\ d.loaded /\ d.msgs = fetch[h].base \cup fetch[h].page
              /\ fetch[h].page = {} => d.cursor = data[h].cursor
              /\ fetch[h].page # {} => d.cursor = Oldest(fetch[h].page)
              /\ calm' => calm /\ (h = here => data[h].msgs \subseteq fetch[h].base)
<1> DEFINE f == fetch[h]
           d == [loaded |-> TRUE, isSuccess |-> TRUE, msgs |-> f.base \cup f.page,
                 cursor |-> IF f.page = {} THEN data[h].cursor ELSE Oldest(f.page),
                 more |-> f.more]
<1>1. /\ f.pc = "read" /\ data' = [data EXCEPT ![h] = d] /\ fetch' = [fetch EXCEPT ![h] = NoFetch]
      /\ calm' = (calm /\ (h = here => data[h].msgs \subseteq f.base))
  BY DEF Fetched
<1>2. f \in Requests(Messages) /\ data[h] \in Histories(Messages)
      /\ CachedAt(data[h], f, Range(log[h]))
  BY CacheFacts
<1>3. f.page # {} => Oldest(f.page) \in f.page
  BY <1>1, <1>2, OldestFacts DEF CachedAt
<1>4. d \in Histories(Messages)
  BY <1>2, <1>3 DEF Histories, Requests
<1>5. CachedAt(d, NoFetch, Range(log[h]))
  BY EmptyCache DEF CachedAt
<1> QED BY <1>1, <1>4, <1>5

\* A failed request is repeated, or leaves an error, or ends the session.
LEMMA FetchFailedFacts ==
    ASSUME CacheInv, NEW h \in Channels, FetchFailed(h), ~reset
    PROVE  \E d \in Histories(Messages), f \in Requests(Messages) :
              /\ data' = [data EXCEPT ![h] = d] /\ fetch' = [fetch EXCEPT ![h] = f]
              /\ CachedAt(d, f, Range(log[h]))
              /\ fetch[h].pc = "failed" /\ f.pc # "read"
              /\ d.loaded = data[h].loaded /\ d.msgs = data[h].msgs /\ d.cursor = data[h].cursor
              /\ UNCHANGED <<auth, hook, wire, stray>>
<1> DEFINE e == [data[h] EXCEPT !.isSuccess = FALSE]
           a == [fetch[h] EXCEPT !.pc = "asked", !.failures = fetch[h].failures + 1, !.error = ""]
<1>1. fetch[h].pc = "failed" /\ UNCHANGED <<auth, hook, wire, stray>>
  BY DEF FetchFailed
<1>2. \/ fetch[h].failures < Retries /\ fetch' = [fetch EXCEPT ![h] = a] /\ data' = data
      \/ fetch' = [fetch EXCEPT ![h] = NoFetch] /\ data' = [data EXCEPT ![h] = e]
  BY DEF FetchFailed, Retry
<1>3. /\ data[h] \in Histories(Messages) /\ fetch[h] \in Requests(Messages)
      /\ CachedAt(data[h], fetch[h], Range(log[h])) /\ data = [data EXCEPT ![h] = data[h]]
  BY CacheFacts
<1>4. CASE fetch[h].failures < Retries /\ fetch' = [fetch EXCEPT ![h] = a] /\ data' = data
  <2>1. a \in Requests(Messages) /\ a.pc = "asked" /\ a.older = fetch[h].older
    <3>1. fetch[h].failures + 1 \in 0..Retries
      <4>1. fetch[h].failures \in 0..Retries
        BY <1>3 DEF Requests
      <4> QED BY <1>4, <4>1, PageAssumption
    <3> QED BY <1>3, <3>1 DEF Requests
  <2> HIDE DEF a
  <2>2. CachedAt(data[h], a, Range(log[h]))
    BY <1>1, <1>3, <2>1 DEF CachedAt
  <2> QED BY <1>1, <1>3, <1>4, <2>1, <2>2
<1>5. CASE fetch' = [fetch EXCEPT ![h] = NoFetch] /\ data' = [data EXCEPT ![h] = e]
  <2>1. /\ e \in Histories(Messages) /\ ~e.isSuccess /\ e.loaded = data[h].loaded
        /\ e.msgs = data[h].msgs /\ e.cursor = data[h].cursor /\ e.more = data[h].more
    BY <1>3 DEF Histories
  <2> HIDE DEF e
  <2>2. CachedAt(e, NoFetch, Range(log[h]))
    BY <1>3, <2>1, EmptyCache DEF CachedAt
  <2> QED BY <1>1, <1>5, <2>1, <2>2, EmptyCache
<1> QED BY <1>2, <1>4, <1>5

LEMMA InjectCache ==
    ASSUME CacheInv, log' = log, Messages' = Messages, NEW h \in Channels, data[h].loaded,
           NEW ids \in SUBSET Messages, fetch' = fetch,
           data' = [data EXCEPT ![h] = injectLiveMessage(data[h], ids)]
    PROVE  CacheType' /\ Cached'
<1> DEFINE d == injectLiveMessage(data[h], ids)
<1>1. d \in Histories(Messages) /\ CachedAt(d, fetch[h], Range(log[h]))
  BY InjectFacts
<1> HIDE DEF d
<1>2. data' = [data EXCEPT ![h] = d] /\ fetch' = [fetch EXCEPT ![h] = fetch[h]]
  BY CacheFacts DEF d
<1> QED BY <1>1, <1>2, CacheFacts, CacheAt

LEMMA EnabledCache ==
    ASSUME CacheInv, log' = log, Messages' = Messages, NEW h \in Channels,
           data' = data, fetch' = Enabled(h) \/ fetch' = fetch
    PROVE  CacheType' /\ Cached'
<1>1. PICK f \in Requests(Messages) :
         fetch' = [fetch EXCEPT ![h] = f] /\ CachedAt(data[h], f, Range(log[h]))
  BY EnabledFacts, CacheFacts
<1> QED BY <1>1, CacheFacts, CacheAt

\* A visit injects nothing into a history that is not there.
LEMMA VisitCache ==
    ASSUME CacheInv, log' = log, Messages' = Messages, NEW h \in Channels, Visit(h),
           hook.pendingLive \in SUBSET Messages
    PROVE  CacheType' /\ Cached'
<1>1. CASE isSuccess(h)
  <2>1. data[h].loaded
    BY <1>1, CacheFacts DEF isSuccess, CachedAt
  <2>2. fetch' = fetch
    BY <2>1 DEF Visit, Enabled
  <2>3. data' = data \/ data' = [data EXCEPT ![h] = injectLiveMessage(data[h], hook.pendingLive)]
    BY DEF Visit
  <2> QED BY <2>1, <2>2, <2>3, InjectCache, EnabledCache
<1>2. CASE ~isSuccess(h)
  <2>1. data' = data /\ (fetch' = Enabled(h) \/ fetch' = fetch)
    BY <1>2 DEF Visit
  <2> QED BY <2>1, EnabledCache
<1> QED BY <1>1, <1>2

\* A message that is saved is behind every cursor.
LEMMA SaveCache ==
    ASSUME CacheInv, NEW s \in Senders, Save(s)
    PROVE  CacheType' /\ Cached'
<1> DEFINE c == sender[s].channel
<1>1. /\ Messages \subseteq Messages' /\ Count \in Nat
      /\ \A h \in Channels \ {c} : log'[h] = log[h]
      /\ \A m \in Range(log'[c]) : m \in Range(log[c]) \/ m = sender'[s].id
      /\ sender'[s].id \in Nat /\ sender'[s].id > Count
  BY SaveFacts, LogFacts DEF CacheInv
<1>2. data' = data /\ fetch' = fetch
  BY DEF Save, page
<1>3. Histories(Messages) \subseteq Histories(Messages')
      /\ Requests(Messages) \subseteq Requests(Messages')
  BY <1>1 DEF Histories, Requests
<1>4. CacheType'
  BY <1>2, <1>3 DEF CacheInv, CacheType
<1>5. ASSUME NEW h \in Channels
      PROVE  CachedAt(data[h], fetch[h], Range(log'[h]))
  <2>1. data[h] \in Histories(Messages) /\ CachedAt(data[h], fetch[h], Range(log[h]))
    BY CacheFacts
  <2>2. CASE h # c
    BY <1>1, <2>1, <2>2
  <2>3. CASE h = c
    <3>1. data[h].cursor \in 0..Count
      BY <1>1, <2>1 DEF Histories, Messages
    <3>2. ~(sender'[s].id < data[h].cursor)
      BY <1>1, <3>1
    <3> QED BY <1>1, <2>1, <2>3, <3>2 DEF CachedAt
  <2> QED BY <2>2, <2>3
<1> QED BY <1>2, <1>4, <1>5 DEF Cached

LEMMA QuietCache ==
    ASSUME CacheInv, log' = log, Messages' = Messages, UNCHANGED <<data, fetch>>
    PROVE  CacheType' /\ Cached'
BY DEF CacheInv, CacheType, Cached

LEMMA HereFacts ==
    ASSUME Types, Visited
    PROVE  /\ here # None => here \in Channels
           /\ hook.pc # "none" => here \in Channels
           /\ hook.pendingLive \in SUBSET Messages /\ wire \in Seq(Messages)
BY DEF Types, PageType, Visited, Hooks

LEMMA CacheStep == PInv /\ [Next]_vars => CacheType' /\ Cached'
<1> SUFFICES ASSUME PInv, [Next]_vars PROVE CacheType' /\ Cached'
  OBVIOUS
<1>0. /\ CacheInv /\ (here # None => here \in Channels) /\ (hook.pc # "none" => here \in Channels)
      /\ hook.pendingLive \in SUBSET Messages /\ wire \in Seq(Messages)
      /\ (hook.initialFetched => data[here].loaded)
  BY HereFacts DEF PInv, Types, CacheInv, Buffered
<1>1. ASSUME NEW s \in Senders, Save(s) PROVE CacheType' /\ Cached'
  BY <1>0, <1>1, SaveCache
<1> SUFFICES ASSUME \A s \in Senders : ~Save(s) PROVE CacheType' /\ Cached'
  BY <1>1
<1>2. log' = log /\ Messages' = Messages
  BY <1>0, LogStep DEF CacheInv
<1>3. CASE Disconnect \/ Heartbeat
  BY <1>3, ResetCache DEF Disconnect, Heartbeat
<1>4. CASE UNCHANGED <<data, fetch>>
  BY <1>0, <1>2, <1>4, QuietCache
<1>5. CASE Join
  BY <1>4, <1>5, ResetCache DEF Join
<1>6. CASE Joined
  <2>1. here \in Channels /\ data' = data /\ fetch' = Enabled(here)
    BY <1>0, <1>6 DEF Joined
  <2> QED BY <1>0, <1>2, <2>1, EnabledCache
<1>7. CASE LiveEvent
  <2>1. here \in Channels /\ {Head(wire)} \in SUBSET Messages
    BY <1>0, <1>7 DEF LiveEvent, Listening
  <2>2. CASE hook.initialFetched
    <3>1. /\ fetch' = fetch
          /\ data' = [data EXCEPT ![here] = injectLiveMessage(data[here], {Head(wire)})]
      BY <1>7, <2>2 DEF LiveEvent
    <3> QED BY <1>0, <1>2, <2>1, <2>2, <3>1, InjectCache
  <2>3. CASE ~hook.initialFetched
    BY <1>4, <1>7, <2>3 DEF LiveEvent
  <2> QED BY <2>2, <2>3
<1>8. CASE Drain
  <2>1. here \in Channels
    BY <1>0, <1>8 DEF Drain
  <2>2. CASE isSuccess(here) /\ ~hook.initialFetched
    <3>1. /\ fetch' = fetch
          /\ data' = [data EXCEPT ![here] = injectLiveMessage(data[here], hook.pendingLive)]
      BY <1>8, <2>2 DEF Drain
    <3>2. data[here].loaded
      BY <1>0, <2>1, <2>2, CacheFacts DEF CachedAt, isSuccess
    <3> QED BY <1>0, <1>2, <2>1, <3>1, <3>2, InjectCache
  <2>3. CASE ~(isSuccess(here) /\ ~hook.initialFetched)
    BY <1>4, <1>8, <2>3 DEF Drain
  <2> QED BY <2>2, <2>3
<1>9. CASE fetchOlder
  <2>1. here \in Channels
    BY <1>0, <1>9 DEF fetchOlder
  <2> QED BY <1>0, <1>2, <1>9, <2>1, fetchOlderCache
<1>10. ASSUME NEW h \in Channels, Visit(h) PROVE CacheType' /\ Cached'
  BY <1>0, <1>2, <1>10, VisitCache
<1>11. ASSUME NEW h \in Channels, ListMessages(h) PROVE CacheType' /\ Cached'
  <2>1. PICK f \in Requests(Messages) : /\ data' = data /\ fetch' = [fetch EXCEPT ![h] = f]
                                        /\ CachedAt(data[h], f, Range(log[h]))
    BY <1>0, <1>11, ListMessagesFacts
  <2> QED BY <1>0, <1>2, <2>1, CacheFacts, CacheAt
<1>12. ASSUME NEW h \in Channels, Fetched(h) PROVE CacheType' /\ Cached'
  <2>1. PICK d \in Histories(Messages) :
           /\ data' = [data EXCEPT ![h] = d] /\ fetch' = [fetch EXCEPT ![h] = NoFetch]
           /\ CachedAt(d, NoFetch, Range(log[h]))
    BY <1>0, <1>12, FetchedFacts
  <2> QED BY <1>0, <1>2, <2>1, EmptyCache, CacheAt
<1>13. ASSUME NEW h \in Channels, FetchFailed(h) PROVE CacheType' /\ Cached'
  <2>1. CASE ~reset
    <3>1. PICK d \in Histories(Messages), f \in Requests(Messages) :
             /\ data' = [data EXCEPT ![h] = d] /\ fetch' = [fetch EXCEPT ![h] = f]
             /\ CachedAt(d, f, Range(log[h]))
      BY <1>0, <1>13, <2>1, FetchFailedFacts
    <3> QED BY <1>0, <1>2, <3>1, CacheAt
  <2> QED BY <2>1, ResetCache
<1>14. CASE Connect \/ Connected \/ SessionEnds \/ Unmount \/ StreamEnds \/ LeaveChannel \/ UNCHANGED vars
  BY <1>4, <1>14 DEF Connect, Connected, SessionEnds, Unmount, StreamEnds, LeaveChannel, vars, page
<1>15. ASSUME NEW h \in Channels, StrayJoin(h) PROVE CacheType' /\ Cached'
  BY <1>4, <1>15 DEF StrayJoin, page
<1>16. ASSUME NEW v \in 1..MaxVisits, Subscribe(v) \/ StreamClosed(v) PROVE CacheType' /\ Cached'
  BY <1>4, <1>16 DEF Subscribe, StreamClosed, page
<1>17. ASSUME NEW s \in Senders, Publish(s) \/ (\E h \in Channels : SendTo(s, h)) PROVE CacheType' /\ Cached'
  BY <1>4, <1>17 DEF Publish, SendTo, page
<1> QED
  BY <1>3, <1>5, <1>6, <1>7, <1>8, <1>9, <1>10, <1>11, <1>12, <1>13, <1>14, <1>15, <1>16, <1>17
  DEF Next

-----------------------------------------------------------------------------
(* The session, the page and the server.                                   *)

LEMMA ResetPage ==
    ASSUME PInv, reset, UNCHANGED <<here, trail, session>>, calm' \in BOOLEAN, leaving' \in BOOLEAN,
           Messages' = Messages
    PROVE  PageType' /\ Visited' /\ stray' \subseteq Channels
<1>1. /\ hook \in Hooks(Messages) /\ here \in Channels \cup {None}
      /\ hook' = [hook EXCEPT !.pc = "none", !.isJoined = FALSE, !.initialFetched = FALSE,
                              !.pendingLive = {}, !.seen = FALSE]
      /\ wire' = <<>> /\ auth' = "disconnected"
      /\ stray' = IF hook.pc = "joining" THEN stray \cup {here} ELSE stray
  BY DEF PInv, Types, PageType, reset, Aborted
<1>2. hook' \in Hooks(Messages) /\ hook'.pc = "none" /\ hook'.connection = hook.connection
  BY <1>1 DEF Hooks
<1>3. PageType'
  BY <1>1, <1>2 DEF PInv, Types, PageType, visit
<1>4. Visited'
  BY <1>1, <1>2 DEF PInv, Visited, visit
<1>5. stray' \subseteq Channels
  BY <1>1, HereFacts DEF PInv, Types, ServerType
<1> QED BY <1>3, <1>4, <1>5

\* The hook's own steps leave a hook.
LEMMA PageStep == IInv /\ PInv /\ [Next]_vars => PageType' /\ Visited'
<1> SUFFICES ASSUME IInv, PInv, [Next]_vars PROVE PageType' /\ Visited'
  OBVIOUS
<1>0. /\ LogOK /\ PageType /\ Visited /\ SessionOK /\ FetchOK
      /\ (hook.pc # "none" => here \in Channels)
      /\ hook \in Hooks(Messages) /\ wire \in Seq(Messages)
      /\ trail \in Seq(Channels) /\ Len(trail) \in Nat /\ None \notin Channels
  <2>1. trail \in Seq(Channels)
    BY DEF PInv, Types, PageType
  <2> QED BY <2>1, HereFacts, PageAssumption DEF IInv, PInv, Types, PageType
<1>1. ASSUME NEW s \in Senders, Save(s) PROVE PageType' /\ Visited'
  <2>1. Messages \subseteq Messages'
    BY <1>0, <1>1, SaveFacts
  <2>2. hook \in Hooks(Messages')
    BY <1>0, <2>1 DEF Hooks
  <2>3. wire \in Seq(Messages')
    BY <1>0, <2>1
  <2>4. UNCHANGED <<auth, leaving, here, trail, hook, wire, session>> /\ calm' \in BOOLEAN
    BY <1>0, <1>1 DEF Save, store, page, server, PageType
  <2> QED BY <1>0, <2>2, <2>3, <2>4 DEF PageType, Visited, visit, Listening
<1> SUFFICES ASSUME \A s \in Senders : ~Save(s) PROVE PageType' /\ Visited'
  BY <1>1
<1>2. log' = log /\ Messages' = Messages
  BY <1>0, LogStep
<1>3. CASE Disconnect \/ Heartbeat
  BY <1>0, <1>2, <1>3, ResetPage DEF Disconnect, Heartbeat, PageType
<1>4. CASE UNCHANGED <<auth, leaving, here, trail, hook, wire, session>> /\ calm' \in BOOLEAN
  BY <1>0, <1>2, <1>4 DEF PageType, Visited, visit, Listening
<1>5. CASE Connect
  BY <1>0, <1>2, <1>5 DEF Connect, page, server, PageType, Visited, visit, Listening
<1>6. CASE Connected
  BY <1>0, <1>2, <1>6 DEF Connected, page, PageType, Visited, visit, Listening, SessionOK
<1>7. CASE SessionEnds
  BY <1>0, <1>2, <1>7 DEF SessionEnds, store, page, PageType, Visited, visit, Listening
<1>8. CASE Unmount
  <2>1. NoHook \in Hooks(Messages) /\ NoHook.pc = "none" /\ NoHook.connection = "idle"
    BY DEF NoHook, Hooks
  <2>2. /\ hook' = NoHook /\ here' = None /\ wire' = <<>>
        /\ UNCHANGED <<auth, leaving, trail, session, calm>>
    BY <1>8 DEF Unmount, Aborted, store
  <2> QED BY <1>0, <1>2, <2>1, <2>2 DEF PageType, Visited, visit, Listening
<1>9. CASE Join
  <2>1. UNCHANGED <<leaving, here, trail, calm, session>> /\ hook.pc = "joining"
    BY <1>9 DEF Join
  <2>2. CASE reset
    BY <1>0, <1>2, <2>1, <2>2, ResetPage DEF PageType
  <2>3. CASE hook' = [hook EXCEPT !.pc = "joined"] /\ UNCHANGED <<auth, wire>>
    <3>1. hook' \in Hooks(Messages) /\ hook'.pc = "joined" /\ hook'.connection = hook.connection
      BY <1>0, <2>3 DEF Hooks
    <3> QED BY <1>0, <1>2, <2>1, <2>3, <3>1 DEF PageType, Visited, visit, Listening
  <2>4. CASE /\ hook' = [hook EXCEPT !.pc = "ended", !.connection = "disconnected"]
             /\ UNCHANGED <<auth, wire>>
    <3>1. hook' \in Hooks(Messages) /\ hook'.pc = "ended" /\ hook'.connection = "disconnected"
      BY <1>0, <2>4 DEF Hooks
    <3> QED BY <1>0, <1>2, <2>1, <2>4, <3>1 DEF PageType, Visited, visit, Listening
  <2> QED BY <1>9, <2>2, <2>3, <2>4 DEF Join
<1>10. CASE Joined
  <2>1. /\ hook.pc = "joined" /\ UNCHANGED <<auth, leaving, here, trail, calm, session, wire>>
        /\ hook' = [hook EXCEPT !.pc = "streaming", !.isJoined = TRUE, !.connection = "connected"]
    BY <1>10 DEF Joined, store
  <2>2. hook' \in Hooks(Messages) /\ hook'.pc = "streaming"
    BY <1>0, <2>1 DEF Hooks
  <2> QED BY <1>0, <1>2, <2>1, <2>2 DEF PageType, Visited, visit, Listening
<1>11. CASE LiveEvent
  <2>1. /\ wire # <<>> /\ wire' = Tail(wire) /\ UNCHANGED <<auth, leaving, here, trail, calm, session>>
        /\ hook' = hook \/ hook' = [hook EXCEPT !.pendingLive = hook.pendingLive \cup {Head(wire)}]
    BY <1>11 DEF LiveEvent, store, server
  <2>2. wire' \in Seq(Messages) /\ Head(wire) \in Messages
    BY <1>0, <2>1
  <2>3. hook' \in Hooks(Messages) /\ hook'.pc = hook.pc /\ hook'.connection = hook.connection
    BY <1>0, <2>1, <2>2 DEF Hooks
  <2> QED BY <1>0, <1>2, <2>1, <2>2, <2>3 DEF PageType, Visited, visit, Listening
<1>12. CASE StreamEnds
  <2>1. /\ hook.pc = "streaming" /\ UNCHANGED <<auth, leaving, here, trail, calm, session>>
        /\ wire' = <<>> /\ hook' = [hook EXCEPT !.pc = "ended", !.connection = "disconnected"]
    BY <1>12 DEF StreamEnds, store, server, Listening
  <2>2. hook' \in Hooks(Messages) /\ hook'.pc = "ended" /\ hook'.connection = "disconnected"
    BY <1>0, <2>1 DEF Hooks
  <2> QED BY <1>0, <1>2, <2>1, <2>2 DEF PageType, Visited, visit, Listening
<1>13. CASE Drain
  <2>1. /\ UNCHANGED <<auth, leaving, here, trail, calm, session, wire>>
        /\ \/ hook' = [hook EXCEPT !.seen = TRUE, !.initialFetched = TRUE, !.pendingLive = {}]
           \/ hook' = [hook EXCEPT !.seen = isSuccess(here)]
        /\ here # None
    BY <1>13 DEF Drain, store, server
  <2>2. isSuccess(here) \in BOOLEAN
    BY <1>0, <2>1 DEF PageType, PInv, Types, CacheType, Histories, isSuccess
  <2>3. hook' \in Hooks(Messages) /\ hook'.pc = hook.pc /\ hook'.connection = hook.connection
    BY <1>0, <2>1, <2>2 DEF Hooks
  <2> QED BY <1>0, <1>2, <2>1, <2>3 DEF PageType, Visited, visit, Listening
<1>14. ASSUME NEW h \in Channels, Visit(h) PROVE PageType' /\ Visited'
  <2>1. /\ auth = "connected" /\ Len(trail) < MaxVisits /\ here' = h /\ trail' = Append(trail, h)
        /\ wire' = <<>> /\ calm' \in BOOLEAN /\ UNCHANGED <<auth, leaving, session>>
        /\ hook' = [NoHook EXCEPT !.pc = "joining", !.connection = "joining", !.seen = isSuccess(h)]
    BY <1>14 DEF Visit, Aborted, store, visit
  <2>2. trail' \in Seq(Channels) /\ Len(trail') = Len(trail) + 1
    BY <1>0, <2>1
  <2>3. isSuccess(h) \in BOOLEAN
    BY DEF PInv, Types, CacheType, Histories, isSuccess
  <2>4. NoHook \in Hooks(Messages)
    BY DEF NoHook, Hooks
  <2>5. hook' \in Hooks(Messages) /\ hook'.pc = "joining" /\ hook'.connection = "joining"
    BY <2>1, <2>3, <2>4 DEF Hooks
  <2> QED BY <1>0, <1>2, <2>1, <2>2, <2>5, PageAssumption DEF PageType, Visited, visit, Listening
<1>15. ASSUME NEW h \in Channels, ListMessages(h) \/ Fetched(h)
       PROVE  UNCHANGED <<auth, leaving, here, trail, hook, wire, session>> /\ calm' \in BOOLEAN
  BY <1>0, <1>15 DEF ListMessages, Fetched, store, server, PageType
<1>16. ASSUME NEW h \in Channels, FetchFailed(h)
       PROVE  UNCHANGED <<auth, leaving, here, trail, hook, wire, session>> /\ calm' \in BOOLEAN
  <2>1. fetch[h].error \in {"NotAMember", "NetworkError"}
    BY <1>0, <1>16 DEF FetchFailed, FetchOK
  <2> QED BY <1>0, <1>16, <2>1, NotTheClient DEF FetchFailed, PageType
<1>17. ASSUME NEW h \in Channels, StrayJoin(h)
       PROVE  UNCHANGED <<auth, leaving, here, trail, hook, wire, session>> /\ calm' \in BOOLEAN
  BY <1>0, <1>17 DEF StrayJoin, store, page, PageType
<1>18. ASSUME NEW v \in 1..MaxVisits, Subscribe(v) PROVE PageType' /\ Visited'
  <2>1. /\ UNCHANGED <<auth, leaving, here, trail, wire, session>> /\ calm' \in BOOLEAN
        /\ \/ hook' = hook
           \/ /\ hook.pc = "streaming"
              /\ hook' = [hook EXCEPT !.pc = "ended", !.connection = "disconnected"]
    BY <1>0, <1>18 DEF Subscribe, Unregister, store, PageType, Listening
  <2>2. CASE hook' = hook
    BY <1>4, <2>1, <2>2
  <2>3. CASE /\ hook.pc = "streaming"
             /\ hook' = [hook EXCEPT !.pc = "ended", !.connection = "disconnected"]
    <3>1. hook' \in Hooks(Messages) /\ hook'.pc = "ended" /\ hook'.connection = "disconnected"
      BY <1>0, <2>3 DEF Hooks
    <3> QED BY <1>0, <1>2, <2>1, <2>3, <3>1 DEF PageType, Visited, visit, Listening
  <2> QED BY <2>1, <2>2, <2>3
<1>19. ASSUME NEW v \in 1..MaxVisits, StreamClosed(v)
       PROVE  UNCHANGED <<auth, leaving, here, trail, hook, wire, session>> /\ calm' \in BOOLEAN
  BY <1>0, <1>19 DEF StreamClosed, Unregister, store, page, PageType
<1>20. ASSUME NEW s \in Senders, NEW h \in Channels, SendTo(s, h)
       PROVE  UNCHANGED <<auth, leaving, here, trail, hook, wire, session>> /\ calm' \in BOOLEAN
  BY <1>0, <1>20 DEF SendTo, store, page, server, PageType
<1>21. ASSUME NEW s \in Senders, Publish(s) PROVE PageType' /\ Visited'
  <2>1. /\ UNCHANGED <<auth, leaving, here, trail, hook, calm, session>>
        /\ sender[s].pc = "saved"
        /\ wire' = wire \/ wire' = Append(wire, sender[s].id)
    BY <1>21 DEF Publish, store, server
  <2>2. sender[s].id \in Messages
    BY <1>0, <2>1 DEF LogOK, Sending
  <2>3. wire' \in Seq(Messages)
    BY <1>0, <2>1, <2>2
  <2> QED BY <1>0, <1>2, <2>1, <2>3 DEF PageType, Visited, visit, Listening
<1>22. CASE fetchOlder \/ LeaveChannel \/ UNCHANGED vars
  <2>1. UNCHANGED <<auth, leaving, here, trail, hook, wire, session, calm>>
    BY <1>22 DEF fetchOlder, LeaveChannel, vars, store, page, server
  <2> QED BY <1>0, <1>4, <2>1 DEF PageType
<1> QED
  BY <1>3, <1>4, <1>5, <1>6, <1>7, <1>8, <1>9, <1>10, <1>11, <1>12, <1>13, <1>14, <1>15, <1>16,
     <1>17, <1>18, <1>19, <1>20, <1>21, <1>22 DEF Next

\* A step that registers and drops no stream, begins no visit and asks for none.
LEMMA ServerFrame ==
    ASSUME ServerType, Streamed, UNCHANGED <<trail, handler, writer>>,
           session' \in {"none", "alive", "gone"}, member' \in Channels \cup {None},
           stray' \subseteq Channels,
           hook'.pc \in {"joining", "joined"} => hook.pc \in {"joining", "joined"}
    PROVE  ServerType' /\ Streamed'
BY DEF ServerType, Streamed, visit

LEMMA ServerStep == IInv /\ PInv /\ [Next]_vars => ServerType' /\ Streamed'
<1> SUFFICES ASSUME IInv, PInv, [Next]_vars PROVE ServerType' /\ Streamed'
  OBVIOUS
<1>0. /\ ServerType /\ Streamed /\ Visited /\ FetchOK
      /\ (here # None => here \in Channels) /\ (hook.pc # "none" => here \in Channels)
      /\ trail \in Seq(Channels) /\ visit \in Nat /\ visit <= MaxVisits /\ MaxVisits \in Nat
      /\ hook \in Hooks(Messages)
  <2>1. trail \in Seq(Channels)
    BY DEF PInv, Types, PageType
  <2> QED BY <2>1, HereFacts, PageAssumption DEF IInv, PInv, Types, PageType, visit
<1>1. CASE UNCHANGED <<trail, hook, server>>
  BY <1>0, <1>1 DEF ServerType, Streamed, visit, server
<1>2. ASSUME reset, UNCHANGED <<trail, session, handler, writer>>, member' \in Channels \cup {None}
      PROVE  ServerType' /\ Streamed'
  <2>1. stray' \subseteq Channels
    BY <1>0, <1>2 DEF reset, Aborted, ServerType
  <2>2. hook'.pc = "none"
    BY <1>0, <1>2 DEF reset, Hooks
  <2> QED BY <1>0, <1>2, <2>1, <2>2, ServerFrame DEF ServerType
<1>3. CASE Disconnect \/ Heartbeat
  BY <1>0, <1>2, <1>3 DEF Disconnect, Heartbeat, ServerType
<1>4. CASE Connected
  BY <1>0, <1>4, ServerFrame DEF Connected, page, ServerType
<1>5. CASE SessionEnds
  BY <1>0, <1>5 DEF SessionEnds, page, ServerType, Streamed, visit
<1>6. CASE Unmount
  BY <1>0, <1>6, ServerFrame DEF Unmount, Aborted, NoHook, ServerType
<1>7. CASE Join
  <2>1. UNCHANGED <<trail, session, handler, writer>> /\ hook.pc = "joining" /\ here \in Channels
    BY <1>0, <1>7 DEF Join
  <2>2. member' \in Channels \cup {None}
    BY <1>0, <1>7, <2>1 DEF Join, ServerType
  <2>3. CASE reset
    BY <1>2, <2>1, <2>2, <2>3
  <2>4. CASE stray' = stray
    BY <1>0, <2>1, <2>2, <2>4, ServerFrame DEF ServerType
  <2> QED BY <1>7, <2>3, <2>4 DEF Join
<1>8. CASE Joined
  <2>1. /\ hook.pc = "joined" /\ handler' = [handler EXCEPT ![visit] = "sent"]
        /\ hook' = [hook EXCEPT !.pc = "streaming", !.isJoined = TRUE, !.connection = "connected"]
        /\ UNCHANGED <<trail, session, member, stray, writer>>
    BY <1>8 DEF Joined
  <2>2. visit \in 1..MaxVisits /\ hook'.pc = "streaming"
    BY <1>0, <2>1 DEF Visited, Hooks
  <2> QED BY <1>0, <2>1, <2>2 DEF ServerType, Streamed, visit
<1>9. ASSUME NEW h \in Channels, Visit(h) PROVE ServerType' /\ Streamed'
  <2>1. /\ visit' = visit + 1 /\ visit < MaxVisits
        /\ UNCHANGED <<session, member, handler, writer>>
        /\ stray' \subseteq Channels
    BY <1>0, <1>9 DEF Visit, Aborted, ServerType, visit
  <2>2. /\ visit' \in 1..MaxVisits /\ visit' > visit
        /\ \A v \in 1..MaxVisits : v > visit' => v > visit
    BY <1>0, <2>1
  <2>3. handler[visit'] = "none"
    BY <1>0, <2>2 DEF Streamed
  <2>4. writer \in 0..visit'
    BY <1>0, <2>1 DEF ServerType
  <2> QED BY <1>0, <2>1, <2>2, <2>3, <2>4 DEF ServerType, Streamed
<1>10. ASSUME NEW h \in Channels, StrayJoin(h) PROVE ServerType' /\ Streamed'
  BY <1>0, <1>10, ServerFrame DEF StrayJoin, page, ServerType
<1>11. CASE LeaveChannel
  BY <1>0, <1>11, ServerFrame DEF LeaveChannel, page, ServerType
<1>12. ASSUME NEW v \in 1..MaxVisits, Subscribe(v) PROVE ServerType' /\ Streamed'
  <2>1. PICK k \in {"open", "closed"} :
          /\ handler[v] = "sent" /\ handler' = [handler EXCEPT ![v] = k]
          /\ writer' \in {0, v} /\ UNCHANGED <<trail, session, member, stray>>
    BY <1>12 DEF Subscribe, Unregister
  <2>2. hook'.pc \in {"joining", "joined"} => hook'.pc = hook.pc
    BY <1>0, <1>12 DEF Subscribe, Hooks
  <2>3. v <= visit /\ writer' \in 0..visit
    BY <1>0, <2>1 DEF Streamed
  <2>4. /\ handler' \in [1..MaxVisits -> {"none", "sent", "open", "closed"}]
        /\ handler'[v] = k /\ \A u \in 1..MaxVisits \ {v} : handler'[u] = handler[u]
    BY <1>0, <2>1 DEF ServerType
  <2>5. hook.pc \in {"joining", "joined"} => v # visit /\ visit \in 1..MaxVisits
    BY <1>0, <2>1 DEF Streamed, Visited
  <2>6. \A u \in 1..MaxVisits : u > visit => u # v
    BY <1>0, <2>3
  <2> QED BY <1>0, <2>1, <2>2, <2>3, <2>4, <2>5, <2>6 DEF ServerType, Streamed, visit
<1>13. ASSUME NEW v \in 1..MaxVisits, StreamClosed(v) PROVE ServerType' /\ Streamed'
  <2>1. /\ handler[v] = "open" /\ handler' = [handler EXCEPT ![v] = "closed"]
        /\ writer' = 0 /\ UNCHANGED <<trail, hook, session, member, stray>>
    BY <1>13 DEF StreamClosed, Unregister, page
  <2>2. v <= visit /\ writer' \in 0..visit
    BY <1>0, <2>1 DEF Streamed
  <2>3. /\ handler' \in [1..MaxVisits -> {"none", "sent", "open", "closed"}]
        /\ \A u \in 1..MaxVisits \ {v} : handler'[u] = handler[u]
    BY <1>0, <2>1 DEF ServerType
  <2>4. hook.pc \in {"joining", "joined"} => v # visit /\ visit \in 1..MaxVisits
    BY <1>0, <2>1 DEF Streamed, Visited
  <2>5. \A u \in 1..MaxVisits : u > visit => u # v
    BY <1>0, <2>2
  <2> QED BY <1>0, <2>1, <2>2, <2>3, <2>4, <2>5 DEF ServerType, Streamed, visit
<1>14. CASE LiveEvent \/ StreamEnds \/ Drain
  <2>1. UNCHANGED <<trail, server>> /\ (hook'.pc = hook.pc \/ hook'.pc = "ended")
    BY <1>0, <1>14 DEF LiveEvent, StreamEnds, Drain, Hooks
  <2> QED BY <1>0, <2>1, ServerFrame DEF ServerType, server
<1>15. ASSUME NEW h \in Channels, FetchFailed(h) PROVE ServerType' /\ Streamed'
  <2>1. fetch[h].error \in {"NotAMember", "NetworkError"}
    BY <1>0, <1>15 DEF FetchFailed, FetchOK
  <2>2. UNCHANGED <<trail, hook, server>>
    BY <1>15, <2>1, NotTheClient DEF FetchFailed, server
  <2> QED BY <1>1, <2>2
<1>16. ASSUME NEW h \in Channels, ListMessages(h) \/ Fetched(h) PROVE ServerType' /\ Streamed'
  BY <1>1, <1>16 DEF ListMessages, Fetched
<1>17. ASSUME NEW s \in Senders, Save(s) \/ Publish(s) \/ (\E h \in Channels : SendTo(s, h))
       PROVE  ServerType' /\ Streamed'
  BY <1>1, <1>17 DEF Save, Publish, SendTo, page
<1>18. CASE Connect \/ fetchOlder \/ UNCHANGED vars
  BY <1>1, <1>18 DEF Connect, fetchOlder, vars, page
<1> QED
  BY <1>3, <1>4, <1>5, <1>6, <1>7, <1>8, <1>9, <1>10, <1>11, <1>12, <1>13, <1>14, <1>15, <1>16,
     <1>17, <1>18 DEF Next

-----------------------------------------------------------------------------
(* What reaches the page.                                                  *)

LEMMA BufferedStep == IInv /\ PInv /\ [Next]_vars => Buffered'
<1> SUFFICES ASSUME IInv, PInv, [Next]_vars PROVE Buffered'
  OBVIOUS
<1>0. /\ CacheInv /\ Buffered /\ FetchOK /\ hook \in Hooks(Messages)
      /\ (here # None => here \in Channels) /\ (hook.pc # "none" => here \in Channels)
      /\ hook.pendingLive \in SUBSET Messages /\ wire \in Seq(Messages) /\ None \notin Channels
  BY HereFacts, PageAssumption DEF IInv, PInv, Types, CacheInv, PageType
<1>1. ASSUME /\ hook'.initialFetched => hook.initialFetched /\ hook'.pendingLive = hook.pendingLive
             /\ here' = here
             /\ here \in Channels /\ data[here].loaded => data'[here].loaded
      PROVE  Buffered'
  BY <1>0, <1>1 DEF Buffered
<1>2. CASE UNCHANGED <<here, hook, data>>
  BY <1>1, <1>2
<1>3. ASSUME reset
      PROVE  Buffered'
  <2>1. ~hook'.initialFetched
    BY <1>0, <1>3 DEF reset, Hooks
  <2> QED BY <2>1 DEF Buffered
<1>4. CASE Unmount
  BY <1>4 DEF Unmount, NoHook, Buffered
<1>5. ASSUME NEW h \in Channels, Visit(h) PROVE Buffered'
  BY <1>5 DEF Visit, NoHook, Buffered
<1>6. CASE Join
  <2>1. CASE reset
    BY <1>3, <2>1
  <2>2. CASE ~reset
    <3>1. /\ UNCHANGED <<here, data>>
          /\ \/ hook' = [hook EXCEPT !.pc = "joined"]
             \/ hook' = [hook EXCEPT !.pc = "ended", !.connection = "disconnected"]
      BY <1>6, <2>2 DEF Join
    <3>2. hook'.initialFetched = hook.initialFetched /\ hook'.pendingLive = hook.pendingLive
      BY <1>0, <3>1 DEF Hooks
    <3> QED BY <1>1, <3>1, <3>2
  <2> QED BY <2>1, <2>2
<1>7. CASE Joined \/ StreamEnds
  <2>1. UNCHANGED <<here, data>>
    BY <1>7 DEF Joined, StreamEnds
  <2>2. hook'.initialFetched = hook.initialFetched /\ hook'.pendingLive = hook.pendingLive
    BY <1>0, <1>7 DEF Joined, StreamEnds, Hooks
  <2> QED BY <1>1, <2>1, <2>2
<1>8. CASE LiveEvent
  <2>1. here \in Channels /\ here' = here /\ {Head(wire)} \in SUBSET Messages
    BY <1>0, <1>8 DEF LiveEvent, Listening
  <2>2. CASE hook.initialFetched
    <3>1. /\ hook' = hook
          /\ data' = [data EXCEPT ![here] = injectLiveMessage(data[here], {Head(wire)})]
      BY <1>8, <2>2 DEF LiveEvent
    <3>2. data[here].loaded /\ data'[here] = injectLiveMessage(data[here], {Head(wire)})
      BY <1>0, <2>1, <2>2, <3>1 DEF Buffered, CacheInv, CacheType
    <3>3. data'[here].loaded
      BY <1>0, <2>1, <3>2, InjectFacts
    <3> QED BY <1>1, <2>1, <3>1, <3>3
  <2>3. CASE ~hook.initialFetched
    <3>1. ~hook'.initialFetched
      BY <1>0, <1>8, <2>3 DEF LiveEvent, Hooks
    <3> QED BY <3>1 DEF Buffered
  <2> QED BY <2>2, <2>3
<1>9. CASE Drain
  <2>1. here \in Channels /\ here' = here
    BY <1>0, <1>9 DEF Drain
  <2>2. CASE isSuccess(here) /\ ~hook.initialFetched
    <3>1. /\ hook' = [hook EXCEPT !.seen = TRUE, !.initialFetched = TRUE, !.pendingLive = {}]
          /\ data' = [data EXCEPT ![here] = injectLiveMessage(data[here], hook.pendingLive)]
      BY <1>9, <2>2 DEF Drain
    <3>2. /\ data[here].loaded
          /\ data'[here] = injectLiveMessage(data[here], hook.pendingLive)
      BY <1>0, <2>1, <2>2, <3>1, CacheFacts DEF CachedAt, isSuccess, CacheInv, CacheType
    <3>3. data'[here].loaded
      BY <1>0, <2>1, <3>2, InjectFacts
    <3>4. hook'.pendingLive = {}
      BY <1>0, <3>1 DEF Hooks
    <3> QED BY <1>0, <2>1, <3>3, <3>4 DEF Buffered
  <2>3. CASE ~(isSuccess(here) /\ ~hook.initialFetched)
    <3>1. hook' = [hook EXCEPT !.seen = isSuccess(here)] /\ data' = data
      BY <1>9, <2>3 DEF Drain
    <3>2. hook'.initialFetched = hook.initialFetched /\ hook'.pendingLive = hook.pendingLive
      BY <1>0, <3>1 DEF Hooks
    <3> QED BY <1>1, <2>1, <3>1, <3>2
  <2> QED BY <2>2, <2>3
<1>10. ASSUME NEW h \in Channels, ListMessages(h) PROVE Buffered'
  BY <1>2, <1>10 DEF ListMessages
<1>11. ASSUME NEW h \in Channels, Fetched(h) PROVE Buffered'
  <2>1. PICK d \in Histories(Messages) : data' = [data EXCEPT ![h] = d] /\ d.loaded
    BY <1>0, <1>11, FetchedFacts
  <2>2. UNCHANGED <<here, hook>>
    BY <1>11 DEF Fetched
  <2>3. here \in Channels /\ data[here].loaded => data'[here].loaded
    BY <1>0, <2>1 DEF CacheInv, CacheType
  <2> QED BY <1>1, <2>2, <2>3
<1>12. ASSUME NEW h \in Channels, FetchFailed(h), ~reset PROVE Buffered'
  <2>1. PICK d \in Histories(Messages) :
          data' = [data EXCEPT ![h] = d] /\ d.loaded = data[h].loaded /\ UNCHANGED hook
    BY <1>0, <1>12, FetchFailedFacts
  <2>2. here' = here
    BY <1>12 DEF FetchFailed
  <2>3. here \in Channels /\ data[here].loaded => data'[here].loaded
    BY <1>0, <2>1 DEF CacheInv, CacheType
  <2> QED BY <1>1, <2>1, <2>2, <2>3
<1>13. ASSUME NEW v \in 1..MaxVisits, Subscribe(v) PROVE Buffered'
  <2>1. /\ UNCHANGED <<here, data>>
        /\ hook' = hook \/ hook' = [hook EXCEPT !.pc = "ended", !.connection = "disconnected"]
    BY <1>13 DEF Subscribe
  <2>2. hook'.initialFetched = hook.initialFetched /\ hook'.pendingLive = hook.pendingLive
    BY <1>0, <2>1 DEF Hooks
  <2> QED BY <1>1, <2>1, <2>2
<1>14. CASE Disconnect \/ Heartbeat
  BY <1>3, <1>14 DEF Disconnect, Heartbeat
<1>15. CASE Connect \/ Connected \/ SessionEnds \/ fetchOlder \/ LeaveChannel \/ UNCHANGED vars
  BY <1>2, <1>15 DEF Connect, Connected, SessionEnds, fetchOlder, LeaveChannel, vars, page
<1>16. ASSUME NEW h \in Channels, StrayJoin(h) PROVE Buffered'
  BY <1>2, <1>16 DEF StrayJoin, page
<1>17. ASSUME NEW v \in 1..MaxVisits, StreamClosed(v) PROVE Buffered'
  BY <1>2, <1>17 DEF StreamClosed, page
<1>18. ASSUME NEW s \in Senders, Save(s) \/ Publish(s) \/ (\E h \in Channels : SendTo(s, h)) PROVE Buffered'
  BY <1>2, <1>18 DEF Save, Publish, SendTo, page
<1> QED
  BY <1>3, <1>4, <1>5, <1>6, <1>7, <1>8, <1>9, <1>10, <1>11, <1>12, <1>13, <1>14, <1>15, <1>16,
     <1>17, <1>18 DEF Next

\* A step that neither shows another page nor writes to a log, and that keeps
\* whatever is on its way to the page.
LEMMA CalmFrame ==
    ASSUME PInv, UNCHANGED <<auth, here, trail, log>>, calm' => calm,
           here # None =>
              /\ data'[here].loaded = data[here].loaded /\ data'[here].cursor = data[here].cursor
              /\ ~data[here].loaded /\ fetch'[here].pc = "read" =>
                    fetch[here].pc = "read" /\ fetch'[here].page = fetch[here].page,
           hook'.seen => hook'.initialFetched \/ (hook.seen /\ ~hook.initialFetched),
           hook'.pc = hook.pc \/ (hook.pc = "joining" /\ hook'.pc = "joined") \/ hook'.pc = "ended",
           calm' /\ here # None /\ Listening /\ HasRead /\ writer = visit =>
              writer' = writer /\ \A m \in Range(log[here]) : Reaches(m) => Reaches(m)'
    PROVE  Calm'
<1> SUFFICES ASSUME calm', auth' = "connected", here' # None
             PROVE  /\ hook'.seen => hook'.initialFetched
                    /\ hook'.pc \in {"joining", "joined"} => ~HasRead'
                    /\ Listening' /\ HasRead' =>
                          writer' = visit' /\ \A m \in Range(log'[here']) : Due(m)' => Reaches(m)'
  BY DEF Calm
<1>1. /\ here # None /\ here' = here /\ log' = log /\ visit' = visit
      /\ hook.seen => hook.initialFetched
      /\ hook.pc \in {"joining", "joined"} => ~HasRead
      /\ Listening /\ HasRead =>
            writer = visit /\ \A m \in Range(log[here]) : Due(m) => Reaches(m)
  BY DEF PInv, Calm, visit
<1>2. HasRead' => HasRead
  BY <1>1 DEF HasRead
<1>3. HasRead' => \A m : Due(m)' => Due(m)
  BY <1>1 DEF HasRead, Due
<1>4. Listening' => Listening
  BY DEF Listening
<1>5. hook'.pc \in {"joining", "joined"} => hook.pc \in {"joining", "joined"}
  OBVIOUS
<1> QED BY <1>1, <1>2, <1>3, <1>4, <1>5

LEMMA QuietCalm ==
    ASSUME PInv, UNCHANGED <<auth, here, trail, hook, data, fetch, wire, sends>>,
           calm' => calm /\ (Listening /\ writer = visit => writer' = writer)
    PROVE  Calm'
BY DEF PInv, Calm, HasRead, Due, Reaches, Listening, visit, sends

\* Whatever shows no page, or has no session, has nothing to lose.
LEMMA NoCalm ==
    ASSUME auth' # "connected" \/ here' = None \/ ~calm'
    PROVE  Calm'
BY DEF Calm

LEMMA VisitCalm ==
    ASSUME PInv, NEW h \in Channels, Visit(h)
    PROVE  Calm'
<1> SUFFICES ASSUME calm'
             PROVE  Calm'
  BY NoCalm
<1>1. /\ here' = h /\ ~data[h].loaded /\ fetch[h].pc # "read"
      /\ hook' = [NoHook EXCEPT !.pc = "joining", !.connection = "joining", !.seen = isSuccess(h)]
  BY DEF Visit
<1>2. CacheInv
  BY DEF PInv, Types, CacheInv
<1>3. ~isSuccess(h)
  BY <1>1, <1>2, CacheFacts DEF isSuccess, CachedAt
<1>4. data' = data
  BY <1>3 DEF Visit
<1>5. fetch'[h].pc # "read"
  <2>1. PICK f \in Requests(Messages) : /\ Enabled(h) = [fetch EXCEPT ![h] = f]
                                        /\ f = fetch[h] \/ f.pc = "asked"
    BY <1>2, EnabledFacts
  <2>2. fetch' = fetch \/ fetch' = [fetch EXCEPT ![h] = f]
    BY <2>1 DEF Visit
  <2> QED BY <1>1, <1>2, <2>1, <2>2 DEF CacheInv, CacheType
<1>6. ~HasRead'
  BY <1>1, <1>4, <1>5 DEF HasRead
<1>7. ~hook'.seen
  BY <1>1, <1>3 DEF NoHook
<1> QED BY <1>6, <1>7 DEF Calm

LEMMA JoinedCalm ==
    ASSUME PInv, Joined
    PROVE  Calm'
<1>1. /\ hook.pc = "joined" /\ here \in Channels /\ CacheInv /\ hook \in Hooks(Messages)
  BY HereFacts DEF Joined, PInv, Types, CacheInv, PageType
<1>2. /\ hook' = [hook EXCEPT !.pc = "streaming", !.isJoined = TRUE, !.connection = "connected"]
      /\ fetch' = Enabled(here) /\ UNCHANGED <<auth, here, data, calm>>
  BY DEF Joined, store
<1>3. hook'.pc = "streaming" /\ hook'.seen = hook.seen /\ hook'.initialFetched = hook.initialFetched
  BY <1>1, <1>2 DEF Hooks
<1>4. fetch[here].pc # "read" => fetch'[here].pc # "read"
  <2>1. PICK f \in Requests(Messages) : /\ Enabled(here) = [fetch EXCEPT ![here] = f]
                                        /\ f = fetch[here] \/ f.pc = "asked"
    BY <1>1, EnabledFacts
  <2> QED BY <1>1, <1>2, <2>1 DEF CacheInv, CacheType
<1>5. ~HasRead => ~HasRead'
  BY <1>2, <1>4 DEF HasRead
<1> QED BY <1>1, <1>2, <1>3, <1>5 DEF Calm, PInv

LEMMA JoinCalm ==
    ASSUME PInv, Join
    PROVE  Calm'
<1>1. CASE reset
  BY <1>1, NoCalm DEF reset
<1>2. CASE ~reset
  <2>1. /\ hook.pc = "joining" /\ UNCHANGED <<auth, here, trail, data, fetch, wire, calm, writer, sends>>
        /\ \/ hook' = [hook EXCEPT !.pc = "joined"]
           \/ hook' = [hook EXCEPT !.pc = "ended", !.connection = "disconnected"]
    BY <1>2 DEF Join
  <2>2. hook \in Hooks(Messages)
    BY DEF PInv, Types, PageType
  <2>3. /\ hook'.seen = hook.seen /\ hook'.initialFetched = hook.initialFetched
        /\ hook'.pc \in {"joined", "ended"}
    BY <2>1, <2>2 DEF Hooks
  <2> QED BY <2>1, <2>3, CalmFrame DEF Listening, sends
<1> QED BY <1>1, <1>2

\* An event goes from the stream to the page, or to the buffer.
LEMMA LiveEventCalm ==
    ASSUME PInv, LiveEvent
    PROVE  Calm'
<1>1. /\ Listening /\ here \in Channels /\ CacheInv /\ hook \in Hooks(Messages) /\ Buffered
      /\ wire \in Seq(Messages) /\ wire # <<>>
  BY HereFacts DEF LiveEvent, Listening, PInv, Types, CacheInv, PageType
<1>2. wire' = Tail(wire) /\ UNCHANGED <<auth, here, trail, log, fetch, calm, writer, sender>>
  BY DEF LiveEvent, store, server, sends
<1>3. Head(wire) \in Messages /\ \A m \in Range(wire) : m = Head(wire) \/ m \in Range(wire')
  <2>1. ASSUME NEW i \in DOMAIN wire, i # 1
        PROVE  i - 1 \in DOMAIN wire' /\ wire'[i - 1] = wire[i]
    BY <1>1, <1>2, <2>1
  <2>2. Head(wire) = wire[1] /\ Head(wire) \in Messages
    BY <1>1
  <2> QED BY <2>1, <2>2 DEF Range
<1>4. CASE hook.initialFetched
  <2> DEFINE d == injectLiveMessage(data[here], {Head(wire)})
  <2>1. hook' = hook /\ data' = [data EXCEPT ![here] = d] /\ data[here].loaded
    BY <1>1, <1>4 DEF LiveEvent, Buffered
  <2>2. /\ d.msgs = data[here].msgs \cup {Head(wire)} /\ d.cursor = data[here].cursor
        /\ d.loaded = data[here].loaded
    <3>1. d \in Histories(Messages) /\ d.loaded /\ data[here] \in Histories(Messages)
      BY <1>1, <1>3, <2>1, InjectFacts, CacheFacts
    <3> QED BY <1>1, <1>3, <2>1, <3>1, InjectFacts DEF Histories
  <2> HIDE DEF d
  <2>3. data'[here] = d
    BY <1>1, <2>1 DEF CacheInv, CacheType
  <2>4. \A m : Reaches(m) => Reaches(m)'
    BY <1>2, <1>3, <2>1, <2>2, <2>3 DEF Reaches
  <2>5. data'[here].loaded = data[here].loaded /\ data'[here].cursor = data[here].cursor
    BY <2>2, <2>3
  <2>6. UNCHANGED <<auth, here, trail, log>> /\ UNCHANGED <<fetch, hook, calm, writer>>
    BY <1>2, <2>1
  <2> QED BY <2>4, <2>5, <2>6, CalmFrame
<1>5. CASE ~hook.initialFetched
  <2>1. hook' = [hook EXCEPT !.pendingLive = hook.pendingLive \cup {Head(wire)}] /\ data' = data
    BY <1>5 DEF LiveEvent
  <2>2. /\ hook'.pendingLive = hook.pendingLive \cup {Head(wire)}
        /\ hook'.pc = hook.pc /\ hook'.seen = hook.seen
        /\ hook'.initialFetched = hook.initialFetched
    BY <1>1, <2>1 DEF Hooks
  <2>3. \A m : Reaches(m) => Reaches(m)'
    BY <1>2, <1>3, <2>1, <2>2 DEF Reaches
  <2> QED BY <1>2, <2>1, <2>2, <2>3, CalmFrame
<1> QED BY <1>4, <1>5

LEMMA StreamEndsCalm ==
    ASSUME PInv, StreamEnds
    PROVE  Calm'
<1>1. /\ hook' = [hook EXCEPT !.pc = "ended", !.connection = "disconnected"]
      /\ UNCHANGED <<auth, here, trail, data, fetch, log, calm>>
  BY DEF StreamEnds, store, sends
<1>2. hook \in Hooks(Messages)
  BY DEF PInv, Types, PageType
<1>3. /\ hook'.pc = "ended" /\ hook'.seen = hook.seen
      /\ hook'.initialFetched = hook.initialFetched
  BY <1>1, <1>2 DEF Hooks
<1> QED BY <1>1, <1>3 DEF Calm, PInv, Listening

\* The buffer goes to the page.
LEMMA DrainCalm ==
    ASSUME PInv, Drain
    PROVE  Calm'
<1>1. /\ here \in Channels /\ CacheInv /\ hook \in Hooks(Messages) /\ Buffered
      /\ hook.pendingLive \in SUBSET Messages
      /\ UNCHANGED <<auth, here, trail, fetch, wire, calm, writer, log, sender>>
  BY HereFacts DEF Drain, PInv, Types, CacheInv, PageType, store, server, sends
<1>2. CASE isSuccess(here) /\ ~hook.initialFetched
  <2> DEFINE d == injectLiveMessage(data[here], hook.pendingLive)
  <2>1. /\ hook' = [hook EXCEPT !.seen = TRUE, !.initialFetched = TRUE, !.pendingLive = {}]
        /\ data' = [data EXCEPT ![here] = d]
    BY <1>2 DEF Drain
  <2>2. data[here].loaded
    BY <1>1, <1>2, CacheFacts DEF CachedAt, isSuccess
  <2>3. /\ d.msgs = data[here].msgs \cup hook.pendingLive /\ d.loaded
        /\ d.cursor = data[here].cursor
    BY <1>1, <2>2, InjectFacts
  <2> HIDE DEF d
  <2>4. data'[here] = d
    BY <1>1, <2>1 DEF CacheInv, CacheType
  <2>5. hook'.initialFetched /\ hook'.pc = hook.pc
    BY <1>1, <2>1 DEF Hooks
  <2>6. \A m : Reaches(m) => Reaches(m)'
    BY <1>1, <2>2, <2>3, <2>4 DEF Reaches
  <2> QED BY <1>1, <2>2, <2>3, <2>4, <2>5, <2>6, CalmFrame
<1>3. CASE ~(isSuccess(here) /\ ~hook.initialFetched)
  <2>1. hook' = [hook EXCEPT !.seen = isSuccess(here)] /\ data' = data
    BY <1>3 DEF Drain
  <2>2. /\ hook'.pc = hook.pc /\ hook'.pendingLive = hook.pendingLive
        /\ hook'.initialFetched = hook.initialFetched /\ hook'.seen = isSuccess(here)
    BY <1>1, <2>1 DEF Hooks
  <2>3. hook'.seen => hook'.initialFetched
    BY <1>3, <2>2
  <2>4. \A m : Reaches(m) => Reaches(m)'
    BY <1>1, <2>1, <2>2 DEF Reaches
  <2> QED BY <1>1, <2>1, <2>2, <2>3, <2>4, CalmFrame
<1> QED BY <1>2, <1>3

LEMMA fetchOlderCalm ==
    ASSUME PInv, fetchOlder
    PROVE  Calm'
<1>1. /\ here \in Channels /\ CacheInv /\ data[here].more
      /\ UNCHANGED <<auth, here, trail, hook, data, wire, calm, writer, log, sender>>
  BY HereFacts DEF fetchOlder, PInv, Types, CacheInv, store, server, sends
<1>2. data[here].loaded
  BY <1>1, CacheFacts DEF CachedAt
<1>3. \A m : Reaches(m) => Reaches(m)'
  BY <1>1, <1>2 DEF Reaches
<1> QED BY <1>1, <1>2, <1>3, CalmFrame

\* A step of another channel's request.
LEMMA OtherCalm ==
    ASSUME PInv, NEW h \in Channels, h # here, NEW d, NEW f,
           data' = [data EXCEPT ![h] = d], fetch' = [fetch EXCEPT ![h] = f],
           UNCHANGED <<auth, here, trail, hook, wire, writer, log, sender>>, calm' => calm
    PROVE  Calm'
<1>1. here # None => data'[here] = data[here] /\ fetch'[here] = fetch[here]
  BY HereFacts DEF PInv, Types, CacheType
<1>2. here # None => \A m : Reaches(m) => Reaches(m)'
  BY <1>1 DEF Reaches
<1> QED BY <1>1, <1>2, CalmFrame

\* The first page is read when the stream is registered: whatever it lacks was
\* sent before the page's oldest message.
LEMMA ListMessagesCalm ==
    ASSUME PInv, NEW h \in Channels, ListMessages(h)
    PROVE  Calm'
<1>1. CacheInv
  BY DEF PInv, Types, CacheInv
<1>2. UNCHANGED <<auth, here, trail, hook, wire, writer, log, sender>>
  BY DEF ListMessages, store, server, sends
<1>3. PICK f \in Requests(Messages) :
         /\ data' = data /\ fetch' = [fetch EXCEPT ![h] = f]
         /\ fetch[h].pc = "asked" /\ f.older = fetch[h].older
         /\ \/ f.pc = "failed" /\ calm' = calm
            \/ /\ f.pc = "read"
               /\ calm' = (calm /\ (h = here /\ ~fetch[h].older => writer = visit))
               /\ ~f.older => /\ f.page = {} => Range(log[h]) = {}
                              /\ \A m \in Range(log[h]), k \in f.page : k <= m => m \in f.page
  BY <1>1, ListMessagesFacts
<1>4. calm' => calm
  BY <1>3
<1>5. CASE h # here
  <2>1. data' = [data EXCEPT ![h] = data[h]] /\ fetch' = [fetch EXCEPT ![h] = f]
    BY <1>1, <1>3, CacheFacts
  <2> QED BY <1>2, <1>4, <1>5, <2>1, OtherCalm
<1>6. CASE h = here
  <2>1. fetch'[here] = f /\ (fetch[here].older <=> data[here].loaded)
    BY <1>1, <1>3, <1>6, CacheFacts DEF CacheInv, CacheType, CachedAt
  <2>2. CASE f.pc = "failed" \/ data[here].loaded
    <3>1. HasRead => \A m : Reaches(m) => Reaches(m)'
      BY <1>2, <1>3, <1>6, <2>1, <2>2 DEF HasRead, Reaches
    <3>2. ~data[here].loaded => fetch'[here].pc # "read"
      BY <2>1, <2>2
    <3>3. data' = data
      BY <1>3
    <3> QED BY <1>2, <1>4, <3>1, <3>2, <3>3, CalmFrame
  <2>3. CASE f.pc = "read" /\ ~data[here].loaded
    <3> SUFFICES ASSUME calm', auth' = "connected", here # None
                 PROVE  Calm'
      BY <1>2, NoCalm
    <3>1. writer = visit /\ calm /\ (hook.seen => hook.initialFetched)
      BY <1>2, <1>3, <1>6, <2>1, <2>3 DEF PInv, Calm
    <3>2. hook.pc \notin {"joining", "joined"}
      BY <3>1 DEF PInv, Visited, Streamed
    <3>3. ASSUME NEW m \in Range(log[here]), Due(m)'
          PROVE  Reaches(m)'
      <4>1. f.page = {} \/ \E k \in f.page : k <= m
        BY <1>2, <1>3, <2>1, <2>3, <3>3 DEF Due
      <4>2. m \in f.page
        BY <1>3, <1>6, <2>1, <2>3, <4>1
      <4> QED BY <1>2, <1>3, <2>1, <2>3, <4>2 DEF Reaches
    <3> QED BY <1>2, <3>1, <3>2, <3>3 DEF Calm, visit
  <2> QED BY <1>3, <2>2, <2>3
<1> QED BY <1>5, <1>6

LEMMA FetchedCalm ==
    ASSUME PInv, NEW h \in Channels, Fetched(h)
    PROVE  Calm'
<1>1. CacheInv
  BY DEF PInv, Types, CacheInv
<1>2. UNCHANGED <<auth, here, trail, hook, wire, writer, log, sender>>
  BY DEF Fetched, store, server, sends
<1>3. PICK d \in Histories(Messages) :
         /\ data' = [data EXCEPT ![h] = d] /\ fetch' = [fetch EXCEPT ![h] = NoFetch]
         /\ fetch[h].pc = "read"
         /\ d.loaded /\ d.msgs = fetch[h].base \cup fetch[h].page
         /\ fetch[h].page = {} => d.cursor = data[h].cursor
         /\ fetch[h].page # {} => d.cursor = Oldest(fetch[h].page)
         /\ calm' => calm /\ (h = here => data[h].msgs \subseteq fetch[h].base)
  BY <1>1, FetchedFacts
<1>4. CASE h # here
  BY <1>2, <1>3, <1>4, OtherCalm
<1>5. CASE h = here
  <2> SUFFICES ASSUME calm', auth' = "connected"
               PROVE  Calm'
    BY NoCalm
  <2> DEFINE p == fetch[here].page
             c == data[here].cursor
  <2>1. /\ data'[here] = d /\ data[here].msgs \subseteq fetch[here].base
        /\ p \in SUBSET Messages /\ c \in Messages \cup {0} /\ d.cursor \in Messages \cup {0}
        /\ Range(log[here]) \subseteq Messages
        /\ CachedAt(data[here], fetch[here], Range(log[here]))
    BY <1>1, <1>3, <1>5, CacheFacts DEF CacheInv, CacheType, Histories, Requests
  <2>2. here # None
    BY <1>5, PageAssumption
  <2>3. /\ hook.seen => hook.initialFetched
        /\ hook.pc \notin {"joining", "joined"}
        /\ Listening => writer = visit /\ \A m \in Range(log[here]) : Due(m) => Reaches(m)
    BY <1>2, <1>3, <1>5, <2>2 DEF PInv, Calm, HasRead
  <2>4. /\ p = {} => d.cursor = c
        /\ p # {} => d.cursor \in p
    BY <1>3, <1>5, <2>1, OldestFacts DEF CachedAt
  <2>5. ASSUME NEW m \in Range(log[here]), m >= d.cursor
        PROVE  Due(m) \/ m \in p
    <3>1. m \in Nat /\ c \in Nat /\ d.cursor \in Nat
      BY <1>1, <2>1, LogFacts DEF CacheInv, Messages
    <3>2. CASE data[here].loaded
      <4>1. fetch[here].older
        BY <1>3, <1>5, <2>1, <3>2 DEF CachedAt
      <4>2. p # {} /\ m < c => m \in p
        BY <1>3, <1>5, <2>1, <2>4, <2>5, <3>1, <4>1 DEF CachedAt
      <4> QED BY <2>4, <2>5, <3>1, <3>2, <4>2 DEF Due
    <3>3. CASE ~data[here].loaded
      BY <2>4, <2>5, <3>1, <3>3 DEF Due
    <3> QED BY <3>2, <3>3
  <2>6. ASSUME Listening, NEW m \in Range(log[here]), Due(m)'
        PROVE  Reaches(m)'
    <3>1. m >= d.cursor
      BY <1>2, <1>3, <2>1, <2>6 DEF Due
    <3>2. m \in p \/ Reaches(m)
      BY <2>3, <2>5, <2>6, <3>1
    <3>3. m \in d.msgs \/ m \in hook.pendingLive \cup Range(wire)
            \/ \E s \in Senders : sender[s].pc = "saved" /\ sender[s].to /\ sender[s].id = m
      BY <1>3, <1>5, <2>1, <3>2 DEF Reaches
    <3> QED BY <1>2, <2>1, <3>3 DEF Reaches
  <2> QED BY <1>2, <2>3, <2>6 DEF Calm, Listening, visit
<1> QED BY <1>4, <1>5

LEMMA FetchFailedCalm ==
    ASSUME PInv, NEW h \in Channels, FetchFailed(h)
    PROVE  Calm'
<1>1. CASE reset
  BY <1>1, NoCalm DEF reset
<1>2. CASE ~reset
  <2>1. CacheInv
    BY DEF PInv, Types, CacheInv
  <2>2. PICK d \in Histories(Messages), f \in Requests(Messages) :
           /\ data' = [data EXCEPT ![h] = d] /\ fetch' = [fetch EXCEPT ![h] = f]
           /\ fetch[h].pc = "failed" /\ f.pc # "read"
           /\ d.loaded = data[h].loaded /\ d.msgs = data[h].msgs /\ d.cursor = data[h].cursor
           /\ UNCHANGED <<auth, hook, wire, stray>>
    BY <1>2, <2>1, FetchFailedFacts
  <2>3. UNCHANGED <<here, trail, calm, writer, log, sender>>
    BY DEF FetchFailed, sends
  <2>4. CASE h # here
    BY <2>2, <2>3, <2>4, OtherCalm
  <2>5. CASE h = here
    <3>1. data'[here] = d /\ fetch'[here] = f
      BY <2>1, <2>2, <2>5 DEF CacheInv, CacheType
    <3>2. HasRead => \A m : Reaches(m) => Reaches(m)'
      BY <2>2, <2>3, <2>5, <3>1 DEF HasRead, Reaches
    <3> QED BY <2>2, <2>3, <2>5, <3>1, <3>2, CalmFrame
  <2> QED BY <2>4, <2>5
<1> QED BY <1>1, <1>2

\* A registration is lost under a listening page, or not at all.
LEMMA SubscribeCalm ==
    ASSUME PInv, NEW v \in 1..MaxVisits, Subscribe(v) \/ StreamClosed(v)
    PROVE  Calm'
<1>1. /\ UNCHANGED <<auth, here, trail, data, fetch, wire, log, sender>>
      /\ calm' => calm /\ ~(Listening /\ writer = visit)
      /\ hook' = hook \/ hook' = [hook EXCEPT !.pc = "ended", !.connection = "disconnected"]
  BY DEF Subscribe, StreamClosed, Unregister, store, page, sends
<1>2. hook \in Hooks(Messages)
  BY DEF PInv, Types, PageType
<1>3. /\ hook'.seen = hook.seen /\ hook'.initialFetched = hook.initialFetched
      /\ hook'.pc = hook.pc \/ hook'.pc = "ended"
  BY <1>1, <1>2 DEF Hooks
<1> QED BY <1>1, <1>3, CalmFrame

\* A message that is saved while the page is calm has the user as a recipient.
LEMMA SaveCalm ==
    ASSUME PInv, NEW s \in Senders, Save(s)
    PROVE  Calm'
<1> DEFINE c == sender[s].channel
<1>1. /\ \A h \in Channels \ {c} : log'[h] = log[h]
      /\ \A m \in Range(log'[c]) : m \in Range(log[c]) \/ m = sender'[s].id
      /\ sender[s].pc = "copied"
      /\ sender'[s].pc = "saved" /\ sender'[s].to = sender[s].to
      /\ \A r \in Senders \ {s} : sender'[r] = sender[r]
  BY SaveFacts DEF PInv, Types
<1>2. /\ UNCHANGED <<auth, here, trail, hook, data, fetch, wire, writer>>
      /\ calm' => calm /\ (here = c => sender[s].to)
  BY <1>1 DEF Save, store, page, server
<1>3. \A m : Reaches(m) => Reaches(m)'
  BY <1>1, <1>2 DEF Reaches
<1>4. ASSUME calm', here # None, NEW m \in Range(log'[here])
      PROVE  m \in Range(log[here]) \/ Reaches(m)'
  <2>1. here \in Channels
    BY <1>4, HereFacts DEF PInv, Types
  <2> QED BY <1>1, <1>2, <1>4, <2>1 DEF Reaches
<1>5. HasRead' <=> HasRead
  BY <1>2 DEF HasRead
<1>6. \A m : Due(m)' <=> Due(m)
  BY <1>2 DEF Due
<1>7. Listening' <=> Listening
  BY <1>2 DEF Listening
<1> QED BY <1>2, <1>3, <1>4, <1>5, <1>6, <1>7 DEF PInv, Calm, visit

\* What has been saved for the user goes to his stream.
LEMMA PublishCalm ==
    ASSUME PInv, NEW s \in Senders, Publish(s) \/ (\E h \in Channels : SendTo(s, h))
    PROVE  Calm'
<1>1. /\ log' = log /\ UNCHANGED <<auth, here, trail, hook, data, fetch, calm, writer>>
      /\ \A r \in Senders \ {s} : sender'[r] = sender[r]
  BY SenderFacts DEF PInv, Types, Publish, SendTo, store, page, server
<1>2. wire \in Seq(Messages) /\ sender[s] \in Sending(Messages)
  BY DEF PInv, Types, PageType, LogOK
<1>3. CASE \E h \in Channels : SendTo(s, h)
  <2>1. wire' = wire /\ sender[s].pc = "idle"
    BY <1>3 DEF SendTo, page
  <2>2. \A m : Reaches(m) => Reaches(m)'
    BY <1>1, <2>1 DEF Reaches
  <2> QED BY <1>1, <2>2, CalmFrame
<1>4. CASE Publish(s)
  <2>1. sender[s].pc = "saved" /\ sender[s].id \in Messages
    BY <1>2, <1>4 DEF Publish, PInv, Types, LogOK, Sending
  <2>2. wire' = IF sender[s].to /\ writer = visit /\ Listening THEN Append(wire, sender[s].id) ELSE wire
    BY <1>4 DEF Publish
  <2>3. \A m \in Range(wire) : m \in Range(wire')
    BY <1>2, <2>1, <2>2 DEF Range
  <2>4. sender[s].to /\ writer = visit /\ Listening => sender[s].id \in Range(wire')
    <3>1. /\ Append(wire, sender[s].id)[Len(wire) + 1] = sender[s].id
          /\ Len(wire) + 1 \in DOMAIN Append(wire, sender[s].id)
      BY <1>2, <2>1
    <3> QED BY <2>2, <3>1 DEF Range
  <2>5. Listening /\ writer = visit => \A m : Reaches(m) => Reaches(m)'
    BY <1>1, <2>3, <2>4 DEF Reaches
  <2> QED BY <1>1, <2>5, CalmFrame
<1> QED BY <1>3, <1>4

LEMMA CalmStep == IInv /\ PInv /\ [Next]_vars => Calm'
<1> SUFFICES ASSUME IInv, PInv, [Next]_vars PROVE Calm'
  OBVIOUS
<1>1. CASE Connect \/ SessionEnds
  BY <1>1, NoCalm DEF Connect, SessionEnds
<1>2. CASE Connected
  <2>1. here = None
    BY <1>2 DEF Connected, IInv, SessionOK, PInv, Visited
  <2> QED BY <1>2, <2>1, NoCalm DEF Connected, page
<1>3. CASE Disconnect \/ Heartbeat
  BY <1>3, NoCalm DEF Disconnect, Heartbeat, reset
<1>4. CASE Unmount
  BY <1>4, NoCalm DEF Unmount
<1>5. CASE Join \/ Joined \/ LiveEvent \/ StreamEnds \/ Drain \/ fetchOlder
  BY <1>5, JoinCalm, JoinedCalm, LiveEventCalm, StreamEndsCalm, DrainCalm, fetchOlderCalm
<1>6. CASE LeaveChannel \/ UNCHANGED vars
  BY <1>6, QuietCalm DEF LeaveChannel, vars, store, page, server
<1>7. ASSUME NEW h \in Channels, StrayJoin(h) PROVE Calm'
  BY <1>7, QuietCalm DEF StrayJoin, store, page
<1>8. ASSUME NEW h \in Channels, Visit(h) \/ ListMessages(h) \/ Fetched(h) \/ FetchFailed(h)
      PROVE  Calm'
  BY <1>8, VisitCalm, ListMessagesCalm, FetchedCalm, FetchFailedCalm
<1>9. ASSUME NEW v \in 1..MaxVisits, Subscribe(v) \/ StreamClosed(v) PROVE Calm'
  BY <1>9, SubscribeCalm
<1>10. ASSUME NEW s \in Senders, Save(s) \/ Publish(s) \/ (\E h \in Channels : SendTo(s, h)) PROVE Calm'
  BY <1>10, SaveCalm, PublishCalm
<1> QED BY <1>1, <1>2, <1>3, <1>4, <1>5, <1>6, <1>7, <1>8, <1>9, <1>10 DEF Next

-----------------------------------------------------------------------------
(* The invariant holds, and is what the page promises.                     *)

LEMMA InitPInv == Init => PInv
<1> SUFFICES ASSUME Init PROVE PInv
  OBVIOUS
<1>1. /\ General \in Channels /\ Backlog \in 0..MaxMessages /\ MaxMessages \in Nat
      /\ MaxVisits \in Nat
  BY PageAssumption
<1>2. /\ log[General] = [i \in 1..Backlog |-> i] /\ \A h \in Channels \ {General} : log[h] = <<>>
      /\ log = [h \in Channels |-> log[h]]
  BY <1>1 DEF Init
<1>3. Range(log[General]) = 1..Backlog /\ \A h \in Channels \ {General} : Range(log[h]) = {}
  BY <1>2 DEF Range
<1>4. Sent = Messages /\ Count = Backlog
  <2>1. Sent = 1..Backlog
    <3>1. 1..Backlog \subseteq 1..MaxMessages
      BY <1>1
    <3>2. \A k : (\E h \in Channels : k \in Range(log[h])) <=> k \in 1..Backlog
      BY <1>1, <1>3
    <3> QED BY <3>1, <3>2 DEF Sent
  <2>2. Cardinality(1..Backlog) = Backlog
    BY <1>1, FS_Interval
  <2> QED BY <2>1, <2>2 DEF Messages, Count
<1>5. /\ log \in [Channels -> Seq(Messages)]
      /\ \A h \in Channels : \A i, j \in 1..Len(log[h]) : i < j => log[h][i] < log[h][j]
  <2>1. log[General] \in Seq(Messages) /\ Len(log[General]) = Backlog
    BY <1>1, <1>2, <1>4 DEF Messages
  <2>2. \A h \in Channels : log[h] \in Seq(Messages)
    <3>1. <<>> \in Seq(Messages)
      OBVIOUS
    <3> QED BY <1>2, <2>1, <3>1
  <2>3. ASSUME NEW h \in Channels, NEW i \in 1..Len(log[h]), NEW j \in 1..Len(log[h]), i < j
        PROVE  log[h][i] < log[h][j]
    BY <1>1, <1>2, <2>1, <2>3
  <2> QED BY <1>2, <2>2, <2>3
<1>6. LogOK
  <2>1. \A s \in Senders : sender[s] \in Sending(Messages) /\ sender[s].pc = "idle"
    BY DEF Init, Sending
  <2>2. sender \in [Senders -> Sending(Messages)]
    BY <2>1 DEF Init
  <2> QED BY <1>1, <1>4, <1>5, <2>1, <2>2 DEF LogOK
<1>7. CacheType /\ Cached
  BY EmptyCache DEF Init, CacheType, Cached
<1>8. trail = <<>> /\ Len(trail) = 0 /\ trail \in Seq(Channels) /\ visit = 0
  BY DEF Init, visit
<1>9. hook \in Hooks(Messages) /\ hook.pc = "none" /\ hook.connection = "idle" /\ ~hook.initialFetched
  BY DEF Init, NoHook, Hooks
<1>10. PageType /\ ServerType
  <2>1. visit <= MaxVisits /\ 0 \in 0..visit
    BY <1>1, <1>8
  <2>2. wire = <<>> /\ wire \in Seq(Messages)
    BY DEF Init
  <2>3. PageType
    BY <1>8, <1>9, <2>1, <2>2 DEF Init, PageType
  <2>4. ServerType
    BY <2>1 DEF Init, ServerType
  <2> QED BY <2>3, <2>4
<1>11. Visited /\ Streamed /\ Buffered /\ Calm
  BY <1>8, <1>9 DEF Init, Visited, Streamed, Buffered, Calm
<1> QED BY <1>6, <1>7, <1>10, <1>11 DEF PInv, Types

LEMMA PInvStep == IInv /\ PInv /\ [Next]_vars => PInv'
<1> SUFFICES ASSUME IInv, PInv, [Next]_vars PROVE PInv'
  OBVIOUS
<1>1. LogOK'
  BY LogStep DEF PInv, Types
<1> QED BY <1>1, CacheStep, PageStep, ServerStep, BufferedStep, CalmStep DEF PInv, Types

\* The hook, its cache, its requests and the server's handlers keep the values
\* the code gives them, whatever is answered late or served twice: above all the
\* page, its buffer and its stream hold nothing but messages that were sent.
THEOREM TypeCorrect == Spec => []TypeOK
<1>1. IInv /\ [Next]_vars => IInv'
  BY SessionStep, FetchStep DEF IInv
<1>2. PInv => TypeOK
  <2> SUFFICES ASSUME PInv PROVE TypeOK
    OBVIOUS
  <2>1. Sent = Messages
    BY LogFacts DEF PInv, Types
  <2>2. \A h \in Channels : data[h] \in Histories(Messages) /\ fetch[h] \in Requests(Messages)
    BY DEF PInv, Types, CacheType
  <2>3. \A h \in Channels :
           /\ data[h].msgs \subseteq Messages
           /\ fetch[h].pc \in {"idle", "asked", "read", "failed"} /\ fetch[h].failures \in 0..Retries
    BY <2>2 DEF Histories, Requests
  <2>4. /\ hook.pc \in {"none", "joining", "joined", "streaming", "ended"}
        /\ hook.connection \in {"idle", "joining", "connected", "disconnected"}
        /\ hook.pendingLive \subseteq Messages
    BY DEF PInv, Types, PageType, Hooks
  <2> QED BY <2>1, <2>3, <2>4 DEF PInv, Types, PageType, ServerType, TypeOK
<1> QED BY <1>1, <1>2, InitIInv, InitPInv, PInvStep, PTL DEF Spec

\* The page of a calm visit misses nothing, however the join, the stream, the
\* history's pages, the senders and the drain effect interleave: from its oldest
\* message on, whatever the channel has is shown, on its way or about to be
\* published.
THEOREM CalmIsCompleteCorrect == Spec => []CalmIsComplete
<1>1. IInv /\ [Next]_vars => IInv'
  BY SessionStep, FetchStep DEF IInv
<1>2. PInv => CalmIsComplete
  <2> SUFFICES ASSUME PInv, here # None, Settled, calm,
                      NEW m \in Range(log[here]), m >= data[here].cursor
               PROVE  m \in data[here].msgs \cup Range(wire) \cup {sender[s].id : s \in Senders}
    BY DEF CalmIsComplete
  <2>1. auth = "connected" /\ Listening /\ hook.seen
    BY DEF Settled, PInv, Visited
  <2>2. hook.initialFetched /\ data[here].loaded /\ hook.pendingLive = {}
    BY <2>1 DEF PInv, Calm, Buffered
  <2>3. Reaches(m)
    BY <2>1, <2>2 DEF PInv, Calm, HasRead, Due
  <2> QED BY <2>2, <2>3 DEF Reaches
<1> QED BY <1>1, <1>2, InitIInv, InitPInv, PInvStep, PTL DEF Spec
=============================================================================
