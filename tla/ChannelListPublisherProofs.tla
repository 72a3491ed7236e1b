--------------------- MODULE ChannelListPublisherProofs ---------------------
(***************************************************************************)
(* The live channel list for any number of channels, clients, pages and    *)
(* threads: no page misses a channel, publisher, wire and store implement  *)
(* ChannelDirectory, and what a quiet page shows is the repository's.      *)
(***************************************************************************)
EXTENDS ChannelListPublisher, FiniteSetTheorems, TLAPS

-----------------------------------------------------------------------------
(* The inductive invariant.                                                *)

Countings == UNION {[D -> Nat] : D \in SUBSET Channels}

Events == [kind : {"snapshot", "created", "changed"}, counts : Countings]

Work == [pc : {"idle", "edit", "recount", "lookup", "write"}, channel : Channels,
         copy : SUBSET Clients, event : Events \cup {<<>>}, targets : SUBSET Streams]

Repository ==
    /\ General \in DOMAIN members /\ DOMAIN members \subseteq Channels
    /\ \A h \in DOMAIN members : members[h] \subseteq Clients

Publisher ==
    /\ writers \subseteq Streams
    /\ mutex \in Streams \cup {None}
    /\ handler \in [Streams -> {"none", "called", "listed", "open", "returned"}]
    /\ listed \in [Streams -> Countings]

Pages ==
    /\ hook \in [Streams -> {"unmounted", "live", "failed", "gone"}]
    /\ wire \in [Streams -> Seq(Events)]
    /\ store \in [Streams -> Countings]

Types == Repository /\ Publisher /\ Pages /\ worker \in [Workers -> Work]

History == edits \in 0..MaxEdits /\ overlap \in BOOLEAN

\* A registration holds mutex_ from its entry to its snapshot, and nothing
\* reaches a page before the snapshot or after the page has gone.
Registered ==
    \A s \in Streams :
       /\ mutex = s <=> handler[s] = "listed"
       /\ s \in writers <=> handler[s] \in {"listed", "open"}
       /\ hook[s] = "unmounted" <=> handler[s] = "none"
       /\ handler[s] \in {"none", "called", "listed"} => wire[s] = <<>> /\ DOMAIN store[s] = {}
       /\ hook[s] # "live" => wire[s] = <<>>

\* A publication tells of channels that exist, to streams that have had their
\* snapshot.
WorkOK(w) ==
    /\ w.pc # "idle" => w.channel \in DOMAIN members
    /\ w.pc \in {"lookup", "write"} =>
          /\ w.event \in Events /\ w.event.kind \in {"created", "changed"}
          /\ DOMAIN w.event.counts \subseteq DOMAIN members
    /\ w.pc = "write" => \A s \in w.targets : handler[s] \in {"open", "returned"}

Working == \A t \in Workers : WorkOK(worker[t])

\* A snapshot can only be the first event, and then the store is still empty.
WireOK(q, shown, existing) ==
    /\ q \in Seq(Events)
    /\ \A i \in 1..Len(q) :
          /\ DOMAIN q[i].counts \subseteq existing
          /\ q[i].kind = "snapshot" => i = 1 /\ shown = {}

Wires ==
    \A s \in Streams :
       /\ WireOK(wire[s], DOMAIN store[s], DOMAIN members)
       /\ DOMAIN store[s] \subseteq DOMAIN members
       /\ DOMAIN listed[s] \subseteq DOMAIN members

Told(q, h) == \E i \in 1..Len(q) : Tells(q[i], h)

Pending(t, h) == worker[t].pc = "lookup" /\ Tells(worker[t].event, h)

\* NoChannelMissed, and what it takes while a registration is under way: the
\* channels it did not find are told by threads that wait for mutex_.
ListedCovers(s, h) == h \in DOMAIN listed[s] \/ \E t \in Workers : Pending(t, h)

PageCovers(s, h) ==
    h \in DOMAIN store[s] \/ Told(wire[s], h) \/ \E t \in Workers : Owes(t, s, h)

Covered ==
    \A s \in Streams : \A h \in DOMAIN members :
       /\ handler[s] = "listed" => ListedCovers(s, h)
       /\ Subscribed(s) => PageCovers(s, h)

IInv == Types /\ Registered /\ Working /\ Wires /\ Covered

-----------------------------------------------------------------------------
(* Counts and wires.                                                       *)

LEMMA CountingsIntro ==
    ASSUME NEW D \in SUBSET Channels, NEW f \in [D -> Nat]
    PROVE  f \in Countings
BY DEF Countings

LEMMA CountingsElim ==
    ASSUME NEW f \in Countings
    PROVE  DOMAIN f \subseteq Channels /\ f \in [DOMAIN f -> Nat]
<1>1. PICK D \in SUBSET Channels : f \in [D -> Nat]
  BY DEF Countings
<1> QED BY <1>1

LEMMA EmptyCounts == Empty \in Countings /\ DOMAIN Empty = {}
<1>1. Empty \in [{} -> Nat] /\ DOMAIN Empty = {}
  BY DEF Empty
<1> QED BY <1>1, CountingsIntro

LEMMA OneCount ==
    ASSUME NEW h \in Channels, NEW n \in Nat
    PROVE  [x \in {h} |-> n] \in Countings /\ DOMAIN [x \in {h} |-> n] = {h}
<1>1. [x \in {h} |-> n] \in [{h} -> Nat] /\ {h} \in SUBSET Channels
  OBVIOUS
<1> QED BY <1>1, CountingsIntro

LEMMA ClientsCount ==
    ASSUME NEW S \in SUBSET Clients
    PROVE  Cardinality(S) \in Nat
BY ListAssumption, FS_Subset, FS_CardinalityType

LEMMA EventIntro ==
    ASSUME NEW k \in {"snapshot", "created", "changed"}, NEW f \in Countings
    PROVE  Event(k, f) \in Events /\ Event(k, f).kind = k /\ Event(k, f).counts = f
BY DEF Event, Events

LEMMA SummariesFacts ==
    ASSUME Repository
    PROVE  Summaries \in Countings /\ DOMAIN Summaries = DOMAIN members
<1>1. \A h \in DOMAIN members : Cardinality(members[h]) \in Nat
  BY ClientsCount DEF Repository
<1>2. Summaries \in [DOMAIN members -> Nat] /\ DOMAIN Summaries = DOMAIN members
  BY <1>1 DEF Summaries
<1> QED BY <1>2, CountingsIntro DEF Repository

\* processChannelListEvent yields counts; their channels are those of the event,
\* added to the store's unless the event is a snapshot, and dropped if the event
\* only changes a count.
LEMMA ApplyFacts ==
    ASSUME NEW f \in Countings, NEW e \in Events
    PROVE  /\ Apply(f, e) \in Countings
           /\ e.kind = "snapshot" => DOMAIN Apply(f, e) = DOMAIN e.counts
           /\ e.kind = "created" => DOMAIN Apply(f, e) = DOMAIN f \cup DOMAIN e.counts
           /\ e.kind = "changed" => DOMAIN Apply(f, e) = DOMAIN f
<1>1. e.kind \in {"snapshot", "created", "changed"} /\ e.counts \in Countings
  BY DEF Events
<1>2. /\ DOMAIN f \subseteq Channels /\ f \in [DOMAIN f -> Nat]
      /\ DOMAIN e.counts \subseteq Channels /\ e.counts \in [DOMAIN e.counts -> Nat]
  BY <1>1, CountingsElim
<1>3. CASE e.kind = "snapshot"
  <2>1. Apply(f, e) = e.counts
    BY <1>3 DEF Apply
  <2> QED BY <2>1, <1>1, <1>3
<1>4. CASE e.kind = "created"
  <2> DEFINE D == DOMAIN f \cup DOMAIN e.counts
  <2>1. Apply(f, e) = applyCreated(f, e.counts)
    BY <1>4 DEF Apply
  <2>2. applyCreated(f, e.counts) \in [D -> Nat]
    BY <1>2 DEF applyCreated
  <2>3. D \in SUBSET Channels
    BY <1>2
  <2> QED BY <2>1, <2>2, <2>3, <1>4, CountingsIntro
<1>5. CASE e.kind = "changed"
  <2>1. Apply(f, e) = applyMemberCountChanged(f, e.counts)
    BY <1>5 DEF Apply
  <2>2. applyMemberCountChanged(f, e.counts) \in [DOMAIN f -> Nat]
    BY <1>2 DEF applyMemberCountChanged
  <2> QED BY <2>1, <2>2, <1>2, <1>5, CountingsIntro
<1> QED BY <1>1, <1>3, <1>4, <1>5

LEMMA WireEmpty ==
    ASSUME NEW shown, NEW existing
    PROVE  WireOK(<<>>, shown, existing)
BY DEF WireOK

LEMMA WireAppend ==
    ASSUME NEW q, NEW shown, NEW existing, WireOK(q, shown, existing), NEW e \in Events,
           DOMAIN e.counts \subseteq existing, e.kind = "snapshot" => q = <<>> /\ shown = {}
    PROVE  WireOK(Append(q, e), shown, existing)
<1>1. q \in Seq(Events) /\ Len(q) \in Nat
  BY DEF WireOK
<1>2. /\ Append(q, e) \in Seq(Events) /\ Len(Append(q, e)) = Len(q) + 1
      /\ \A i \in 1..Len(q) : Append(q, e)[i] = q[i]
      /\ Append(q, e)[Len(q) + 1] = e
  BY <1>1
<1>3. ASSUME NEW i \in 1..(Len(q) + 1)
      PROVE  /\ DOMAIN Append(q, e)[i].counts \subseteq existing
             /\ Append(q, e)[i].kind = "snapshot" => i = 1 /\ shown = {}
  <2>1. CASE i \in 1..Len(q)
    BY <2>1, <1>2 DEF WireOK
  <2>2. CASE i = Len(q) + 1
    <3>1. Append(q, e)[i] = e
      BY <2>2, <1>2
    <3>2. q = <<>> => Len(q) = 0
      OBVIOUS
    <3> QED BY <3>1, <3>2, <2>2
  <2> QED BY <2>1, <2>2, <1>1
<1> QED BY <1>2, <1>3 DEF WireOK

LEMMA WireTail ==
    ASSUME NEW q, NEW shown, NEW existing, WireOK(q, shown, existing), q # <<>>, NEW more
    PROVE  WireOK(Tail(q), more, existing)
<1>1. q \in Seq(Events) /\ Len(q) \in Nat /\ Len(q) # 0
  BY DEF WireOK
<1>2. /\ Tail(q) \in Seq(Events) /\ Len(Tail(q)) = Len(q) - 1
      /\ \A i \in 1..(Len(q) - 1) : Tail(q)[i] = q[i + 1]
  BY <1>1
<1>3. ASSUME NEW i \in 1..(Len(q) - 1)
      PROVE  /\ DOMAIN Tail(q)[i].counts \subseteq existing
             /\ Tail(q)[i].kind # "snapshot"
  <2>1. i + 1 \in 1..Len(q) /\ i + 1 # 1
    BY <1>1
  <2>2. Tail(q)[i] = q[i + 1]
    BY <1>2
  <2> QED BY <2>1, <2>2 DEF WireOK
<1> QED BY <1>2, <1>3 DEF WireOK

LEMMA WireHead ==
    ASSUME NEW q, NEW shown, NEW existing, WireOK(q, shown, existing), q # <<>>
    PROVE  /\ Head(q) \in Events /\ DOMAIN Head(q).counts \subseteq existing
           /\ Head(q).kind = "snapshot" => shown = {}
<1>1. q \in Seq(Events) /\ Len(q) \in Nat /\ Len(q) # 0
  BY DEF WireOK
<1>2. 1 \in 1..Len(q) /\ Head(q) = q[1] /\ q[1] \in Events
  BY <1>1
<1> QED BY <1>2 DEF WireOK

LEMMA WireGrows ==
    ASSUME NEW q, NEW shown, NEW existing, WireOK(q, shown, existing),
           NEW more, existing \subseteq more
    PROVE  WireOK(q, shown, more)
BY DEF WireOK

LEMMA ToldAppend ==
    ASSUME NEW q \in Seq(Events), NEW e \in Events, NEW h, Told(q, h) \/ Tells(e, h)
    PROVE  Told(Append(q, e), h)
<1>1. /\ Len(q) \in Nat /\ Len(Append(q, e)) = Len(q) + 1
      /\ \A i \in 1..Len(q) : Append(q, e)[i] = q[i]
      /\ Append(q, e)[Len(q) + 1] = e
  OBVIOUS
<1>2. CASE Tells(e, h)
  BY <1>1, <1>2 DEF Told
<1>3. CASE Told(q, h)
  <2>1. PICK i \in 1..Len(q) : Tells(q[i], h)
    BY <1>3 DEF Told
  <2>2. i \in 1..(Len(q) + 1) /\ Append(q, e)[i] = q[i]
    BY <1>1
  <2> QED BY <2>1, <2>2, <1>1 DEF Told
<1> QED BY <1>2, <1>3

LEMMA ToldTail ==
    ASSUME NEW q \in Seq(Events), q # <<>>, NEW h, Told(q, h)
    PROVE  Told(Tail(q), h) \/ Tells(Head(q), h)
<1>1. PICK i \in 1..Len(q) : Tells(q[i], h)
  BY DEF Told
<1>2. CASE i = 1
  BY <1>1, <1>2
<1>3. CASE i # 1
  <2>1. /\ Len(Tail(q)) = Len(q) - 1 /\ i - 1 \in 1..(Len(q) - 1)
        /\ Tail(q)[i - 1] = q[(i - 1) + 1] /\ (i - 1) + 1 = i
    BY <1>3
  <2> QED BY <1>1, <2>1 DEF Told
<1> QED BY <1>2, <1>3

-----------------------------------------------------------------------------
(* The use cases' steps before a publication: thread t alone moves on, and  *)
(* no channel is created.                                                   *)

LEMMA EditKeeps ==
    ASSUME IInv, NEW t \in Workers, NEW w \in Work,
           worker[t].pc \in {"idle", "edit", "recount"}, worker' = [worker EXCEPT ![t] = w],
           w.pc # "write", WorkOK(w), Repository', DOMAIN members' = DOMAIN members,
           UNCHANGED <<writers, mutex, handler, listed, wire, hook, store>>
    PROVE  IInv'
<1>1. Types'
  BY DEF IInv, Types, Publisher, Pages
<1>2. Registered'
  BY DEF IInv, Registered
<1>3. /\ worker'[t] = w
      /\ \A u \in Workers \ {t} : worker'[u] = worker[u]
  BY DEF IInv, Types
<1>4. Working'
  BY <1>3 DEF IInv, Working, WorkOK
<1>5. Wires'
  BY DEF IInv, Wires
<1>6. Covered'
  <2> SUFFICES ASSUME NEW s \in Streams, NEW h \in DOMAIN members
               PROVE  /\ handler[s] = "listed" => ListedCovers(s, h)'
                      /\ Subscribed(s) => PageCovers(s, h)'
    BY DEF Covered, Subscribed
  <2>1. ASSUME NEW u \in Workers, Pending(u, h)
        PROVE  Pending(u, h)'
    BY <1>3, <2>1 DEF Pending
  <2>2. ASSUME NEW u \in Workers, Owes(u, s, h)
        PROVE  Owes(u, s, h)'
    BY <1>3, <2>2 DEF Owes
  <2>3. ListedCovers(s, h) => ListedCovers(s, h)'
    BY <2>1 DEF ListedCovers
  <2>4. PageCovers(s, h) => PageCovers(s, h)'
    BY <2>2 DEF PageCovers
  <2> QED BY <2>3, <2>4 DEF IInv, Covered
<1> QED BY <1>1, <1>2, <1>4, <1>5, <1>6 DEF IInv

LEMMA IdleWork == Idle \in Work /\ Idle.pc = "idle"
BY ListAssumption DEF Idle, Work

\* What the thread that moves knows of its own state.
LEMMA WorkerFacts ==
    ASSUME IInv, NEW t \in Workers
    PROVE  /\ worker[t] \in Work /\ WorkOK(worker[t]) /\ worker[t].channel \in Channels
           /\ worker[t].copy \in SUBSET Clients
BY DEF IInv, Types, Working, Work

\* A saved copy leaves a repository with the same channels.
LEMMA SaveKeeps ==
    ASSUME IInv, NEW t \in Workers, NEW edited \in SUBSET Clients, SaveCopy(t, edited)
    PROVE  Repository' /\ DOMAIN members' = DOMAIN members
BY DEF IInv, Types, Repository, SaveCopy

LEMMA ChangedFacts ==
    ASSUME IInv, NEW t \in Workers, NEW edited \in SUBSET Clients, worker[t].pc # "idle"
    PROVE  /\ Changed(t, edited) \in Events /\ Changed(t, edited).kind = "changed"
           /\ DOMAIN Changed(t, edited).counts \subseteq DOMAIN members
<1> DEFINE f == [x \in {worker[t].channel} |-> Cardinality(edited)]
<1>1. worker[t].channel \in Channels /\ worker[t].channel \in DOMAIN members
  BY WorkerFacts DEF WorkOK
<1>2. f \in Countings /\ DOMAIN f = {worker[t].channel}
  BY <1>1, ClientsCount, OneCount
<1>3. Changed(t, edited) = Event("changed", f)
  BY DEF Changed
<1> HIDE DEF f
<1> QED BY <1>1, <1>2, <1>3, EventIntro

LEMMA ReadCopyKeeps ==
    ASSUME IInv, NEW t \in Workers, NEW h \in Channels, ReadCopy(t, h)
    PROVE  IInv'
<1> DEFINE w == [Idle EXCEPT !.pc = "edit", !.channel = h, !.copy = members[h]]
<1>1. members[h] \in SUBSET Clients
  BY DEF IInv, Types, Repository, ReadCopy
<1>2. w \in Work /\ w.pc = "edit" /\ w.channel = h
  BY <1>1, IdleWork DEF Work, Idle
<1>3. worker' = [worker EXCEPT ![t] = w] /\ worker[t].pc = "idle" /\ h \in DOMAIN members
  BY DEF ReadCopy, Put
<1> HIDE DEF w
<1>4. WorkOK(w)
  BY <1>2, <1>3 DEF WorkOK
<1>5. Repository' /\ DOMAIN members' = DOMAIN members
  BY DEF IInv, Types, Repository, ReadCopy
<1> QED BY <1>2, <1>3, <1>4, <1>5, EditKeeps DEF ReadCopy

LEMMA AddMemberKeeps ==
    ASSUME IInv, NEW t \in Workers, NEW c \in Clients, AddMember(t, c)
    PROVE  IInv'
<1> DEFINE edited == worker[t].copy \cup {c}
<1> DEFINE e == Changed(t, edited)
<1> DEFINE w == [worker[t] EXCEPT !.pc = "lookup", !.copy = {}, !.event = e]
<1>1. edited \in SUBSET Clients /\ worker[t].pc = "edit"
  BY WorkerFacts DEF AddMember
<1>2. e \in Events /\ e.kind = "changed" /\ DOMAIN e.counts \subseteq DOMAIN members
  BY <1>1, ChangedFacts
<1>3. worker' = [worker EXCEPT ![t] = w]
  BY DEF AddMember, Put
<1>4. Repository' /\ DOMAIN members' = DOMAIN members
  BY <1>1, SaveKeeps DEF AddMember
<1> HIDE DEF e
<1>5. w \in Work /\ w.pc = "lookup" /\ w.channel = worker[t].channel /\ w.event = e
  BY <1>2, WorkerFacts DEF Work
<1> HIDE DEF w
<1>6. WorkOK(w)
  BY <1>1, <1>2, <1>5, WorkerFacts DEF WorkOK
<1> QED BY <1>1, <1>3, <1>4, <1>5, <1>6, EditKeeps DEF AddMember

LEMMA RemoveMemberKeeps ==
    ASSUME IInv, NEW t \in Workers, NEW c \in Clients, RemoveMember(t, c) \/ PassOver(t, c)
    PROVE  IInv'
<1> DEFINE w == [worker[t] EXCEPT !.pc = "recount", !.copy = {}]
<1>1. worker[t].copy \ {c} \in SUBSET Clients /\ worker[t].pc = "edit"
  BY WorkerFacts DEF RemoveMember, PassOver
<1>2. worker' = [worker EXCEPT ![t] = w]
  BY DEF RemoveMember, PassOver, Put
<1>3. Repository' /\ DOMAIN members' = DOMAIN members
  BY <1>1, SaveKeeps DEF RemoveMember, PassOver, IInv, Types, Repository
<1>4. w \in Work /\ w.pc = "recount" /\ w.channel = worker[t].channel
  BY WorkerFacts DEF Work
<1> HIDE DEF w
<1>5. WorkOK(w)
  BY <1>1, <1>4, WorkerFacts DEF WorkOK
<1> QED BY <1>1, <1>2, <1>3, <1>4, <1>5, EditKeeps DEF RemoveMember, PassOver

LEMMA RecountKeeps ==
    ASSUME IInv, NEW t \in Workers, Recount(t)
    PROVE  IInv'
<1> DEFINE e == Changed(t, members[worker[t].channel])
<1> DEFINE w == [worker[t] EXCEPT !.pc = "lookup", !.event = e]
<1>1. worker[t].pc = "recount" /\ worker' = [worker EXCEPT ![t] = w]
  BY DEF Recount, Put
<1>2. members[worker[t].channel] \in SUBSET Clients
  BY <1>1, WorkerFacts DEF WorkOK, IInv, Types, Repository
<1>3. e \in Events /\ e.kind = "changed" /\ DOMAIN e.counts \subseteq DOMAIN members
  BY <1>1, <1>2, ChangedFacts
<1> HIDE DEF e
<1>4. w \in Work /\ w.pc = "lookup" /\ w.channel = worker[t].channel /\ w.event = e
  BY <1>3, WorkerFacts DEF Work
<1> HIDE DEF w
<1>5. WorkOK(w)
  BY <1>1, <1>3, <1>4, WorkerFacts DEF WorkOK
<1>6. Repository' /\ DOMAIN members' = DOMAIN members
  BY DEF IInv, Types, Repository, Recount
<1> QED BY <1>1, <1>4, <1>5, <1>6, EditKeeps DEF Recount

\* NoEdit and ExpireMember end the use case.
LEMMA EndKeeps ==
    ASSUME IInv, NEW t \in Workers, NEW c \in Clients, NoEdit(t, c) \/ ExpireMember(t, c)
    PROVE  IInv'
<1>1. worker[t].copy \ {c} \in SUBSET Clients /\ worker[t].pc = "edit"
  BY WorkerFacts DEF NoEdit, ExpireMember
<1>2. worker' = [worker EXCEPT ![t] = Idle]
  BY DEF NoEdit, ExpireMember, Put
<1>3. Repository' /\ DOMAIN members' = DOMAIN members
  BY <1>1, SaveKeeps DEF NoEdit, ExpireMember, IInv, Types, Repository
<1>4. WorkOK(Idle)
  BY IdleWork DEF WorkOK
<1> QED BY <1>1, <1>2, <1>3, <1>4, IdleWork, EditKeeps DEF NoEdit, ExpireMember

-----------------------------------------------------------------------------
(* A creation and its publication.                                         *)

LEMMA CreateKeeps ==
    ASSUME IInv, NEW t \in Workers, NEW h \in Channels, Create(t, h)
    PROVE  IInv'
<1> DEFINE e == Event("created", [x \in {h} |-> 0])
<1> DEFINE w == [Idle EXCEPT !.pc = "lookup", !.channel = h, !.event = e]
<1>1. /\ DOMAIN members' = DOMAIN members \cup {h}
      /\ worker[t].pc = "idle" /\ worker' = [worker EXCEPT ![t] = w]
      /\ UNCHANGED <<writers, mutex, handler, listed, wire, hook, store>>
  BY DEF Create, Put
<1>2. Repository'
  BY <1>1 DEF Create, IInv, Types, Repository
<1>3. e \in Events /\ e.kind = "created" /\ DOMAIN e.counts = {h}
  <2>1. [x \in {h} |-> 0] \in Countings /\ DOMAIN [x \in {h} |-> 0] = {h}
    BY OneCount
  <2> QED BY <2>1, EventIntro
<1>4. Tells(e, h)
  BY <1>3 DEF Tells
<1> HIDE DEF e
<1>5. w \in Work /\ w.pc = "lookup" /\ w.channel = h /\ w.event = e
  BY <1>3, IdleWork DEF Work, Idle
<1> HIDE DEF w
<1>6. Types'
  BY <1>1, <1>2, <1>5 DEF IInv, Types, Publisher, Pages
<1>7. Registered'
  BY <1>1 DEF IInv, Registered
<1>8. /\ worker'[t] = w
      /\ \A u \in Workers \ {t} : worker'[u] = worker[u]
  BY <1>1 DEF IInv, Types
<1>9. Working'
  BY <1>1, <1>3, <1>5, <1>8 DEF IInv, Working, WorkOK
<1>10. Wires'
  BY <1>1, WireGrows DEF IInv, Wires
<1>11. Covered'
  <2> SUFFICES ASSUME NEW s \in Streams, NEW g \in DOMAIN members \cup {h}
               PROVE  /\ handler[s] = "listed" => ListedCovers(s, g)'
                      /\ Subscribed(s) => PageCovers(s, g)'
    BY <1>1 DEF Covered, Subscribed
  <2>1. CASE g = h
    BY <2>1, <1>4, <1>5, <1>8 DEF ListedCovers, PageCovers, Pending, Owes
  <2>2. CASE g \in DOMAIN members
    <3>1. ASSUME NEW u \in Workers, Pending(u, g)
          PROVE  Pending(u, g)'
      BY <1>1, <1>8, <3>1 DEF Pending
    <3>2. ASSUME NEW u \in Workers, Owes(u, s, g)
          PROVE  Owes(u, s, g)'
      BY <1>1, <1>8, <3>2 DEF Owes
    <3>3. ListedCovers(s, g) => ListedCovers(s, g)'
      BY <1>1, <3>1 DEF ListedCovers
    <3>4. PageCovers(s, g) => PageCovers(s, g)'
      BY <1>1, <3>2 DEF PageCovers
    <3> QED BY <2>2, <3>3, <3>4 DEF IInv, Covered
  <2> QED BY <2>1, <2>2
<1> QED BY <1>6, <1>7, <1>9, <1>10, <1>11 DEF IInv

\* WriteTo leaves a thread idle or with targets to write its event to.
LEMMA WriteToFacts ==
    ASSUME IInv, NEW t \in Workers, worker[t].pc \in {"lookup", "write"}, NEW T \in SUBSET Streams
    PROVE  /\ WriteTo(t, T) \in Work
           /\ T # {} => /\ WriteTo(t, T).pc = "write" /\ WriteTo(t, T).targets = T
                        /\ WriteTo(t, T).event = worker[t].event
                        /\ WriteTo(t, T).channel = worker[t].channel
           /\ T = {} => WriteTo(t, T).pc = "idle"
BY WorkerFacts, IdleWork DEF WriteTo, Work

LEMMA LookupKeeps ==
    ASSUME IInv, NEW t \in Workers, Lookup(t)
    PROVE  IInv'
<1> DEFINE w == WriteTo(t, writers)
<1>1. /\ worker[t].pc = "lookup" /\ mutex = None /\ worker' = [worker EXCEPT ![t] = w]
      /\ UNCHANGED <<members, writers, mutex, handler, listed, wire, hook, store>>
  BY DEF Lookup, Put
<1>2. writers \in SUBSET Streams
  BY DEF IInv, Types, Publisher
<1>3. /\ w \in Work
      /\ writers # {} => /\ w.pc = "write" /\ w.targets = writers
                         /\ w.event = worker[t].event /\ w.channel = worker[t].channel
      /\ writers = {} => w.pc = "idle"
  BY <1>1, <1>2, WriteToFacts
<1> HIDE DEF w
<1>4. Types'
  BY <1>1, <1>3 DEF IInv, Types, Repository, Publisher, Pages
<1>5. Registered'
  BY <1>1 DEF IInv, Registered
<1>6. /\ worker'[t] = w
      /\ \A u \in Workers \ {t} : worker'[u] = worker[u]
  BY <1>1 DEF IInv, Types
<1>7. \A s \in Streams : handler[s] # "listed" /\ (s \in writers <=> handler[s] = "open")
  BY <1>1, ListAssumption DEF IInv, Registered
<1>8. WorkOK(w)
  <2>1. CASE writers = {}
    BY <2>1, <1>3 DEF WorkOK
  <2>2. CASE writers # {}
    BY <2>2, <1>1, <1>2, <1>3, <1>7, WorkerFacts DEF WorkOK
  <2> QED BY <2>1, <2>2
<1>9. Working'
  BY <1>1, <1>6, <1>8 DEF IInv, Working, WorkOK
<1>10. Wires'
  BY <1>1 DEF IInv, Wires
<1>11. Covered'
  <2> SUFFICES ASSUME NEW s \in Streams, NEW h \in DOMAIN members, Subscribed(s)
               PROVE  PageCovers(s, h)'
    BY <1>1, <1>7 DEF Covered, Subscribed
  <2>1. s \in writers
    BY <1>7 DEF Subscribed
  <2>2. ASSUME NEW u \in Workers, Owes(u, s, h)
        PROVE  Owes(u, s, h)'
    BY <2>1, <2>2, <1>3, <1>6 DEF Owes
  <2> QED BY <2>2, <1>1 DEF IInv, Covered, PageCovers
<1> QED BY <1>4, <1>5, <1>9, <1>10, <1>11 DEF IInv

\* Written appends to one wire or to none.
LEMMA WrittenFacts ==
    ASSUME IInv, NEW s \in Streams, NEW e \in Events, wire' = Written(s, e)
    PROVE  /\ wire' \in [Streams -> Seq(Events)]
           /\ wire'[s] = IF hook[s] = "live" THEN Append(wire[s], e) ELSE wire[s]
           /\ \A r \in Streams \ {s} : wire'[r] = wire[r]
BY DEF IInv, Types, Pages, Written

LEMMA WriteEventKeeps ==
    ASSUME IInv, NEW t \in Workers, NEW s \in Streams, WriteEvent(t, s)
    PROVE  IInv'
<1> DEFINE T == worker[t].targets \ {s}
<1> DEFINE w == WriteTo(t, T)
<1> DEFINE e == worker[t].event
<1>1. /\ worker[t].pc = "write" /\ s \in worker[t].targets /\ worker' = [worker EXCEPT ![t] = w]
      /\ wire' = IF s \in writers THEN Written(s, e) ELSE wire
      /\ UNCHANGED <<members, writers, mutex, handler, listed, hook, store>>
  BY DEF WriteEvent, Put
<1>2. /\ e \in Events /\ e.kind # "snapshot" /\ DOMAIN e.counts \subseteq DOMAIN members
      /\ handler[s] \in {"open", "returned"}
  BY <1>1, WorkerFacts DEF WorkOK
<1>3. T \in SUBSET Streams
  BY WorkerFacts DEF Work
<1>4. /\ w \in Work
      /\ T # {} => w.pc = "write" /\ w.targets = T /\ w.event = e /\ w.channel = worker[t].channel
      /\ T = {} => w.pc = "idle"
  BY <1>1, <1>3, WriteToFacts
<1> HIDE DEF w
<1>5. /\ wire' \in [Streams -> Seq(Events)]
      /\ wire'[s] = IF s \in writers /\ hook[s] = "live" THEN Append(wire[s], e) ELSE wire[s]
      /\ \A r \in Streams \ {s} : wire'[r] = wire[r]
  <2> HIDE DEF e
  <2>1. CASE s \in writers
    BY <2>1, <1>1, <1>2, WrittenFacts
  <2>2. CASE s \notin writers
    BY <2>2, <1>1 DEF IInv, Types, Pages
  <2> QED BY <2>1, <2>2
<1>6. Types'
  BY <1>1, <1>4, <1>5 DEF IInv, Types, Repository, Publisher, Pages
<1>7. Registered'
  <2> SUFFICES ASSUME NEW r \in Streams
               PROVE  /\ handler[r] \in {"none", "called", "listed"} => wire'[r] = <<>>
                      /\ hook[r] # "live" => wire'[r] = <<>>
    BY <1>1 DEF IInv, Registered
  <2>1. CASE r = s
    BY <2>1, <1>2, <1>5 DEF IInv, Registered
  <2>2. CASE r # s
    BY <2>2, <1>5 DEF IInv, Registered
  <2> QED BY <2>1, <2>2
<1>8. /\ worker'[t] = w
      /\ \A u \in Workers \ {t} : worker'[u] = worker[u]
  BY <1>1 DEF IInv, Types
<1>9. WorkOK(w)
  BY <1>1, <1>4, WorkerFacts DEF WorkOK
<1>10. Working'
  BY <1>1, <1>8, <1>9 DEF IInv, Working, WorkOK
<1>11. Wires'
  <2> SUFFICES ASSUME NEW r \in Streams
               PROVE  WireOK(wire'[r], DOMAIN store[r], DOMAIN members)
    BY <1>1 DEF IInv, Wires
  <2>1. WireOK(wire[r], DOMAIN store[r], DOMAIN members)
    BY DEF IInv, Wires
  <2>2. WireOK(Append(wire[r], e), DOMAIN store[r], DOMAIN members)
    BY <2>1, <1>2, WireAppend
  <2> QED BY <2>1, <2>2, <1>5
<1>12. Covered'
  <2> SUFFICES ASSUME NEW r \in Streams, NEW h \in DOMAIN members
               PROVE  /\ handler[r] = "listed" => ListedCovers(r, h)'
                      /\ Subscribed(r) => PageCovers(r, h)'
    BY <1>1 DEF Covered, Subscribed
  <2>1. ASSUME NEW u \in Workers, Pending(u, h)
        PROVE  Pending(u, h)'
    BY <1>1, <1>8, <2>1 DEF Pending
  <2>2. ListedCovers(r, h) => ListedCovers(r, h)'
    BY <1>1, <2>1 DEF ListedCovers
  <2>3. ASSUME Subscribed(r), PageCovers(r, h)
        PROVE  PageCovers(r, h)'
    <3>1. wire[r] \in Seq(Events)
      BY DEF IInv, Types, Pages
    <3>2. CASE h \in DOMAIN store[r]
      BY <3>2, <1>1 DEF PageCovers
    <3>3. Told(wire[r], h) => Told(wire'[r], h)
      BY <3>1, <1>2, <1>5, ToldAppend
    <3>4. ASSUME NEW u \in Workers, Owes(u, r, h)
          PROVE  Told(wire'[r], h) \/ Owes(u, r, h)'
      <4>1. CASE u # t
        BY <4>1, <3>4, <1>8 DEF Owes
      <4>2. CASE u = t /\ r # s
        BY <4>2, <3>4, <1>1, <1>4, <1>8 DEF Owes
      <4>3. CASE u = t /\ r = s
        <5>1. s \in writers /\ hook[s] = "live"
          BY <4>3, <2>3 DEF Subscribed, IInv, Registered
        <5>2. Tells(e, h)
          BY <4>3, <3>4 DEF Owes
        <5> QED BY <5>1, <5>2, <4>3, <3>1, <1>2, <1>5, ToldAppend
      <4> QED BY <4>1, <4>2, <4>3
    <3>5. Told(wire'[r], h) => PageCovers(r, h)'
      BY DEF PageCovers
    <3> QED BY <2>3, <3>2, <3>3, <3>4, <3>5 DEF PageCovers
  <2> QED BY <2>2, <2>3 DEF IInv, Covered
<1> QED BY <1>6, <1>7, <1>10, <1>11, <1>12 DEF IInv

-----------------------------------------------------------------------------
(* The handler and the page.  No thread of the use cases moves.            *)

\* Whoever is told of a channel by a thread stays so.
LEMMA OwingKeeps ==
    ASSUME UNCHANGED worker, NEW s, NEW h, NEW t
    PROVE  (Owes(t, s, h) => Owes(t, s, h)') /\ (Pending(t, h) => Pending(t, h)')
BY DEF Owes, Pending

\* Threads that write keep to streams that have had their snapshot.
LEMMA WorkingKeeps ==
    ASSUME IInv, UNCHANGED <<members, worker>>,
           \A s \in Streams : handler[s] \in {"open", "returned"} => handler'[s] \in {"open", "returned"}
    PROVE  Working'
<1> SUFFICES ASSUME NEW t \in Workers
             PROVE  WorkOK(worker[t])'
  BY DEF Working
<1>1. WorkOK(worker[t]) /\ worker[t].targets \subseteq Streams
  BY DEF IInv, Working, Types, Work
<1> QED BY <1>1 DEF WorkOK

\* A handler that returns takes its stream out of Subscribed, and leaves the rest.
LEMMA ReturnKeeps ==
    ASSUME IInv, NEW s \in Streams, Refuse(s) \/ Unregister(s)
    PROVE  IInv'
<1>1. /\ handler[s] \in {"called", "open"} /\ handler' = [handler EXCEPT ![s] = "returned"]
      /\ writers' = writers \ {s}
      /\ UNCHANGED <<members, mutex, listed, wire, hook, store, worker>>
  BY DEF Refuse, Unregister, IInv, Registered
<1>2. /\ handler'[s] = "returned"
      /\ \A r \in Streams \ {s} : handler'[r] = handler[r]
  BY <1>1 DEF IInv, Types, Publisher
<1>3. Types'
  BY <1>1 DEF IInv, Types, Repository, Publisher, Pages
<1>4. Registered'
  BY <1>1, <1>2 DEF IInv, Registered
<1>5. Working'
  BY <1>1, <1>2, WorkingKeeps
<1>6. Wires'
  BY <1>1 DEF IInv, Wires
<1>7. Covered'
  <2> SUFFICES ASSUME NEW r \in Streams, NEW h \in DOMAIN members, r # s
               PROVE  /\ handler[r] = "listed" => ListedCovers(r, h)'
                      /\ Subscribed(r) => PageCovers(r, h)'
    BY <1>1, <1>2 DEF Covered, Subscribed
  <2> QED BY <1>1, OwingKeeps DEF IInv, Covered, ListedCovers, PageCovers
<1> QED BY <1>3, <1>4, <1>5, <1>6, <1>7 DEF IInv

LEMMA RegisterKeeps ==
    ASSUME IInv, NEW s \in Streams, Register(s)
    PROVE  IInv'
<1>1. /\ handler[s] = "called" /\ mutex = None /\ mutex' = s
      /\ handler' = [handler EXCEPT ![s] = "listed"] /\ listed' = [listed EXCEPT ![s] = Summaries]
      /\ writers' = writers \cup {s}
      /\ UNCHANGED <<members, wire, hook, store, worker>>
  BY DEF Register
<1>2. Summaries \in Countings /\ DOMAIN Summaries = DOMAIN members
  BY SummariesFacts DEF IInv, Types
<1>3. /\ handler'[s] = "listed" /\ listed'[s] = Summaries
      /\ \A r \in Streams \ {s} : handler'[r] = handler[r] /\ listed'[r] = listed[r]
  BY <1>1 DEF IInv, Types, Publisher
<1>4. Types'
  BY <1>1, <1>2 DEF IInv, Types, Repository, Publisher, Pages
<1>5. Registered'
  <2>1. \A r \in Streams : handler[r] # "listed"
    BY <1>1, ListAssumption DEF IInv, Registered
  <2> QED BY <2>1, <1>1, <1>3 DEF IInv, Registered
<1>6. Working'
  BY <1>1, <1>3, WorkingKeeps
<1>7. Wires'
  BY <1>1, <1>2, <1>3 DEF IInv, Wires
<1>8. Covered'
  <2> SUFFICES ASSUME NEW r \in Streams, NEW h \in DOMAIN members
               PROVE  /\ handler'[r] = "listed" => ListedCovers(r, h)'
                      /\ Subscribed(r)' => PageCovers(r, h)'
    BY <1>1 DEF Covered
  <2>1. CASE r = s
    BY <2>1, <1>2, <1>3 DEF ListedCovers, Subscribed
  <2>2. CASE r # s
    BY <2>2, <1>1, <1>3, OwingKeeps DEF IInv, Covered, ListedCovers, PageCovers, Subscribed
  <2> QED BY <2>1, <2>2
<1> QED BY <1>4, <1>5, <1>6, <1>7, <1>8 DEF IInv

LEMMA WriteSnapshotKeeps ==
    ASSUME IInv, NEW s \in Streams, WriteSnapshot(s)
    PROVE  IInv'
<1> DEFINE e == Event("snapshot", listed[s])
<1>1. /\ handler[s] = "listed" /\ mutex' = None /\ wire' = Written(s, e)
      /\ handler' = [handler EXCEPT ![s] = "open"] /\ listed' = [listed EXCEPT ![s] = Empty]
      /\ UNCHANGED <<members, writers, hook, store, worker>>
  BY DEF WriteSnapshot
<1>2. mutex = s /\ wire[s] = <<>> /\ DOMAIN store[s] = {} /\ s \in writers
  BY <1>1 DEF IInv, Registered
<1>3. e \in Events /\ e.kind = "snapshot" /\ e.counts = listed[s]
  BY EventIntro DEF IInv, Types, Publisher
<1> HIDE DEF e
<1>4. /\ wire' \in [Streams -> Seq(Events)]
      /\ wire'[s] = IF hook[s] = "live" THEN Append(wire[s], e) ELSE wire[s]
      /\ \A r \in Streams \ {s} : wire'[r] = wire[r]
  BY <1>1, <1>3, WrittenFacts
<1>5. /\ handler'[s] = "open" /\ listed'[s] = Empty
      /\ \A r \in Streams \ {s} : handler'[r] = handler[r] /\ listed'[r] = listed[r]
  BY <1>1 DEF IInv, Types, Publisher
<1>6. Types'
  BY <1>1, <1>4, EmptyCounts DEF IInv, Types, Repository, Publisher, Pages
<1>7. Registered'
  <2>1. \A r \in Streams \ {s} : handler[r] # "listed"
    BY <1>2 DEF IInv, Registered
  <2> SUFFICES ASSUME NEW r \in Streams
               PROVE  /\ mutex' = r <=> handler'[r] = "listed"
                      /\ r \in writers <=> handler'[r] \in {"listed", "open"}
                      /\ hook[r] = "unmounted" <=> handler'[r] = "none"
                      /\ handler'[r] \in {"none", "called", "listed"}
                            => wire'[r] = <<>> /\ DOMAIN store[r] = {}
                      /\ hook[r] # "live" => wire'[r] = <<>>
    BY <1>1 DEF Registered
  <2>2. CASE r = s
    BY <2>2, <1>1, <1>2, <1>4, <1>5, ListAssumption DEF IInv, Registered
  <2>3. CASE r # s
    BY <2>1, <2>3, <1>1, <1>4, <1>5, ListAssumption DEF IInv, Registered
  <2> QED BY <2>2, <2>3
<1>8. Working'
  BY <1>1, <1>5, WorkingKeeps
<1>9. Wires'
  <2> SUFFICES ASSUME NEW r \in Streams
               PROVE  /\ WireOK(wire'[r], DOMAIN store[r], DOMAIN members)
                      /\ DOMAIN listed'[r] \subseteq DOMAIN members
    BY <1>1 DEF IInv, Wires
  <2>1. /\ WireOK(wire[r], DOMAIN store[r], DOMAIN members)
        /\ DOMAIN listed[r] \subseteq DOMAIN members
    BY DEF IInv, Wires
  <2>2. CASE r = s
    <3>1. DOMAIN e.counts \subseteq DOMAIN members
      BY <2>1, <2>2, <1>3
    <3>2. WireOK(Append(wire[r], e), DOMAIN store[r], DOMAIN members)
      BY <3>1, <2>1, <2>2, <1>2, <1>3, WireAppend
    <3> QED BY <3>2, <2>1, <2>2, <1>4, <1>5, EmptyCounts
  <2>3. CASE r # s
    BY <2>1, <2>3, <1>4, <1>5
  <2> QED BY <2>2, <2>3
<1>10. Covered'
  <2> SUFFICES ASSUME NEW r \in Streams, NEW h \in DOMAIN members
               PROVE  /\ handler'[r] = "listed" => ListedCovers(r, h)'
                      /\ Subscribed(r)' => PageCovers(r, h)'
    BY <1>1 DEF Covered
  <2>1. CASE r = s
    <3>1. SUFFICES ASSUME hook[s] = "live"
                   PROVE  PageCovers(s, h)'
      BY <2>1, <1>1, <1>5 DEF Subscribed
    <3>2. CASE h \in DOMAIN listed[s]
      <4>1. Tells(e, h)
        BY <3>2, <1>3 DEF Tells
      <4>2. Told(wire'[s], h)
        BY <4>1, <3>1, <1>2, <1>3, <1>4, ToldAppend DEF IInv, Types, Pages
      <4> QED BY <4>2 DEF PageCovers
    <3>3. CASE h \notin DOMAIN listed[s]
      <4>1. PICK t \in Workers : Pending(t, h)
        BY <3>3, <1>1 DEF IInv, Covered, ListedCovers
      <4>2. Owes(t, s, h)
        BY <4>1 DEF Pending, Owes
      <4> QED BY <4>2, <1>1, OwingKeeps DEF PageCovers
    <3> QED BY <3>2, <3>3
  <2>2. CASE r # s
    BY <2>2, <1>1, <1>4, <1>5, OwingKeeps
    DEF IInv, Covered, ListedCovers, PageCovers, Subscribed
  <2> QED BY <2>1, <2>2
<1> QED BY <1>6, <1>7, <1>8, <1>9, <1>10 DEF IInv

LEMMA MountKeeps ==
    ASSUME IInv, NEW s \in Streams, Mount(s)
    PROVE  IInv'
<1>1. /\ hook[s] = "unmounted" /\ handler[s] = "none"
      /\ hook' = [hook EXCEPT ![s] = "live"] /\ handler' = [handler EXCEPT ![s] = "called"]
      /\ UNCHANGED <<members, writers, mutex, listed, wire, store, worker>>
  BY DEF Mount
<1>2. /\ hook'[s] = "live" /\ handler'[s] = "called"
      /\ \A r \in Streams \ {s} : hook'[r] = hook[r] /\ handler'[r] = handler[r]
  BY <1>1 DEF IInv, Types, Publisher, Pages
<1>3. Types'
  BY <1>1 DEF IInv, Types, Repository, Publisher, Pages
<1>4. Registered'
  BY <1>1, <1>2 DEF IInv, Registered
<1>5. Working'
  BY <1>1, <1>2, WorkingKeeps
<1>6. Wires'
  BY <1>1 DEF IInv, Wires
<1>7. Covered'
  <2> SUFFICES ASSUME NEW r \in Streams, NEW h \in DOMAIN members, r # s
               PROVE  /\ handler[r] = "listed" => ListedCovers(r, h)'
                      /\ Subscribed(r) => PageCovers(r, h)'
    BY <1>1, <1>2 DEF Covered, Subscribed
  <2> QED BY <1>1, OwingKeeps DEF IInv, Covered, ListedCovers, PageCovers
<1> QED BY <1>3, <1>4, <1>5, <1>6, <1>7 DEF IInv

\* What Receive does to the store: no channel is lost, and those it adds exist.
LEMMA ReceiveFacts ==
    ASSUME IInv, NEW s \in Streams, Receive(s)
    PROVE  /\ store' \in [Streams -> Countings]
           /\ \A r \in Streams \ {s} : store'[r] = store[r]
           /\ DOMAIN store[s] \subseteq DOMAIN store'[s]
           /\ DOMAIN store'[s] \subseteq DOMAIN members
           /\ \A h : Tells(Head(wire[s]), h) => h \in DOMAIN store'[s]
<1> DEFINE e == Head(wire[s])
<1>1. wire[s] # <<>> /\ store' = [store EXCEPT ![s] = Apply(store[s], e)]
  BY DEF Receive
<1>2. /\ WireOK(wire[s], DOMAIN store[s], DOMAIN members)
      /\ store \in [Streams -> Countings] /\ store[s] \in Countings
      /\ DOMAIN store[s] \subseteq DOMAIN members
  BY DEF IInv, Wires, Types, Pages
<1>3. /\ e \in Events /\ DOMAIN e.counts \subseteq DOMAIN members
      /\ e.kind = "snapshot" => DOMAIN store[s] = {}
  BY <1>1, <1>2, WireHead
<1> HIDE DEF e
<1>4. /\ Apply(store[s], e) \in Countings
      /\ e.kind = "snapshot" => DOMAIN Apply(store[s], e) = DOMAIN e.counts
      /\ e.kind = "created" => DOMAIN Apply(store[s], e) = DOMAIN store[s] \cup DOMAIN e.counts
      /\ e.kind = "changed" => DOMAIN Apply(store[s], e) = DOMAIN store[s]
  BY <1>2, <1>3, ApplyFacts
<1>5. e.kind \in {"snapshot", "created", "changed"}
  BY <1>3 DEF Events
<1>6. store'[s] = Apply(store[s], e)
  BY <1>1, <1>2
<1>7. /\ DOMAIN store[s] \subseteq DOMAIN store'[s] /\ DOMAIN store'[s] \subseteq DOMAIN members
      /\ \A h : Tells(e, h) => h \in DOMAIN store'[s]
  BY <1>2, <1>3, <1>4, <1>5, <1>6 DEF Tells
<1> QED BY <1>1, <1>2, <1>4, <1>7 DEF e

LEMMA ReceiveKeeps ==
    ASSUME IInv, NEW s \in Streams, Receive(s)
    PROVE  IInv'
<1>1. /\ hook[s] = "live" /\ wire[s] # <<>> /\ wire' = [wire EXCEPT ![s] = Tail(wire[s])]
      /\ UNCHANGED <<members, writers, mutex, handler, listed, hook, worker>>
  BY DEF Receive
<1>2. /\ store' \in [Streams -> Countings]
      /\ \A r \in Streams \ {s} : store'[r] = store[r]
      /\ DOMAIN store[s] \subseteq DOMAIN store'[s]
      /\ DOMAIN store'[s] \subseteq DOMAIN members
      /\ \A h : Tells(Head(wire[s]), h) => h \in DOMAIN store'[s]
  BY ReceiveFacts
<1>3. WireOK(wire[s], DOMAIN store[s], DOMAIN members) /\ wire[s] \in Seq(Events)
  BY DEF IInv, Wires, WireOK
<1>4. WireOK(Tail(wire[s]), DOMAIN store'[s], DOMAIN members) /\ Tail(wire[s]) \in Seq(Events)
  <2>1. WireOK(Tail(wire[s]), DOMAIN store'[s], DOMAIN members)
    BY <1>1, <1>3, WireTail
  <2> QED BY <2>1 DEF WireOK
<1>5. /\ wire'[s] = Tail(wire[s]) /\ wire' \in [Streams -> Seq(Events)]
      /\ \A r \in Streams \ {s} : wire'[r] = wire[r]
  BY <1>1, <1>4 DEF IInv, Types, Pages
<1>6. Types'
  BY <1>1, <1>2, <1>5 DEF IInv, Types, Repository, Publisher, Pages
<1>7. Registered'
  <2>1. handler[s] \notin {"none", "called", "listed"}
    BY <1>1 DEF IInv, Registered
  <2> QED BY <2>1, <1>1, <1>2, <1>5 DEF IInv, Registered
<1>8. Working'
  BY <1>1, WorkingKeeps
<1>9. Wires'
  BY <1>1, <1>2, <1>4, <1>5 DEF IInv, Wires
<1>10. Covered'
  <2> SUFFICES ASSUME NEW r \in Streams, NEW h \in DOMAIN members
               PROVE  /\ handler[r] = "listed" => ListedCovers(r, h)'
                      /\ Subscribed(r) => PageCovers(r, h)'
    BY <1>1 DEF Covered, Subscribed
  <2>1. ListedCovers(r, h) => ListedCovers(r, h)'
    BY <1>1, OwingKeeps DEF ListedCovers
  <2>2. PageCovers(r, h) => PageCovers(r, h)'
    <3>1. CASE r # s
      BY <3>1, <1>1, <1>2, <1>5, OwingKeeps DEF PageCovers
    <3>2. CASE r = s
      <4>1. Told(wire[s], h) => Told(wire'[s], h) \/ h \in DOMAIN store'[s]
        BY <1>1, <1>2, <1>3, <1>5, ToldTail
      <4> QED BY <3>2, <4>1, <1>1, <1>2, OwingKeeps DEF PageCovers
    <3> QED BY <3>1, <3>2
  <2> QED BY <2>1, <2>2 DEF IInv, Covered
<1> QED BY <1>6, <1>7, <1>8, <1>9, <1>10 DEF IInv

\* Fail and Unmount: the page no longer listens.
LEMMA EndOfPageKeeps ==
    ASSUME IInv, NEW s \in Streams, Fail(s) \/ Unmount(s)
    PROVE  IInv'
<1>1. PICK k \in {"failed", "gone"} :
         /\ hook[s] \in {"live", "failed"} /\ hook' = [hook EXCEPT ![s] = k]
         /\ wire' = [wire EXCEPT ![s] = <<>>]
         /\ store' = store \/ store' = [store EXCEPT ![s] = Empty]
         /\ UNCHANGED <<members, writers, mutex, handler, listed, worker>>
  BY DEF Fail, Unmount
<1>2. /\ hook'[s] = k /\ wire'[s] = <<>> /\ DOMAIN store'[s] \subseteq DOMAIN store[s]
      /\ \A r \in Streams \ {s} : hook'[r] = hook[r] /\ wire'[r] = wire[r] /\ store'[r] = store[r]
  BY <1>1, EmptyCounts DEF IInv, Types, Pages
<1>3. Types'
  BY <1>1, EmptyCounts DEF IInv, Types, Repository, Publisher, Pages
<1>4. Registered'
  BY <1>1, <1>2 DEF IInv, Registered
<1>5. Working'
  BY <1>1, WorkingKeeps
<1>6. Wires'
  BY <1>1, <1>2, WireEmpty DEF IInv, Wires
<1>7. Covered'
  <2> SUFFICES ASSUME NEW r \in Streams, NEW h \in DOMAIN members
               PROVE  /\ handler[r] = "listed" => ListedCovers(r, h)'
                      /\ Subscribed(r)' => PageCovers(r, h)'
    BY <1>1 DEF Covered
  <2>1. ListedCovers(r, h) => ListedCovers(r, h)'
    BY <1>1, OwingKeeps DEF ListedCovers
  <2>2. Subscribed(r)' => Subscribed(r) /\ r # s
    BY <1>1, <1>2 DEF Subscribed
  <2>3. r # s /\ PageCovers(r, h) => PageCovers(r, h)'
    BY <1>1, <1>2, OwingKeeps DEF PageCovers
  <2> QED BY <2>1, <2>2, <2>3 DEF IInv, Covered
<1> QED BY <1>3, <1>4, <1>5, <1>6, <1>7 DEF IInv

-----------------------------------------------------------------------------
(* The invariant and what follows from it.                                 *)

LEMMA InitIInv == Init => IInv
<1> SUFFICES ASSUME Init PROVE IInv
  OBVIOUS
<1>1. DOMAIN members = {General} /\ Repository
  BY ListAssumption DEF Init, Repository
<1>2. /\ writers = {} /\ mutex = None
      /\ \A s \in Streams : /\ handler[s] = "none" /\ listed[s] = Empty /\ wire[s] = <<>>
                            /\ hook[s] = "unmounted" /\ store[s] = Empty
      /\ \A t \in Workers : worker[t] = Idle
  BY DEF Init
<1>3. <<>> \in Seq(Events)
  OBVIOUS
<1>4. Types
  BY <1>1, <1>3, EmptyCounts, IdleWork DEF Init, Types, Publisher, Pages
<1>5. Registered
  BY <1>2, EmptyCounts, ListAssumption DEF Registered
<1>6. Working
  BY <1>2, IdleWork DEF Working, WorkOK
<1>7. Wires
  BY <1>2, EmptyCounts, WireEmpty DEF Wires
<1>8. Covered
  BY <1>2 DEF Covered, Subscribed
<1> QED BY <1>4, <1>5, <1>6, <1>7, <1>8 DEF IInv

LEMMA StutterKeeps ==
    ASSUME IInv, UNCHANGED vars
    PROVE  IInv'
<1>1. Types'
  BY DEF vars, IInv, Types, Repository, Publisher, Pages
<1>2. Registered' /\ Wires'
  BY DEF vars, IInv, Registered, Wires
<1>3. Working'
  BY WorkingKeeps DEF vars
<1>4. Covered'
  BY OwingKeeps DEF vars, IInv, Covered, ListedCovers, PageCovers, Subscribed
<1> QED BY <1>1, <1>2, <1>3, <1>4 DEF IInv

LEMMA NextIInv == IInv /\ [Next]_vars => IInv'
<1> SUFFICES ASSUME IInv, [Next]_vars PROVE IInv'
  OBVIOUS
<1>1. ASSUME NEW s \in Streams, Serve(s) PROVE IInv'
  BY <1>1, ReturnKeeps, RegisterKeeps, WriteSnapshotKeeps DEF Serve
<1>2. ASSUME NEW s \in Streams, Mount(s) \/ Receive(s) \/ Fail(s) \/ Unmount(s) PROVE IInv'
  BY <1>2, MountKeeps, ReceiveKeeps, EndOfPageKeeps
<1>3. ASSUME NEW t \in Workers, Publish(t) PROVE IInv'
  BY <1>3, RecountKeeps, LookupKeeps, WriteEventKeeps DEF Publish
<1>4. ASSUME NEW t \in Workers, NEW h \in Channels, Create(t, h) \/ ReadCopy(t, h) PROVE IInv'
  BY <1>4, CreateKeeps, ReadCopyKeeps
<1>5. ASSUME NEW t \in Workers, NEW c \in Clients, Edit(t, c) PROVE IInv'
  BY <1>5, AddMemberKeeps, RemoveMemberKeeps, EndKeeps DEF Edit
<1>6. CASE UNCHANGED vars
  BY <1>6, StutterKeeps
<1> QED BY <1>1, <1>2, <1>3, <1>4, <1>5, <1>6 DEF Next

LEMMA Invariant == Spec => []IInv
<1>1. IInv /\ [Next]_vars => IInv'
  BY NextIInv
<1> QED BY <1>1, InitIInv, PTL DEF Spec

LEMMA NextHistory == History /\ [Next]_vars => History'
<1> SUFFICES ASSUME History, [Next]_vars PROVE History'
  OBVIOUS
<1>1. edits' = edits \/ (edits < MaxEdits /\ edits' = edits + 1)
  BY DEF Next, vars, Serve, Refuse, Register, WriteSnapshot, Unregister, Mount, Receive, Fail,
         Unmount, Publish, Recount, Lookup, WriteEvent, Create, ReadCopy, Edit, AddMember,
         RemoveMember, PassOver, NoEdit, ExpireMember
<1>2. edits' \in 0..MaxEdits
  BY <1>1, ListAssumption DEF History
<1>3. overlap' \in BOOLEAN
  BY DEF History, Next, vars, Serve, Refuse, Register, WriteSnapshot, Unregister, Mount, Receive,
         Fail, Unmount, Publish, Recount, Lookup, WriteEvent, Create, ReadCopy, Edit, AddMember,
         RemoveMember, PassOver, NoEdit, ExpireMember
<1> QED BY <1>2, <1>3 DEF History

LEMMA CountingsIsCounts ==
    ASSUME NEW f \in Countings
    PROVE  IsCounts(f)
BY CountingsElim DEF IsCounts

LEMMA EventsIsEvent ==
    ASSUME NEW e \in Events
    PROVE  IsEvent(e)
<1>1. e = Event(e.kind, e.counts) /\ e.kind \in {"snapshot", "created", "changed"}
      /\ e.counts \in Countings
  BY DEF Events, Event
<1> QED BY <1>1, CountingsIsCounts DEF IsEvent

LEMMA IInvTypeOK == IInv /\ History => TypeOK
<1> SUFFICES ASSUME IInv, History PROVE TypeOK
  OBVIOUS
<1>1. \A s \in Streams : IsCounts(listed[s]) /\ IsCounts(store[s])
  BY CountingsIsCounts DEF IInv, Types, Publisher, Pages
<1>2. ASSUME NEW s \in Streams, NEW i \in DOMAIN wire[s]
      PROVE  IsEvent(wire[s][i])
  <2>1. wire[s] \in Seq(Events)
    BY DEF IInv, Types, Pages
  <2>2. wire[s][i] \in Events
    BY <2>1
  <2> QED BY <2>2, EventsIsEvent
<1>3. ASSUME NEW t \in Workers
      PROVE  /\ worker[t].pc \in {"idle", "edit", "recount", "lookup", "write"}
             /\ worker[t].targets \subseteq Streams
             /\ worker[t].pc \in {"lookup", "write"} => IsEvent(worker[t].event)
  <2>1. worker[t] \in Work /\ WorkOK(worker[t])
    BY DEF IInv, Types, Working
  <2> QED BY <2>1, EventsIsEvent DEF Work, WorkOK
<1> QED BY <1>1, <1>2, <1>3 DEF IInv, Types, Repository, Publisher, Pages, History, TypeOK

LEMMA IInvNoChannelMissed == IInv => NoChannelMissed
<1> SUFFICES ASSUME IInv, NEW s \in Streams, Subscribed(s), NEW h \in DOMAIN members,
                    h \notin DOMAIN store[s], ~\E t \in Workers : Owes(t, s, h)
             PROVE  \E i \in DOMAIN wire[s] : Tells(wire[s][i], h)
  BY DEF NoChannelMissed
<1>1. Told(wire[s], h)
  BY DEF IInv, Covered, PageCovers
<1>2. wire[s] \in Seq(Events)
  BY DEF IInv, Types, Pages
<1>3. DOMAIN wire[s] = 1..Len(wire[s])
  BY <1>2
<1> QED BY <1>1, <1>3 DEF Told

\* The repository, the publisher's map, the streams, the threads and the stores
\* stay well typed; every event and every store holds counts of channels.
THEOREM TypeCorrect == Spec => []TypeOK
<1>1. ASSUME Init PROVE History
  <2>1. edits = 0 /\ overlap = FALSE
    BY <1>1 DEF Init
  <2>2. edits \in 0..MaxEdits
    BY <2>1, ListAssumption
  <2> QED BY <2>1, <2>2 DEF History
<1> QED BY <1>1, NextHistory, Invariant, IInvTypeOK, PTL DEF Spec

\* For any number of pages and threads, registerSubscriberWithSnapshot and the
\* publications that overlap it leave no channel untold.
THEOREM NoChannelMissedCorrect == Spec => []NoChannelMissed
BY Invariant, IInvNoChannelMissed, PTL

-----------------------------------------------------------------------------
(* The refinement.                                                         *)

LEMMA InitDirectory == Init => Directory!Init
<1> SUFFICES ASSUME Init PROVE Directory!Init
  OBVIOUS
<1>1. DOMAIN members = {General} /\ General \in Channels
  BY ListAssumption DEF Init
<1>2. \A s \in Streams : hook[s] = "unmounted" /\ DOMAIN store[s] = {}
  BY EmptyCounts DEF Init
<1> QED BY <1>1, <1>2 DEF Directory!Init

LEMMA StepDirectory == IInv /\ [Next]_vars => [Directory!Next]_(Directory!vars)
<1> SUFFICES ASSUME IInv, [Next]_vars PROVE [Directory!Next]_(Directory!vars)
  OBVIOUS
<1> DEFINE watching == {s \in Streams : hook[s] \in {"live", "failed"}}
<1> DEFINE shown == [s \in Streams |-> DOMAIN store[s]]
<1>1. CASE UNCHANGED <<DOMAIN members, watching, shown>>
  BY <1>1 DEF Directory!vars
<1>2. ASSUME DOMAIN members' = DOMAIN members, UNCHANGED <<hook, store>>
      PROVE  UNCHANGED <<DOMAIN members, watching, shown>>
  BY <1>2
<1>3. ASSUME NEW s \in Streams, Serve(s)
      PROVE  UNCHANGED <<members, hook, store>>
  BY <1>3 DEF Serve, Refuse, Register, WriteSnapshot, Unregister
<1>4. ASSUME NEW t \in Workers, Publish(t)
      PROVE  UNCHANGED <<members, hook, store>>
  BY <1>4 DEF Publish, Recount, Lookup, WriteEvent
<1>5. ASSUME NEW t \in Workers, NEW c \in Clients, Edit(t, c)
      PROVE  DOMAIN members' = DOMAIN members /\ UNCHANGED <<hook, store>>
  BY <1>5 DEF Edit, AddMember, RemoveMember, PassOver, NoEdit, ExpireMember, SaveCopy
<1>6. ASSUME NEW t \in Workers, NEW h \in Channels, ReadCopy(t, h)
      PROVE  UNCHANGED <<members, hook, store>>
  BY <1>6 DEF ReadCopy
<1>7. ASSUME NEW t \in Workers, NEW h \in Channels, Create(t, h)
      PROVE  Directory!Next
  <2>1. h \in Channels \ DOMAIN members /\ DOMAIN members' = DOMAIN members \cup {h}
        /\ UNCHANGED <<hook, store>>
    BY <1>7 DEF Create
  <2>2. Directory!Create
    BY <2>1 DEF Directory!Create
  <2> QED BY <2>2 DEF Directory!Next
<1>8. ASSUME NEW s \in Streams, Mount(s)
      PROVE  Directory!Next
  <2>1. /\ hook[s] = "unmounted" /\ hook' = [hook EXCEPT ![s] = "live"]
        /\ UNCHANGED <<members, store>> /\ DOMAIN hook = Streams
    BY <1>8 DEF Mount, IInv, Types, Pages
  <2>2. s \notin watching /\ watching' = watching \cup {s}
    BY <2>1
  <2>3. Directory!Open(s)
    BY <2>1, <2>2 DEF Directory!Open
  <2> QED BY <2>3 DEF Directory!Next
<1>9. ASSUME NEW s \in Streams, Receive(s)
      PROVE  Directory!Next
  <2>1. /\ \A r \in Streams \ {s} : store'[r] = store[r]
        /\ DOMAIN store[s] \subseteq DOMAIN store'[s]
        /\ DOMAIN store'[s] \subseteq DOMAIN members
    BY <1>9, ReceiveFacts
  <2>2. hook[s] = "live" /\ UNCHANGED <<members, hook>>
    BY <1>9 DEF Receive
  <2>3. shown' = [shown EXCEPT ![s] = @ \cup DOMAIN store'[s]]
    BY <2>1
  <2>4. Directory!Show(s)
    BY <2>1, <2>2, <2>3 DEF Directory!Show
  <2> QED BY <2>4 DEF Directory!Next
<1>10. ASSUME NEW s \in Streams, Fail(s)
       PROVE  UNCHANGED <<DOMAIN members, watching, shown>>
  <2>1. /\ hook[s] = "live" /\ hook' = [hook EXCEPT ![s] = "failed"]
        /\ UNCHANGED <<members, store>> /\ DOMAIN hook = Streams
    BY <1>10 DEF Fail, IInv, Types, Pages
  <2>2. watching' = watching
    BY <2>1
  <2> QED BY <2>1, <2>2
<1>11. ASSUME NEW s \in Streams, Unmount(s)
       PROVE  Directory!Next
  <2>1. /\ hook[s] \in {"live", "failed"} /\ hook' = [hook EXCEPT ![s] = "gone"]
        /\ store' = [store EXCEPT ![s] = Empty] /\ members' = members
        /\ DOMAIN hook = Streams /\ DOMAIN store = Streams
    BY <1>11 DEF Unmount, IInv, Types, Pages
  <2>2. s \in watching /\ watching' = watching \ {s}
    BY <2>1
  <2>3. shown' = [shown EXCEPT ![s] = {}]
    BY <2>1, EmptyCounts
  <2>4. Directory!Close(s)
    BY <2>1, <2>2, <2>3 DEF Directory!Close
  <2> QED BY <2>4 DEF Directory!Next
<1>12. ASSUME UNCHANGED vars
       PROVE  UNCHANGED <<members, hook, store>>
  BY <1>12 DEF vars
<1> HIDE DEF watching, shown
<1> QED BY <1>1, <1>2, <1>3, <1>4, <1>5, <1>6, <1>7, <1>8, <1>9, <1>10, <1>11, <1>12 DEF Next

\* Publisher, wire and store implement ChannelDirectory: a page shows channels of
\* the repository only and loses none while mounted, for any number of pages,
\* although setSnapshot replaces the whole store.
THEOREM ImplementsDirectoryCorrect == Spec => ImplementsDirectory
<1>1. IInv /\ [Next]_vars => [Directory!Next]_(Directory!vars)
  BY StepDirectory
<1> QED BY <1>1, InitDirectory, Invariant, PTL DEF Spec, ImplementsDirectory, Directory!Spec

-----------------------------------------------------------------------------
(* The counts.  While no two changes have overlapped, one thread at most is *)
(* busy; its copy is what the repository holds, its event tells the counts  *)
(* the repository holds, and what a page has been sent gives every channel  *)
(* the count it has, unless that thread has still to tell the page.         *)

Size(h) == Cardinality(members[h])

Mentions(event, h) == h \in DOMAIN event.counts

\* What the store shows of channel h once the wire is read, if it shows it at
\* all, is n.
ShowsIn(shown, q, h, n) ==
    /\ h \in DOMAIN shown /\ (\A i \in 1..Len(q) : ~Mentions(q[i], h)) => shown[h] = n
    /\ \A i \in 1..Len(q) :
          Mentions(q[i], h) /\ (\A j \in 1..Len(q) : j > i => ~Mentions(q[j], h))
             => q[i].counts[h] = n

\* A thread in state w has still to tell stream s the count of channel h.
WillTell(w, s, h) ==
    /\ w.channel = h
    /\ w.pc \in {"recount", "lookup"} \/ (w.pc = "write" /\ s \in w.targets)

FreshWork(w, m) ==
    /\ w.pc = "edit" => w.copy = m[w.channel]
    /\ w.pc \in {"lookup", "write"} =>
          /\ w.channel \in DOMAIN w.event.counts
          /\ \A h \in DOMAIN w.event.counts : w.event.counts[h] = Cardinality(m[h])

OneEdit == \A t \in Workers : \A u \in Workers : t # u => worker[t].pc = "idle" \/ worker[u].pc = "idle"

Fresh == \A t \in Workers : FreshWork(worker[t], members)

\* The snapshot in hand, or the page, is right about channel h.
PageRight(s, h) ==
    /\ handler[s] = "listed" /\ h \in DOMAIN listed[s] => listed[s][h] = Size(h)
    /\ Subscribed(s) => ShowsIn(store[s], wire[s], h, Size(h))

PagesRight ==
    \A s \in Streams : \A h \in DOMAIN members :
       PageRight(s, h) \/ \E t \in Workers : WillTell(worker[t], s, h)

CountInv == ~overlap => OneEdit /\ Fresh /\ PagesRight

\* An event that is right about the channels it mentions is appended.
LEMMA ShowsAppend ==
    ASSUME NEW q \in Seq(Events), NEW e \in Events, NEW shown, NEW h, NEW n,
           Mentions(e, h) => e.counts[h] = n,
           Mentions(e, h) \/ ShowsIn(shown, q, h, n)
    PROVE  ShowsIn(shown, Append(q, e), h, n)
<1> DEFINE p == Append(q, e)
<1>1. /\ Len(q) \in Nat /\ Len(p) = Len(q) + 1 /\ p[Len(q) + 1] = e
      /\ \A i \in 1..Len(q) : p[i] = q[i]
  OBVIOUS
<1> HIDE DEF p
<1>2. Len(p) \in 1..Len(p) /\ \A i \in 1..Len(p) : i = Len(p) \/ (i \in 1..Len(q) /\ Len(p) > i)
  BY <1>1
<1>3. CASE Mentions(e, h)
  BY <1>1, <1>2, <1>3 DEF ShowsIn
<1>4. CASE ~Mentions(e, h)
  <2>1. \A i \in 1..Len(q) : i \in 1..Len(p)
    BY <1>1
  <2>2. ASSUME h \in DOMAIN shown, \A i \in 1..Len(p) : ~Mentions(p[i], h)
        PROVE  shown[h] = n
    BY <1>1, <1>4, <2>1, <2>2 DEF ShowsIn
  <2>3. ASSUME NEW i \in 1..Len(p), Mentions(p[i], h),
               \A j \in 1..Len(p) : j > i => ~Mentions(p[j], h)
        PROVE  p[i].counts[h] = n
    <3>1. i \in 1..Len(q) /\ Mentions(q[i], h) /\ p[i] = q[i]
      BY <1>1, <1>2, <1>4, <2>3
    <3>2. \A j \in 1..Len(q) : j > i => ~Mentions(q[j], h)
      BY <1>1, <2>1, <2>3
    <3> QED BY <1>4, <3>1, <3>2 DEF ShowsIn
  <2> QED BY <2>2, <2>3 DEF ShowsIn
<1> QED BY <1>3, <1>4 DEF p

\* What Apply shows of a channel.
LEMMA ApplyShows ==
    ASSUME NEW f \in Countings, NEW e \in Events, NEW h, h \in DOMAIN Apply(f, e)
    PROVE  /\ Mentions(e, h) => Apply(f, e)[h] = e.counts[h]
           /\ ~Mentions(e, h) => h \in DOMAIN f /\ Apply(f, e)[h] = f[h]
<1>1. e.kind \in {"snapshot", "created", "changed"}
  BY DEF Events
<1>2. CASE e.kind = "snapshot"
  <2>1. Apply(f, e) = e.counts
    BY <1>2 DEF Apply
  <2> QED BY <2>1 DEF Mentions
<1>3. CASE e.kind = "created"
  <2>1. Apply(f, e) = applyCreated(f, e.counts)
    BY <1>3 DEF Apply
  <2> QED BY <2>1 DEF Mentions, applyCreated
<1>4. CASE e.kind = "changed"
  <2>1. Apply(f, e) = applyMemberCountChanged(f, e.counts)
    BY <1>4 DEF Apply
  <2> QED BY <2>1 DEF Mentions, applyMemberCountChanged
<1> QED BY <1>1, <1>2, <1>3, <1>4

\* The page reads the next event.
LEMMA ShowsTail ==
    ASSUME NEW f \in Countings, NEW q \in Seq(Events), q # <<>>, NEW h, NEW n,
           ShowsIn(f, q, h, n)
    PROVE  ShowsIn(Apply(f, Head(q)), Tail(q), h, n)
<1> DEFINE p == Tail(q)
           e == Head(q)
           g == Apply(f, e)
<1>1. /\ Len(q) \in Nat /\ Len(q) # 0 /\ Len(p) = Len(q) - 1 /\ e = q[1] /\ e \in Events
      /\ \A i \in 1..Len(p) : p[i] = q[i + 1]
  OBVIOUS
<1> HIDE DEF p, e
<1>2. /\ 1 \in 1..Len(q)
      /\ \A i \in 1..Len(p) : i + 1 \in 1..Len(q) /\ i + 1 > 1
      /\ \A j \in 1..Len(q) : j > 1 => j - 1 \in 1..Len(p) /\ p[j - 1] = q[j]
  BY <1>1
<1>3. ASSUME h \in DOMAIN g, \A i \in 1..Len(p) : ~Mentions(p[i], h)
      PROVE  g[h] = n
  <2>1. \A j \in 1..Len(q) : j > 1 => ~Mentions(q[j], h)
    BY <1>2, <1>3
  <2>2. CASE Mentions(e, h)
    <3>1. q[1].counts[h] = n
      BY <1>1, <1>2, <2>1, <2>2 DEF ShowsIn
    <3> QED BY <1>1, <1>3, <2>2, <3>1, ApplyShows
  <2>3. CASE ~Mentions(e, h)
    <3>1. \A j \in 1..Len(q) : ~Mentions(q[j], h)
      <4>1. \A j \in 1..Len(q) : j = 1 \/ j > 1
        BY <1>1
      <4> QED BY <1>1, <2>1, <2>3, <4>1
    <3>2. h \in DOMAIN f /\ g[h] = f[h]
      BY <1>1, <1>3, <2>3, ApplyShows
    <3> QED BY <3>1, <3>2 DEF ShowsIn
  <2> QED BY <2>2, <2>3
<1>4. ASSUME NEW i \in 1..Len(p), Mentions(p[i], h),
             \A j \in 1..Len(p) : j > i => ~Mentions(p[j], h)
      PROVE  p[i].counts[h] = n
  <2>1. i + 1 \in 1..Len(q) /\ q[i + 1] = p[i]
    BY <1>1, <1>2
  <2>2. ASSUME NEW j \in 1..Len(q), j > i + 1
        PROVE  ~Mentions(q[j], h)
    <3>1. j > 1 /\ j - 1 > i
      BY <1>1, <2>2
    <3> QED BY <1>2, <1>4, <3>1
  <2> QED BY <1>4, <2>1, <2>2 DEF ShowsIn
<1> QED BY <1>3, <1>4 DEF ShowsIn, p, e

\* A step of the use case of thread t, the only one under way: what t had still
\* to tell it still tells, and a count that changes is one it will tell.
LEMMA EditCounts ==
    ASSUME PagesRight, NEW t \in Workers, NEW w, worker'[t] = w,
           \A u \in Workers \ {t} : worker[u].pc = "idle" /\ worker'[u] = worker[u],
           FreshWork(w, members'), UNCHANGED <<handler, listed, wire, hook, store>>,
           \A s \in Streams, g \in Channels : WillTell(worker[t], s, g) => WillTell(w, s, g),
           DOMAIN members' \subseteq Channels,
           \A g \in DOMAIN members' :
              \/ \A s \in Streams : WillTell(w, s, g)
              \/ g \in DOMAIN members /\ members'[g] = members[g]
    PROVE  OneEdit' /\ Fresh' /\ PagesRight'
<1>1. OneEdit'
  BY DEF OneEdit
<1>2. Fresh'
  BY DEF Fresh, FreshWork
<1>3. ASSUME NEW s \in Streams, NEW g \in DOMAIN members'
      PROVE  PageRight(s, g)' \/ \E u \in Workers : WillTell(worker'[u], s, g)
  <2>1. CASE \A r \in Streams : WillTell(w, r, g)
    BY <2>1
  <2>2. CASE g \in DOMAIN members /\ members'[g] = members[g]
    <3>1. PageRight(s, g) => PageRight(s, g)'
      BY <2>2 DEF PageRight, Subscribed, Size
    <3>2. ASSUME NEW u \in Workers, WillTell(worker[u], s, g)
          PROVE  WillTell(worker'[u], s, g)
      BY <3>2
    <3> QED BY <2>2, <3>1, <3>2 DEF PagesRight
  <2> QED BY <2>1, <2>2
<1> QED BY <1>1, <1>2, <1>3 DEF PagesRight

\* While no two changes overlap, the other threads are idle when t moves.
LEMMA OthersIdle ==
    ASSUME IInv, CountInv, NEW t \in Workers, NEW w, worker' = [worker EXCEPT ![t] = w], ~overlap,
           worker[t].pc # "idle" \/ ~Busy(t)
    PROVE  /\ PagesRight /\ worker'[t] = w
           /\ FreshWork(worker[t], members)
           /\ \A u \in Workers \ {t} : worker[u].pc = "idle" /\ worker'[u] = worker[u]
BY DEF IInv, Types, CountInv, OneEdit, Fresh, Busy

LEMMA CreateCounts ==
    ASSUME IInv, CountInv, NEW t \in Workers, NEW h \in Channels, Create(t, h)
    PROVE  CountInv'
<1> SUFFICES ASSUME ~overlap' PROVE OneEdit' /\ Fresh' /\ PagesRight'
  BY DEF CountInv
<1> DEFINE e == Event("created", [x \in {h} |-> 0])
<1> DEFINE w == [Idle EXCEPT !.pc = "lookup", !.channel = h, !.event = e]
<1>1. /\ ~overlap /\ ~Busy(t) /\ worker[t].pc = "idle" /\ worker' = [worker EXCEPT ![t] = w]
      /\ h \notin DOMAIN members
      /\ members' = [x \in DOMAIN members \cup {h} |-> IF x = h THEN {} ELSE members[x]]
      /\ UNCHANGED <<handler, listed, wire, hook, store>>
  BY DEF Create, Put
<1>2. e.counts = [x \in {h} |-> 0]
  BY DEF Event
<1> HIDE DEF e
<1>3. w.pc = "lookup" /\ w.channel = h /\ w.event = e
  BY DEF Idle
<1> HIDE DEF w
<1>4. FreshWork(w, members')
  <2>1. members'[h] = {}
    BY <1>1
  <2>2. Cardinality(members'[h]) = 0
    BY <2>1, FS_EmptySet
  <2> QED BY <1>2, <1>3, <2>2 DEF FreshWork
<1>5. \A s \in Streams, g \in Channels : WillTell(worker[t], s, g) => WillTell(w, s, g)
  BY <1>1 DEF WillTell
<1>6. DOMAIN members' \subseteq Channels
  BY <1>1 DEF IInv, Types, Repository
<1>7. ASSUME NEW g \in DOMAIN members'
      PROVE  \/ \A s \in Streams : WillTell(w, s, g)
             \/ g \in DOMAIN members /\ members'[g] = members[g]
  BY <1>1, <1>3 DEF WillTell
<1> QED BY <1>1, <1>4, <1>5, <1>6, <1>7, OthersIdle, EditCounts

LEMMA ReadCopyCounts ==
    ASSUME IInv, CountInv, NEW t \in Workers, NEW h \in Channels, ReadCopy(t, h)
    PROVE  CountInv'
<1> SUFFICES ASSUME ~overlap' PROVE OneEdit' /\ Fresh' /\ PagesRight'
  BY DEF CountInv
<1> DEFINE w == [Idle EXCEPT !.pc = "edit", !.channel = h, !.copy = members[h]]
<1>1. /\ ~overlap /\ ~Busy(t) /\ worker[t].pc = "idle" /\ worker' = [worker EXCEPT ![t] = w]
      /\ members' = members /\ UNCHANGED <<handler, listed, wire, hook, store>>
  BY DEF ReadCopy, Put
<1>2. w.pc = "edit" /\ w.channel = h /\ w.copy = members[h]
  BY DEF Idle
<1> HIDE DEF w
<1>3. FreshWork(w, members')
  BY <1>1, <1>2 DEF FreshWork
<1>4. \A s \in Streams, g \in Channels : WillTell(worker[t], s, g) => WillTell(w, s, g)
  BY <1>1 DEF WillTell
<1>5. DOMAIN members' \subseteq Channels
  BY <1>1 DEF IInv, Types, Repository
<1> QED BY <1>1, <1>3, <1>4, <1>5, OthersIdle, EditCounts

\* The event of a publication has the count of the thread's channel.
LEMMA ChangedCounts ==
    ASSUME NEW t, NEW edited
    PROVE  /\ DOMAIN Changed(t, edited).counts = {worker[t].channel}
           /\ Changed(t, edited).counts[worker[t].channel] = Cardinality(edited)
BY DEF Changed, Event

LEMMA AddMemberCounts ==
    ASSUME IInv, CountInv, NEW t \in Workers, NEW c \in Clients, AddMember(t, c)
    PROVE  CountInv'
<1> SUFFICES ASSUME ~overlap' PROVE OneEdit' /\ Fresh' /\ PagesRight'
  BY DEF CountInv
<1> DEFINE edited == worker[t].copy \cup {c}
<1> DEFINE e == Changed(t, edited)
<1> DEFINE w == [worker[t] EXCEPT !.pc = "lookup", !.copy = {}, !.event = e]
<1> DEFINE x == worker[t].channel
<1>1. /\ ~overlap /\ worker[t].pc = "edit" /\ worker' = [worker EXCEPT ![t] = w]
      /\ members' = [members EXCEPT ![x] = edited]
      /\ UNCHANGED <<handler, listed, wire, hook, store>>
  BY DEF AddMember, Put, SaveCopy
<1>2. x \in DOMAIN members /\ DOMAIN members \subseteq Channels
  BY <1>1, WorkerFacts DEF WorkOK, IInv, Types, Repository
<1>3. DOMAIN e.counts = {x} /\ e.counts[x] = Cardinality(edited)
  BY ChangedCounts
<1> HIDE DEF e
<1>4. w.pc = "lookup" /\ w.channel = x /\ w.event = e
  BY WorkerFacts DEF Work
<1> HIDE DEF w, edited
<1>5. FreshWork(w, members')
  BY <1>1, <1>2, <1>3, <1>4 DEF FreshWork
<1>6. \A s \in Streams, g \in Channels : WillTell(worker[t], s, g) => WillTell(w, s, g)
  BY <1>1 DEF WillTell
<1>7. DOMAIN members' \subseteq Channels
  BY <1>1, <1>2
<1>8. ASSUME NEW g \in DOMAIN members'
      PROVE  \/ \A s \in Streams : WillTell(w, s, g)
             \/ g \in DOMAIN members /\ members'[g] = members[g]
  <2>1. CASE g = x
    BY <2>1, <1>4 DEF WillTell
  <2>2. CASE g # x
    <3>1. g \in DOMAIN members /\ members'[g] = members[g]
      BY <2>2, <1>1
    <3> QED BY <3>1
  <2> QED BY <2>1, <2>2
<1>9. /\ PagesRight /\ worker'[t] = w
      /\ \A u \in Workers \ {t} : worker[u].pc = "idle" /\ worker'[u] = worker[u]
  BY <1>1, OthersIdle
<1> QED BY <1>1, <1>5, <1>6, <1>7, <1>8, <1>9, EditCounts

LEMMA RemoveMemberCounts ==
    ASSUME IInv, CountInv, NEW t \in Workers, NEW c \in Clients,
           RemoveMember(t, c) \/ PassOver(t, c)
    PROVE  CountInv'
<1> SUFFICES ASSUME ~overlap' PROVE OneEdit' /\ Fresh' /\ PagesRight'
  BY DEF CountInv
<1> DEFINE w == [worker[t] EXCEPT !.pc = "recount", !.copy = {}]
<1> DEFINE x == worker[t].channel
<1>1. /\ ~overlap /\ worker[t].pc = "edit" /\ worker' = [worker EXCEPT ![t] = w]
      /\ members' = members \/ members' = [members EXCEPT ![x] = worker[t].copy \ {c}]
      /\ UNCHANGED <<handler, listed, wire, hook, store>>
  BY DEF RemoveMember, PassOver, Put, SaveCopy
<1>2. w.pc = "recount" /\ w.channel = x
  BY WorkerFacts DEF Work
<1> HIDE DEF w
<1>3. FreshWork(w, members')
  BY <1>2 DEF FreshWork
<1>4. \A s \in Streams, g \in Channels : WillTell(worker[t], s, g) => WillTell(w, s, g)
  BY <1>1 DEF WillTell
<1>5. DOMAIN members' \subseteq Channels
  BY <1>1 DEF IInv, Types, Repository
<1>6. ASSUME NEW g \in DOMAIN members'
      PROVE  \/ \A s \in Streams : WillTell(w, s, g)
             \/ g \in DOMAIN members /\ members'[g] = members[g]
  <2>1. CASE g = x
    BY <2>1, <1>2 DEF WillTell
  <2>2. CASE g # x
    <3>1. g \in DOMAIN members /\ members'[g] = members[g]
      BY <2>2, <1>1
    <3> QED BY <3>1
  <2> QED BY <2>1, <2>2
<1>7. /\ PagesRight /\ worker'[t] = w
      /\ \A u \in Workers \ {t} : worker[u].pc = "idle" /\ worker'[u] = worker[u]
  BY <1>1, OthersIdle
<1> QED BY <1>1, <1>3, <1>4, <1>5, <1>6, <1>7, EditCounts

LEMMA RecountCounts ==
    ASSUME IInv, CountInv, NEW t \in Workers, Recount(t)
    PROVE  CountInv'
<1> SUFFICES ASSUME ~overlap' PROVE OneEdit' /\ Fresh' /\ PagesRight'
  BY DEF CountInv
<1> DEFINE x == worker[t].channel
<1> DEFINE e == Changed(t, members[x])
<1> DEFINE w == [worker[t] EXCEPT !.pc = "lookup", !.event = e]
<1>1. /\ ~overlap /\ worker[t].pc = "recount" /\ worker' = [worker EXCEPT ![t] = w]
      /\ members' = members /\ UNCHANGED <<handler, listed, wire, hook, store>>
  BY DEF Recount, Put
<1>2. DOMAIN e.counts = {x} /\ e.counts[x] = Cardinality(members[x])
  BY ChangedCounts
<1> HIDE DEF e
<1>3. w.pc = "lookup" /\ w.channel = x /\ w.event = e
  BY WorkerFacts DEF Work
<1> HIDE DEF w
<1>4. FreshWork(w, members')
  BY <1>1, <1>2, <1>3 DEF FreshWork
<1>5. \A s \in Streams, g \in Channels : WillTell(worker[t], s, g) => WillTell(w, s, g)
  BY <1>1, <1>3 DEF WillTell
<1>6. DOMAIN members' \subseteq Channels
  BY <1>1 DEF IInv, Types, Repository
<1> QED BY <1>1, <1>4, <1>5, <1>6, OthersIdle, EditCounts

\* An expiry counts as an overlap: it publishes nothing.
LEMMA EndCounts ==
    ASSUME IInv, CountInv, NEW t \in Workers, NEW c \in Clients,
           NoEdit(t, c) \/ ExpireMember(t, c)
    PROVE  CountInv'
<1> SUFFICES ASSUME ~overlap' PROVE OneEdit' /\ Fresh' /\ PagesRight'
  BY DEF CountInv
<1>1. /\ ~overlap /\ worker[t].pc = "edit" /\ worker' = [worker EXCEPT ![t] = Idle]
      /\ members' = members /\ UNCHANGED <<handler, listed, wire, hook, store>>
  BY DEF NoEdit, ExpireMember, Put
<1>2. FreshWork(Idle, members')
  BY IdleWork DEF FreshWork
<1>3. \A s \in Streams, g \in Channels : WillTell(worker[t], s, g) => WillTell(Idle, s, g)
  BY <1>1 DEF WillTell
<1>4. DOMAIN members' \subseteq Channels
  BY <1>1 DEF IInv, Types, Repository
<1> QED BY <1>1, <1>2, <1>3, <1>4, OthersIdle, EditCounts

\* mutex_ is free when a publication copies the entries: no snapshot is in hand,
\* and every page that listens has an entry.
LEMMA LookupCounts ==
    ASSUME IInv, CountInv, NEW t \in Workers, Lookup(t)
    PROVE  CountInv'
<1> DEFINE w == WriteTo(t, writers)
<1>1. /\ worker[t].pc = "lookup" /\ mutex = None /\ worker' = [worker EXCEPT ![t] = w]
      /\ UNCHANGED <<members, handler, listed, wire, hook, store, overlap>>
  BY DEF Lookup, Put
<1> SUFFICES ASSUME ~overlap PROVE OneEdit' /\ Fresh' /\ PagesRight'
  BY <1>1 DEF CountInv
<1>2. writers \in SUBSET Streams
  BY DEF IInv, Types, Publisher
<1>3. /\ writers # {} => /\ w.pc = "write" /\ w.targets = writers
                         /\ w.event = worker[t].event /\ w.channel = worker[t].channel
      /\ writers = {} => w.pc = "idle"
  BY <1>1, <1>2, WriteToFacts
<1> HIDE DEF w
<1>4. /\ PagesRight /\ worker'[t] = w /\ FreshWork(worker[t], members)
      /\ \A u \in Workers \ {t} : worker[u].pc = "idle" /\ worker'[u] = worker[u]
  BY <1>1, OthersIdle
<1>5. FreshWork(w, members)
  BY <1>1, <1>3, <1>4 DEF FreshWork
<1>6. Fresh'
  BY <1>1, <1>4, <1>5 DEF Fresh, FreshWork
<1>7. \A s \in Streams : handler[s] # "listed" /\ (handler[s] = "open" => s \in writers)
  BY <1>1, ListAssumption DEF IInv, Registered
<1>8. ASSUME NEW s \in Streams, NEW h \in DOMAIN members
      PROVE  PageRight(s, h)' \/ \E u \in Workers : WillTell(worker'[u], s, h)
  <2>1. PageRight(s, h) => PageRight(s, h)'
    BY <1>1 DEF PageRight, Subscribed, Size
  <2>2. CASE s \in writers
    <3>1. \A u \in Workers : WillTell(worker[u], s, h) => WillTell(worker'[u], s, h)
      BY <2>2, <1>1, <1>3, <1>4 DEF WillTell
    <3> QED BY <2>1, <3>1, <1>4 DEF PagesRight
  <2>3. CASE s \notin writers
    BY <2>3, <1>1, <1>7 DEF PageRight, Subscribed
  <2> QED BY <2>2, <2>3
<1> QED BY <1>1, <1>4, <1>6, <1>8 DEF OneEdit, PagesRight

\* The page that is written to hears of every channel the event has.
LEMMA WriteEventCounts ==
    ASSUME IInv, CountInv, NEW t \in Workers, NEW s \in Streams, WriteEvent(t, s)
    PROVE  CountInv'
<1> DEFINE T == worker[t].targets \ {s}
<1> DEFINE w == WriteTo(t, T)
<1> DEFINE e == worker[t].event
<1>1. /\ worker[t].pc = "write" /\ s \in worker[t].targets /\ worker' = [worker EXCEPT ![t] = w]
      /\ wire' = IF s \in writers THEN Written(s, e) ELSE wire
      /\ UNCHANGED <<members, handler, listed, hook, store, overlap>>
  BY DEF WriteEvent, Put
<1> SUFFICES ASSUME ~overlap PROVE OneEdit' /\ Fresh' /\ PagesRight'
  BY <1>1 DEF CountInv
<1>2. e \in Events /\ handler[s] \in {"open", "returned"}
  BY <1>1, WorkerFacts DEF WorkOK
<1>3. T \in SUBSET Streams
  BY WorkerFacts DEF Work
<1>4. /\ T # {} => w.pc = "write" /\ w.targets = T /\ w.event = e /\ w.channel = worker[t].channel
      /\ T = {} => w.pc = "idle"
  BY <1>1, <1>3, WriteToFacts
<1> HIDE DEF w
<1>5. /\ PagesRight /\ worker'[t] = w /\ FreshWork(worker[t], members)
      /\ \A u \in Workers \ {t} : worker[u].pc = "idle" /\ worker'[u] = worker[u]
  BY <1>1, OthersIdle
<1>6. FreshWork(w, members)
  BY <1>1, <1>4, <1>5 DEF FreshWork
<1>7. Fresh'
  BY <1>1, <1>5, <1>6 DEF Fresh, FreshWork
<1>8. /\ worker[t].channel \in DOMAIN e.counts
      /\ \A h \in DOMAIN e.counts : e.counts[h] = Size(h)
  BY <1>1, <1>5 DEF FreshWork, Size
<1>9. /\ s \in writers /\ hook[s] = "live" => wire'[s] = Append(wire[s], e)
      /\ \A r \in Streams \ {s} : wire'[r] = wire[r]
  <2> HIDE DEF e
  <2>1. CASE s \in writers
    BY <2>1, <1>1, <1>2, WrittenFacts
  <2>2. CASE s \notin writers
    BY <2>2, <1>1
  <2> QED BY <2>1, <2>2
<1> HIDE DEF e
<1>10. ASSUME NEW r \in Streams, NEW h \in DOMAIN members
       PROVE  PageRight(r, h)' \/ \E u \in Workers : WillTell(worker'[u], r, h)
  <2>1. CASE r # s
    <3>1. PageRight(r, h) => PageRight(r, h)'
      BY <2>1, <1>1, <1>9 DEF PageRight, Subscribed, Size
    <3>2. \A u \in Workers : WillTell(worker[u], r, h) => WillTell(worker'[u], r, h)
      BY <2>1, <1>1, <1>4, <1>5 DEF WillTell
    <3> QED BY <3>1, <3>2, <1>5 DEF PagesRight
  <2>2. CASE r = s
    <3>1. CASE ~Subscribed(s)
      BY <2>2, <3>1, <1>1, <1>2 DEF PageRight, Subscribed
    <3>2. CASE Subscribed(s)
      <4>1. wire'[s] = Append(wire[s], e) /\ wire[s] \in Seq(Events)
        BY <3>2, <1>9 DEF Subscribed, IInv, Types, Pages, Registered
      <4>2. Mentions(e, h) => e.counts[h] = Size(h)
        BY <1>8 DEF Mentions
      <4>3. Mentions(e, h) \/ ShowsIn(store[s], wire[s], h, Size(h))
        <5>1. \A u \in Workers : WillTell(worker[u], s, h) => Mentions(e, h)
          BY <1>5, <1>8 DEF WillTell, Mentions
        <5> QED BY <2>2, <3>2, <5>1, <1>5 DEF PagesRight, PageRight
      <4>4. ShowsIn(store[s], wire'[s], h, Size(h))
        BY <4>1, <4>2, <4>3, <1>2, ShowsAppend
      <4> QED BY <2>2, <4>4, <1>1, <1>2 DEF PageRight, Subscribed, Size
    <3> QED BY <3>1, <3>2
  <2> QED BY <2>1, <2>2
<1> QED BY <1>1, <1>5, <1>7, <1>10 DEF OneEdit, PagesRight

\* A step of the handler or of the page that leaves the page right about every
\* channel it was right about, and about every channel when nothing was owed.
LEMMA PageCounts ==
    ASSUME CountInv, UNCHANGED <<members, worker, overlap>>,
           \A s \in Streams, h \in DOMAIN members : PageRight(s, h) => PageRight(s, h)'
    PROVE  CountInv'
BY DEF CountInv, OneEdit, Fresh, PagesRight

LEMMA ReturnCounts ==
    ASSUME IInv, CountInv, NEW s \in Streams, Refuse(s) \/ Unregister(s)
    PROVE  CountInv'
<1>1. /\ handler' = [handler EXCEPT ![s] = "returned"]
      /\ UNCHANGED <<members, listed, wire, hook, store, worker, overlap>>
  BY DEF Refuse, Unregister
<1>2. \A r \in Streams : handler'[r] = handler[r] \/ handler'[r] = "returned"
  BY <1>1 DEF IInv, Types, Publisher
<1>3. \A r \in Streams, h \in DOMAIN members : PageRight(r, h) => PageRight(r, h)'
  BY <1>1, <1>2 DEF PageRight, Subscribed, Size
<1> QED BY <1>1, <1>3, PageCounts

LEMMA RegisterCounts ==
    ASSUME IInv, CountInv, NEW s \in Streams, Register(s)
    PROVE  CountInv'
<1>1. /\ handler' = [handler EXCEPT ![s] = "listed"] /\ listed' = [listed EXCEPT ![s] = Summaries]
      /\ UNCHANGED <<members, wire, hook, store, worker, overlap>>
  BY DEF Register
<1>2. /\ handler'[s] = "listed" /\ listed'[s] = Summaries
      /\ \A r \in Streams \ {s} : handler'[r] = handler[r] /\ listed'[r] = listed[r]
  BY <1>1 DEF IInv, Types, Publisher
<1>3. \A h \in DOMAIN members : Summaries[h] = Size(h)
  BY DEF Summaries, Size
<1>4. ASSUME NEW r \in Streams, NEW h \in DOMAIN members, PageRight(r, h)
      PROVE  PageRight(r, h)'
  <2>1. CASE r = s
    BY <2>1, <1>1, <1>2, <1>3 DEF PageRight, Subscribed, Size
  <2>2. CASE r # s
    BY <2>2, <1>1, <1>2, <1>4 DEF PageRight, Subscribed, Size
  <2> QED BY <2>1, <2>2
<1> QED BY <1>1, <1>4, PageCounts

LEMMA WriteSnapshotCounts ==
    ASSUME IInv, CountInv, NEW s \in Streams, WriteSnapshot(s)
    PROVE  CountInv'
<1> DEFINE e == Event("snapshot", listed[s])
<1>1. /\ handler[s] = "listed" /\ wire' = Written(s, e)
      /\ handler' = [handler EXCEPT ![s] = "open"] /\ listed' = [listed EXCEPT ![s] = Empty]
      /\ UNCHANGED <<members, hook, store, worker, overlap>>
  BY DEF WriteSnapshot
<1>2. wire[s] = <<>> /\ wire[s] \in Seq(Events) /\ DOMAIN store[s] = {}
  BY <1>1 DEF IInv, Registered, Types, Pages
<1>3. e \in Events /\ e.counts = listed[s]
  BY EventIntro DEF IInv, Types, Publisher
<1> HIDE DEF e
<1>4. /\ hook[s] = "live" => wire'[s] = Append(wire[s], e)
      /\ \A r \in Streams \ {s} : wire'[r] = wire[r]
  BY <1>1, <1>3, WrittenFacts
<1>5. /\ handler'[s] = "open"
      /\ \A r \in Streams \ {s} : handler'[r] = handler[r] /\ listed'[r] = listed[r]
  BY <1>1 DEF IInv, Types, Publisher
<1>6. ASSUME NEW r \in Streams, NEW h \in DOMAIN members, PageRight(r, h)
      PROVE  PageRight(r, h)'
  <2>1. CASE r = s
    <3>1. Mentions(e, h) => e.counts[h] = Size(h)
      BY <2>1, <1>1, <1>3, <1>6 DEF PageRight, Mentions
    <3>2. ShowsIn(store[s], wire[s], h, Size(h))
      <4>1. Len(wire[s]) = 0
        BY <1>2
      <4> QED BY <4>1, <1>2 DEF ShowsIn
    <3>3. ShowsIn(store[s], Append(wire[s], e), h, Size(h))
      BY <3>1, <3>2, <1>2, <1>3, ShowsAppend
    <3> QED BY <2>1, <3>3, <1>1, <1>4, <1>5 DEF PageRight, Subscribed, Size
  <2>2. CASE r # s
    BY <2>2, <1>1, <1>4, <1>5, <1>6 DEF PageRight, Subscribed, Size
  <2> QED BY <2>1, <2>2
<1> QED BY <1>1, <1>6, PageCounts

LEMMA MountCounts ==
    ASSUME IInv, CountInv, NEW s \in Streams, Mount(s)
    PROVE  CountInv'
<1>1. /\ hook' = [hook EXCEPT ![s] = "live"] /\ handler' = [handler EXCEPT ![s] = "called"]
      /\ UNCHANGED <<members, listed, wire, store, worker, overlap>>
  BY DEF Mount
<1>2. /\ handler'[s] = "called"
      /\ \A r \in Streams \ {s} : hook'[r] = hook[r] /\ handler'[r] = handler[r]
  BY <1>1 DEF IInv, Types, Publisher, Pages
<1>3. \A r \in Streams, h \in DOMAIN members : PageRight(r, h) => PageRight(r, h)'
  BY <1>1, <1>2 DEF PageRight, Subscribed, Size
<1> QED BY <1>1, <1>3, PageCounts

LEMMA ReceiveCounts ==
    ASSUME IInv, CountInv, NEW s \in Streams, Receive(s)
    PROVE  CountInv'
<1>1. /\ wire[s] # <<>> /\ wire' = [wire EXCEPT ![s] = Tail(wire[s])]
      /\ store' = [store EXCEPT ![s] = Apply(store[s], Head(wire[s]))]
      /\ UNCHANGED <<members, handler, listed, hook, worker, overlap>>
  BY DEF Receive
<1>2. wire[s] \in Seq(Events) /\ store[s] \in Countings
  BY DEF IInv, Types, Pages
<1>3. /\ wire'[s] = Tail(wire[s]) /\ store'[s] = Apply(store[s], Head(wire[s]))
      /\ \A r \in Streams \ {s} : wire'[r] = wire[r] /\ store'[r] = store[r]
  BY <1>1 DEF IInv, Types, Pages
<1>4. ASSUME NEW r \in Streams, NEW h \in DOMAIN members, PageRight(r, h)
      PROVE  PageRight(r, h)'
  <2>1. CASE r = s
    <3>1. ShowsIn(store[s], wire[s], h, Size(h)) => ShowsIn(store'[s], wire'[s], h, Size(h))
      BY <1>1, <1>2, <1>3, ShowsTail
    <3> QED BY <2>1, <3>1, <1>1, <1>4 DEF PageRight, Subscribed, Size
  <2>2. CASE r # s
    BY <2>2, <1>1, <1>3, <1>4 DEF PageRight, Subscribed, Size
  <2> QED BY <2>1, <2>2
<1> QED BY <1>1, <1>4, PageCounts

LEMMA EndOfPageCounts ==
    ASSUME IInv, CountInv, NEW s \in Streams, Fail(s) \/ Unmount(s)
    PROVE  CountInv'
<1>1. PICK k \in {"failed", "gone"} :
         /\ hook' = [hook EXCEPT ![s] = k] /\ wire' = [wire EXCEPT ![s] = <<>>]
         /\ store' = store \/ store' = [store EXCEPT ![s] = Empty]
         /\ UNCHANGED <<members, handler, listed, worker, overlap>>
  BY DEF Fail, Unmount
<1>2. /\ hook'[s] # "live"
      /\ \A r \in Streams \ {s} : hook'[r] = hook[r] /\ wire'[r] = wire[r] /\ store'[r] = store[r]
  BY <1>1 DEF IInv, Types, Pages
<1>3. ASSUME NEW r \in Streams, NEW h \in DOMAIN members, PageRight(r, h)
      PROVE  PageRight(r, h)'
  BY <1>1, <1>2, <1>3 DEF PageRight, Subscribed, Size
<1> QED BY <1>1, <1>3, PageCounts

LEMMA InitCounts == Init => CountInv
<1> SUFFICES ASSUME Init PROVE CountInv
  OBVIOUS
<1>1. \A s \in Streams : handler[s] = "none"
  BY DEF Init
<1>2. \A t \in Workers : worker[t].pc = "idle"
  BY IdleWork DEF Init
<1>3. PagesRight
  BY <1>1 DEF PagesRight, PageRight, Subscribed
<1> QED BY <1>2, <1>3 DEF CountInv, OneEdit, Fresh, FreshWork

LEMMA NextCounts == IInv /\ CountInv /\ [Next]_vars => CountInv'
<1> SUFFICES ASSUME IInv, CountInv, [Next]_vars PROVE CountInv'
  OBVIOUS
<1>1. ASSUME NEW s \in Streams, Serve(s) PROVE CountInv'
  BY <1>1, ReturnCounts, RegisterCounts, WriteSnapshotCounts DEF Serve
<1>2. ASSUME NEW s \in Streams, Mount(s) \/ Receive(s) \/ Fail(s) \/ Unmount(s) PROVE CountInv'
  BY <1>2, MountCounts, ReceiveCounts, EndOfPageCounts
<1>3. ASSUME NEW t \in Workers, Publish(t) PROVE CountInv'
  BY <1>3, RecountCounts, LookupCounts, WriteEventCounts DEF Publish
<1>4. ASSUME NEW t \in Workers, NEW h \in Channels, Create(t, h) \/ ReadCopy(t, h) PROVE CountInv'
  BY <1>4, CreateCounts, ReadCopyCounts
<1>5. ASSUME NEW t \in Workers, NEW c \in Clients, Edit(t, c) PROVE CountInv'
  BY <1>5, AddMemberCounts, RemoveMemberCounts, EndCounts DEF Edit
<1>6. CASE UNCHANGED vars
  <2>1. UNCHANGED <<members, handler, listed, wire, hook, store, worker, overlap>>
    BY <1>6 DEF vars
  <2>2. \A s \in Streams, h \in DOMAIN members : PageRight(s, h) => PageRight(s, h)'
    BY <2>1 DEF PageRight, Subscribed, Size
  <2> QED BY <2>1, <2>2, PageCounts
<1> QED BY <1>1, <1>2, <1>3, <1>4, <1>5, <1>6 DEF Next

\* With nothing on the wire and no thread at work, the page shows the channels
\* the repository has (no channel is missed) and their counts.
LEMMA QuietCounts == IInv /\ CountInv => CountsAgree
<1> SUFFICES ASSUME IInv, CountInv, NEW s \in Streams, Subscribed(s), ~overlap, wire[s] = <<>>,
                    \A t \in Workers : worker[t].pc = "idle"
             PROVE  store[s] = Summaries
  BY DEF CountsAgree
<1>1. \A i \in 1..Len(wire[s]) : FALSE
  BY SMT
<1>2. DOMAIN store[s] = DOMAIN members
  <2>1. \A h \in DOMAIN members : h \in DOMAIN store[s]
    BY <1>1 DEF IInv, Covered, PageCovers, Told, Owes
  <2> QED BY <2>1 DEF IInv, Wires
<1>3. ASSUME NEW h \in DOMAIN members
      PROVE  store[s][h] = Size(h)
  <2>1. ShowsIn(store[s], wire[s], h, Size(h))
    BY DEF CountInv, PagesRight, PageRight, WillTell
  <2> QED BY <1>1, <1>2, <2>1 DEF ShowsIn
<1>4. store[s] = [h \in DOMAIN members |-> store[s][h]]
  <2>1. store[s] \in [DOMAIN store[s] -> Nat]
    BY CountingsElim DEF IInv, Types, Pages
  <2> QED BY <1>2, <2>1
<1> QED BY <1>3, <1>4 DEF Summaries, Size

\* For any number of channels, clients, pages and threads: once all is quiet a
\* page that subscribed at any point shows the repository's member counts, as
\* long as no two changes overlapped and no session expired.  The snapshot may
\* have read a count that a change in progress then replaced: its event comes
\* behind the snapshot, as its lookup waits for mutex_.
THEOREM CountsAgreeCorrect == Spec => []CountsAgree
<1>1. IInv /\ CountInv /\ [Next]_vars => CountInv'
  BY NextCounts
<1>2. IInv /\ CountInv => CountsAgree
  BY QuietCounts
<1> QED BY <1>1, <1>2, InitCounts, Invariant, PTL DEF Spec
=============================================================================
