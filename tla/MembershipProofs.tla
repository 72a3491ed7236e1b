-------------------------- MODULE MembershipProofs --------------------------
(* Machine-checked proofs about Membership, for any number of clients,     *)
(* channels and threads.                                                   *)
EXTENDS Membership, TLAPS

-----------------------------------------------------------------------------
(* The operators the model is built from.                                  *)

\* The frame a thread starts with.
LEMMA StartedFields ==
    ASSUME NEW op, NEW pc, NEW c, NEW todo
    PROVE  /\ Started(op, pc, c, todo).op = op
           /\ Started(op, pc, c, todo).pc = pc
           /\ Started(op, pc, c, todo).client = c
           /\ Started(op, pc, c, todo).todo = todo
           /\ Started(op, pc, c, todo).channel = None
           /\ Started(op, pc, c, todo).from = None
           /\ Started(op, pc, c, todo).copy = {}
           /\ Started(op, pc, c, todo).rest = {}
  BY DEF Started, Idle

LEMMA StartedType ==
    ASSUME NEW op \in {"create", "join", "leave", "disconnect", "expire"},
           NEW pc \in {"create", "find", "session", "rmFind", "remove", "sweep"},
           NEW c \in ClientIds \cup {None}, NEW todo \in SUBSET ChannelIds
    PROVE  Started(op, pc, c, todo) \in Frame
  BY DEF Started, Idle, Frame

LEMMA IdleType == Idle \in Frame
  BY DEF Idle, Frame

\* What Advance changes: the program counter and the channel being left.
LEMMA AdvanceFields ==
    ASSUME NEW f \in Frame, f.op # "leave"
    PROVE  /\ Advance(f) \in Frame
           /\ Advance(f).op = f.op
           /\ Advance(f).client = f.client
           /\ Advance(f).channel = f.channel
           /\ Advance(f).copy = f.copy
           /\ Advance(f).todo = f.todo
           /\ Advance(f).from = None
           /\ f.todo # {} => Advance(f).pc \in {"session", "rmFind"}
           /\ f.todo = {} /\ f.op = "join" =>
                 Advance(f).pc = IF f.client \in f.copy THEN "joinAtomic" ELSE "addMember"
           /\ f.todo = {} /\ f.op # "join" => Advance(f).pc = "remove"
           /\ f.op # "disconnect" => Advance(f).pc # "session"
           /\ f.op = "disconnect" => Advance(f).pc # "rmFind"
  <1>1. /\ f.todo # {} /\ f.op = "disconnect" => AfterChannel(f) = "session"
        /\ f.todo # {} /\ f.op # "disconnect" => AfterChannel(f) = "rmFind"
        /\ f.todo = {} /\ f.op = "join" /\ f.client \notin f.copy => AfterChannel(f) = "addMember"
        /\ f.todo = {} /\ f.op = "join" /\ f.client \in f.copy => AfterChannel(f) = "joinAtomic"
        /\ f.todo = {} /\ f.op # "join" => AfterChannel(f) = "remove"
    BY DEF AfterChannel
  <1>2. Advance(f) = [f EXCEPT !.pc = AfterChannel(f), !.from = None, !.rest = {}]
    BY DEF Advance
  <1> QED
    BY <1>1, <1>2 DEF Frame

LEMMA AdvanceLeave ==
    ASSUME NEW f \in Frame, f.op = "leave"
    PROVE  Advance(f) = Idle
  BY DEF Advance

-----------------------------------------------------------------------------
(* Type correctness.  TypeOK is not inductive alone: saving a copy indexes *)
(* the channel by the name found under the frame's id, so a frame that is  *)
(* about to save must name a channel that exists.                          *)

FrameOK(f, channels) ==
    /\ f.pc \notin {"idle", "sweep"} => f.client \in ClientIds
    /\ f.pc = "rmSave" => f.from \in channels
    /\ f.op = "join" /\ f.pc # "find" => f.channel \in channels
    /\ f.pc \in {"find", "addMember", "joinAtomic"} => f.op = "join"
    /\ f.pc = "session" => f.op = "disconnect"
    /\ f.pc \in {"rmFind", "rmSave", "leaveAtomic"} => f.op \notin {"none", "create"}
    /\ f.pc = "remove" => f.op \in {"disconnect", "expire"}
    /\ f.pc = "idle" => f.client = None

FramesOK == \A t \in Threads : FrameOK(thread[t], DOMAIN channels_by_id)

TypeInv == TypeOK /\ FramesOK

LEMMA FrameOKIdle == \A D : FrameOK(Idle, D)
  BY DEF FrameOK, Idle

\* Between channels, a frame that is not a LeaveChannel goes on in good order.
LEMMA FrameOKAdvance ==
    ASSUME NEW D, NEW f \in Frame, f.client \in ClientIds,
           f.op \in {"join", "leave", "disconnect", "expire"},
           f.op = "join" => f.channel \in D
    PROVE  Advance(f) \in Frame /\ FrameOK(Advance(f), D)
  <1>1. CASE f.op = "leave"
    BY <1>1, AdvanceLeave, FrameOKIdle, IdleType
  <1>2. CASE f.op # "leave"
    BY <1>2, AdvanceFields DEF FrameOK
  <1> QED
    BY <1>1, <1>2

\* One thread moves to a good frame, the others stay, no channel disappears.
LEMMA GotoTyped ==
    ASSUME thread \in [Threads -> Frame], FramesOK,
           NEW t \in Threads, NEW STATE f, f \in Frame, Goto(t, f),
           FrameOK(f, DOMAIN channels_by_id'),
           DOMAIN channels_by_id \subseteq DOMAIN channels_by_id'
    PROVE  thread' \in [Threads -> Frame] /\ FramesOK'
  <1>1. thread' = [thread EXCEPT ![t] = f]
    BY DEF Goto
  <1>2. \A u \in Threads : FrameOK(thread'[u], DOMAIN channels_by_id')
    <2> SUFFICES ASSUME NEW u \in Threads
                 PROVE  FrameOK(thread'[u], DOMAIN channels_by_id')
      OBVIOUS
    <2>1. CASE u = t
      BY <1>1, <2>1
    <2>2. CASE u # t
      <3>1. thread'[u] = thread[u] /\ FrameOK(thread[u], DOMAIN channels_by_id)
        BY <1>1, <2>2 DEF FramesOK
      <3> QED
        BY <3>1 DEF FrameOK
    <2> QED
      BY <2>1, <2>2
  <1> QED
    BY <1>1, <1>2 DEF FramesOK

LEMMA TypeInit == Init => TypeInv
  <1> SUFFICES ASSUME Init PROVE TypeInv
    OBVIOUS
  <1>1. TypeOK
    BY MembershipAssumption, IdleType DEF Init, TypeOK, Channel
  <1>2. FramesOK
    BY FrameOKIdle DEF Init, FramesOK
  <1> QED
    BY <1>1, <1>2 DEF TypeInv

\* A step that only moves a thread to a good frame.
LEMMA TypeMove ==
    ASSUME TypeInv, contended' \in BOOLEAN,
           UNCHANGED <<registry, repository, batch>>,
           NEW t \in Threads, NEW STATE f, f \in Frame, Goto(t, f),
           FrameOK(f, DOMAIN channels_by_id)
    PROVE  TypeInv'
  <1>1. UNCHANGED <<clients_by_id, username_to_id, historical_usernames,
                    channels_by_id, name_to_id, batch>>
    BY DEF registry, repository
  <1>2. thread' \in [Threads -> Frame] /\ FramesOK'
    BY <1>1, GotoTyped DEF TypeInv, TypeOK
  <1> QED
    BY <1>1, <1>2 DEF TypeInv, TypeOK

LEMMA TypeConnect ==
    ASSUME TypeInv, contended' \in BOOLEAN,
           NEW c \in ClientIds, NEW u \in Usernames, Connect(c, u)
    PROVE  TypeInv'
  <1> DEFINE s == [username |-> u, joined |-> {}, fresh |-> TRUE]
  <1>1. s \in Session
    BY DEF Session
  <1>2. /\ DOMAIN clients_by_id' = DOMAIN clients_by_id \cup {c}
        /\ clients_by_id' \in [DOMAIN clients_by_id' -> Session]
    BY <1>1 DEF TypeInv, TypeOK, Connect, InsertOrAssign
  <1>3. /\ DOMAIN username_to_id' = DOMAIN username_to_id \cup {u}
        /\ username_to_id' \in [DOMAIN username_to_id' -> ClientIds]
    BY DEF TypeInv, TypeOK, Connect, InsertOrAssign
  <1>4. /\ DOMAIN historical_usernames' = DOMAIN historical_usernames \cup {c}
        /\ historical_usernames' \in [DOMAIN historical_usernames' -> Usernames]
    BY DEF TypeInv, TypeOK, Connect, InsertOrAssign
  <1>5. UNCHANGED <<channels_by_id, name_to_id, thread, batch>>
    BY DEF Connect, repository
  <1> HIDE DEF s
  <1> QED
    BY <1>2, <1>3, <1>4, <1>5 DEF TypeInv, TypeOK, FramesOK

LEMMA TypeClock ==
    ASSUME TypeInv, contended' \in BOOLEAN,
           NEW c \in ClientIds, Heartbeat(c) \/ Age(c)
    PROVE  TypeInv'
  <1>1. \E b \in BOOLEAN : clients_by_id' = [clients_by_id EXCEPT ![c].fresh = b]
    BY DEF Heartbeat, Age
  <1>2. DOMAIN clients_by_id' = DOMAIN clients_by_id
    BY <1>1
  <1>3. clients_by_id' \in [DOMAIN clients_by_id -> Session]
    BY <1>1 DEF TypeInv, TypeOK, Session
  <1>4. UNCHANGED <<username_to_id, historical_usernames, repository, thread, batch>>
    BY DEF Heartbeat, Age
  <1> QED
    BY <1>2, <1>3, <1>4 DEF TypeInv, TypeOK, FramesOK, repository

\* The first step of each request.
LEMMA TypeBegin ==
    ASSUME TypeInv, contended' \in BOOLEAN,
           NEW t \in Workers, NEW c \in ClientIds, NEW h \in ChannelIds,
           CreateBegin(t, c) \/ JoinBegin(t, c) \/ DisconnectBegin(t, c)
             \/ LeaveBegin(t, c, h)
    PROVE  TypeInv'
  <1> USE DEF Threads
  <1>0. Live(c) /\ clients_by_id[c].joined \in SUBSET ChannelIds
    BY DEF CreateBegin, JoinBegin, DisconnectBegin, LeaveBegin, Live, TypeInv, TypeOK, Session
  <1>1. CASE CreateBegin(t, c)
    <2>1. LET f == Started("create", "create", c, {})
          IN  f \in Frame /\ FrameOK(f, DOMAIN channels_by_id)
      BY StartedType, StartedFields DEF FrameOK
    <2> QED
      BY <1>1, <2>1, TypeMove DEF CreateBegin, Begin
  <1>2. CASE JoinBegin(t, c)
    <2>1. LET f == Started("join", "find", c, clients_by_id[c].joined)
          IN  f \in Frame /\ FrameOK(f, DOMAIN channels_by_id)
      BY <1>0, StartedType, StartedFields DEF FrameOK
    <2> QED
      BY <1>2, <2>1, TypeMove DEF JoinBegin, Begin
  <1>3. CASE LeaveBegin(t, c, h)
    <2>1. LET f == Started("leave", "rmFind", c, {h})
          IN  f \in Frame /\ FrameOK(f, DOMAIN channels_by_id)
      BY StartedType, StartedFields DEF FrameOK
    <2> QED
      BY <1>3, <2>1, TypeMove DEF LeaveBegin, Begin
  <1>4. CASE DisconnectBegin(t, c)
    <2> DEFINE g == Started("disconnect", "session", c, clients_by_id[c].joined)
    <2>1. g \in Frame /\ g.op = "disconnect" /\ g.client = c
      BY <1>0, StartedType, StartedFields
    <2>2. Advance(g) \in Frame /\ FrameOK(Advance(g), DOMAIN channels_by_id)
      <3> HIDE DEF g
      <3> QED
        BY <2>1, FrameOKAdvance
    <2> QED
      BY <1>4, <2>2, TypeMove DEF DisconnectBegin, Begin
  <1> QED
    BY <1>1, <1>2, <1>3, <1>4

LEMMA TypeCreateStore ==
    ASSUME TypeInv, contended' \in BOOLEAN,
           NEW t \in Threads, NEW n \in Names, NEW h \in ChannelIds,
           CreateStore(t, n, h)
    PROVE  TypeInv'
  <1>1. CASE UNCHANGED repository
    BY <1>1, TypeMove, IdleType, FrameOKIdle DEF CreateStore
  <1>2. CASE /\ channels_by_id' = InsertOrAssign(channels_by_id, h,
                                     [name |-> n, members |-> {}])
             /\ name_to_id' = InsertOrAssign(name_to_id, n, h)
    <2>1. /\ DOMAIN channels_by_id' = DOMAIN channels_by_id \cup {h}
          /\ channels_by_id' \in [DOMAIN channels_by_id' -> Channel]
      BY <1>2 DEF TypeInv, TypeOK, Channel, InsertOrAssign
    <2>2. /\ DOMAIN name_to_id' = DOMAIN name_to_id \cup {n}
          /\ name_to_id' \in [DOMAIN name_to_id' -> ChannelIds]
      BY <1>2 DEF TypeInv, TypeOK, InsertOrAssign
    <2>3. thread' \in [Threads -> Frame] /\ FramesOK'
      <3>1. Goto(t, Idle)
        BY DEF CreateStore
      <3> QED
        BY <2>1, <3>1, GotoTyped, IdleType, FrameOKIdle DEF TypeInv, TypeOK
    <2>4. UNCHANGED <<clients_by_id, username_to_id, historical_usernames, batch>>
      BY DEF CreateStore, registry
    <2> QED
      BY <2>1, <2>2, <2>3, <2>4 DEF TypeInv, TypeOK
  <1> QED
    BY <1>1, <1>2 DEF CreateStore

\* What a frame at a given point satisfies, in the form the steps use it.
LEMMA FrameFacts ==
    ASSUME TypeInv, NEW t \in Threads
    PROVE  /\ thread[t] \in Frame
           /\ FrameOK(thread[t], DOMAIN channels_by_id)
  BY DEF TypeInv, TypeOK, FramesOK

\* The steps of the loop that only read the stores.
LEMMA TypeRmFind ==
    ASSUME TypeInv, contended' \in BOOLEAN,
           NEW t \in Threads, NEW h \in ChannelIds, RmFind(t, h)
    PROVE  TypeInv'
  <1> DEFINE f == thread[t]
             g == [f EXCEPT !.todo = @ \ {h}, !.from = h]
             save == [g EXCEPT !.pc = "rmSave",
                               !.rest = channels_by_id[h].members \ {f.client}]
  <1>1. /\ f \in Frame /\ FrameOK(f, DOMAIN channels_by_id)
        /\ f.pc = "rmFind"
        /\ UNCHANGED <<registry, repository, batch>>
    BY FrameFacts DEF RmFind
  <1>2. /\ g \in Frame /\ g.client \in ClientIds /\ g.op = f.op
        /\ g.op = "join" => g.channel \in DOMAIN channels_by_id
    BY <1>1 DEF Frame, FrameOK
  <1>3. CASE Goto(t, save) /\ h \in DOMAIN channels_by_id
    <2>1. channels_by_id[h].members \in SUBSET ClientIds
      BY <1>3 DEF TypeInv, TypeOK, Channel
    <2>2. save \in Frame /\ FrameOK(save, DOMAIN channels_by_id)
      BY <1>1, <1>2, <1>3, <2>1 DEF Frame, FrameOK
    <2> QED
      BY <1>1, <1>3, <2>2, TypeMove
  <1>4. CASE Goto(t, RmFailed(g))
    <2>1. RmFailed(g) \in Frame /\ FrameOK(RmFailed(g), DOMAIN channels_by_id)
      <3>1. CASE g.op = "join"
        <4>1. RmFailed(g) = [g EXCEPT !.pc = "leaveAtomic"]
          BY <3>1 DEF RmFailed
        <4> QED
          BY <4>1, <1>2, <3>1 DEF Frame, FrameOK
      <3>2. CASE g.op \in {"leave", "disconnect", "expire"}
        <4>1. RmFailed(g) = Advance(g)
          BY <3>2 DEF RmFailed
        <4> QED
          BY <4>1, <1>2, <3>2, FrameOKAdvance
      <3> QED
        BY <1>1, <1>2, <3>1, <3>2 DEF Frame, FrameOK
    <2> QED
      BY <1>1, <1>4, <2>1, TypeMove
  <1> QED
    BY <1>3, <1>4 DEF RmFind

LEMMA TypeLeaveSession ==
    ASSUME TypeInv, contended' \in BOOLEAN,
           NEW t \in Threads, NEW h \in ChannelIds, LeaveSession(t, h)
    PROVE  TypeInv'
  <1> DEFINE f == thread[t]
             again == [f EXCEPT !.pc = "rmFind"]
             skip == [f EXCEPT !.todo = @ \ {h}]
  <1>1. /\ f \in Frame /\ FrameOK(f, DOMAIN channels_by_id)
        /\ f.pc = "session"
        /\ UNCHANGED <<registry, repository, batch>>
    BY FrameFacts DEF LeaveSession
  <1>2. again \in Frame /\ FrameOK(again, DOMAIN channels_by_id)
    BY <1>1 DEF Frame, FrameOK
  <1>3. skip \in Frame /\ skip.op = "disconnect" /\ skip.client \in ClientIds
    BY <1>1 DEF Frame, FrameOK
  <1>4. Advance(skip) \in Frame /\ FrameOK(Advance(skip), DOMAIN channels_by_id)
    <2> HIDE DEF skip
    <2> QED
      BY <1>3, FrameOKAdvance
  <1>5. Goto(t, again) \/ Goto(t, Advance(skip))
    BY DEF LeaveSession
  <1> QED
    BY <1>1, <1>2, <1>4, <1>5, TypeMove

LEMMA TypeJoinFind ==
    ASSUME TypeInv, contended' \in BOOLEAN,
           NEW t \in Threads, NEW h \in ChannelIds, NEW n \in Names,
           JoinFindById(t, h) \/ JoinFindByName(t, n)
    PROVE  TypeInv'
  <1>1. /\ thread[t] \in Frame /\ FrameOK(thread[t], DOMAIN channels_by_id)
        /\ thread[t].pc = "find"
        /\ UNCHANGED <<registry, repository, batch>>
    BY FrameFacts DEF JoinFindById, JoinFindByName
  <1>2. CASE Goto(t, Idle)
    BY <1>1, <1>2, TypeMove, IdleType, FrameOKIdle
  <1>3. ASSUME NEW k \in DOMAIN channels_by_id, JoinTarget(t, k)
        PROVE  TypeInv'
    <2> DEFINE g == [thread[t] EXCEPT !.channel = k,
                                      !.copy = channels_by_id[k].members,
                                      !.todo = @ \ {k}]
    <2>1. channels_by_id[k].members \in SUBSET ClientIds /\ k \in ChannelIds
      BY DEF TypeInv, TypeOK, Channel
    <2>2. g \in Frame /\ g.op = "join" /\ g.client \in ClientIds /\ g.channel = k
      BY <1>1, <2>1 DEF Frame, FrameOK
    <2>3. Advance(g) \in Frame /\ FrameOK(Advance(g), DOMAIN channels_by_id)
      <3> HIDE DEF g
      <3> QED
        BY <2>2, FrameOKAdvance
    <2>4. Goto(t, Advance(g))
      BY <1>3 DEF JoinTarget
    <2> QED
      BY <1>1, <2>3, <2>4, TypeMove
  <1> QED
    BY <1>2, <1>3 DEF JoinFindById, JoinFindByName

\* A save of a copy keeps the set of channels and the type of both maps.
LEMMA TypeSave ==
    ASSUME TypeInv, NEW t \in Threads, RmSave(t) \/ AddMember(t)
    PROVE  /\ DOMAIN channels_by_id' = DOMAIN channels_by_id
           /\ channels_by_id' \in [DOMAIN channels_by_id -> Channel]
           /\ DOMAIN name_to_id' \subseteq Names
           /\ name_to_id' \in [DOMAIN name_to_id' -> ChannelIds]
           /\ UNCHANGED <<clients_by_id, username_to_id, historical_usernames, batch>>
  <1>1. thread[t] \in Frame /\ FrameOK(thread[t], DOMAIN channels_by_id)
    BY FrameFacts
  <1>2. PICK k \in DOMAIN channels_by_id, m \in SUBSET ClientIds :
           /\ channels_by_id' = [channels_by_id EXCEPT ![k].members = m]
           /\ name_to_id' = InsertOrAssign(name_to_id, channels_by_id[k].name, k)
    <2>1. CASE RmSave(t)
      BY <1>1, <2>1 DEF RmSave, Frame, FrameOK
    <2>2. CASE AddMember(t)
      <3>1. /\ thread[t].channel \in DOMAIN channels_by_id
            /\ thread[t].copy \cup {thread[t].client} \in SUBSET ClientIds
        BY <1>1, <2>2 DEF AddMember, Frame, FrameOK
      <3> QED
        BY <2>2, <3>1 DEF AddMember
    <2> QED
      BY <2>1, <2>2
  <1>3. channels_by_id[k].name \in Names /\ k \in ChannelIds
    BY DEF TypeInv, TypeOK, Channel
  <1>4. /\ DOMAIN name_to_id' \subseteq Names
        /\ name_to_id' \in [DOMAIN name_to_id' -> ChannelIds]
    BY <1>2, <1>3 DEF TypeInv, TypeOK, InsertOrAssign
  <1>5. UNCHANGED <<clients_by_id, username_to_id, historical_usernames, batch>>
    BY DEF RmSave, AddMember, registry
  <1> QED
    BY <1>2, <1>4, <1>5 DEF TypeInv, TypeOK, Channel

LEMMA TypeRmSave ==
    ASSUME TypeInv, contended' \in BOOLEAN,
           NEW t \in Threads, RmSave(t)
    PROVE  TypeInv'
  <1> DEFINE f == thread[t]
             next == [f EXCEPT !.pc = "leaveAtomic", !.rest = {}]
  <1>1. f \in Frame /\ FrameOK(f, DOMAIN channels_by_id) /\ f.pc = "rmSave"
    BY FrameFacts DEF RmSave
  <1>2. next \in Frame /\ FrameOK(next, DOMAIN channels_by_id)
    BY <1>1 DEF Frame, FrameOK
  <1>3. f.op = "expire" => Advance(f) \in Frame /\ FrameOK(Advance(f), DOMAIN channels_by_id)
    BY <1>1, FrameOKAdvance DEF FrameOK
  <1>4. (f.op = "expire" /\ Goto(t, Advance(f))) \/ Goto(t, next)
    BY DEF RmSave
  <1>5. thread' \in [Threads -> Frame] /\ FramesOK'
    <2> HIDE DEF f, next
    <2> QED
      BY <1>2, <1>3, <1>4, TypeSave, GotoTyped DEF TypeInv, TypeOK
  <1> QED
    BY <1>5, TypeSave DEF TypeInv, TypeOK

LEMMA TypeAddMember ==
    ASSUME TypeInv, contended' \in BOOLEAN,
           NEW t \in Threads, AddMember(t)
    PROVE  TypeInv'
  <1> DEFINE f == thread[t]
             next == [f EXCEPT !.pc = "joinAtomic"]
  <1>1. f \in Frame /\ FrameOK(f, DOMAIN channels_by_id) /\ f.pc = "addMember"
    BY FrameFacts DEF AddMember
  <1>2. next \in Frame /\ FrameOK(next, DOMAIN channels_by_id)
    BY <1>1 DEF Frame, FrameOK
  <1>3. Goto(t, next)
    BY DEF AddMember
  <1>4. thread' \in [Threads -> Frame] /\ FramesOK'
    <2> HIDE DEF f, next
    <2> QED
      BY <1>2, <1>3, TypeSave, GotoTyped DEF TypeInv, TypeOK
  <1> QED
    BY <1>4, TypeSave DEF TypeInv, TypeOK

\* The steps that change the session of the thread's client.
LEMMA TypeLeaveAtomic ==
    ASSUME TypeInv, contended' \in BOOLEAN,
           NEW t \in Threads, LeaveAtomic(t)
    PROVE  TypeInv'
  <1> DEFINE f == thread[t]
  <1>1. f \in Frame /\ FrameOK(f, DOMAIN channels_by_id) /\ f.pc = "leaveAtomic"
    BY FrameFacts DEF LeaveAtomic
  <1>2. Advance(f) \in Frame /\ FrameOK(Advance(f), DOMAIN channels_by_id)
    <2>1. /\ f.client \in ClientIds /\ f.op \in {"join", "leave", "disconnect", "expire"}
          /\ f.op = "join" => f.channel \in DOMAIN channels_by_id
      BY <1>1 DEF Frame, FrameOK
    <2> HIDE DEF f
    <2> QED
      BY <1>1, <2>1, FrameOKAdvance
  <1>3. /\ Goto(t, Advance(f))
        /\ UNCHANGED <<username_to_id, historical_usernames, channels_by_id, name_to_id, batch>>
    BY DEF LeaveAtomic, repository
  <1>4. /\ DOMAIN clients_by_id' = DOMAIN clients_by_id
        /\ clients_by_id' \in [DOMAIN clients_by_id -> Session]
    BY DEF LeaveAtomic, TypeInv, TypeOK, Session
  <1>5. thread' \in [Threads -> Frame] /\ FramesOK'
    <2> HIDE DEF f
    <2> QED
      BY <1>2, <1>3, GotoTyped DEF TypeInv, TypeOK
  <1> QED
    BY <1>3, <1>4, <1>5 DEF TypeInv, TypeOK

LEMMA TypeJoinAtomic ==
    ASSUME TypeInv, contended' \in BOOLEAN,
           NEW t \in Threads, JoinAtomic(t)
    PROVE  TypeInv'
  <1>1. thread[t].channel \in ChannelIds
    BY FrameFacts DEF JoinAtomic, FrameOK, TypeInv, TypeOK
  <1>2. /\ Goto(t, Idle)
        /\ UNCHANGED <<username_to_id, historical_usernames, channels_by_id, name_to_id, batch>>
    BY DEF JoinAtomic, repository
  <1>3. /\ DOMAIN clients_by_id' = DOMAIN clients_by_id
        /\ clients_by_id' \in [DOMAIN clients_by_id -> Session]
    BY <1>1 DEF JoinAtomic, TypeInv, TypeOK, Session
  <1>4. thread' \in [Threads -> Frame] /\ FramesOK'
    BY <1>2, GotoTyped, IdleType, FrameOKIdle DEF TypeInv, TypeOK
  <1> QED
    BY <1>2, <1>3, <1>4 DEF TypeInv, TypeOK

LEMMA TypeRemove ==
    ASSUME TypeInv, contended' \in BOOLEAN,
           NEW t \in Threads, Remove(t)
    PROVE  TypeInv'
  <1>1. /\ DOMAIN clients_by_id' \subseteq ClientIds
        /\ clients_by_id' \in [DOMAIN clients_by_id' -> Session]
        /\ DOMAIN username_to_id' \subseteq Usernames
        /\ username_to_id' \in [DOMAIN username_to_id' -> ClientIds]
    BY DEF Remove, TypeInv, TypeOK, Erase
  <1>2. /\ Goto(t, Idle) \/ Goto(t, Started("expire", "sweep", None, {}))
        /\ UNCHANGED <<historical_usernames, channels_by_id, name_to_id, batch>>
    BY DEF Remove, repository
  <1>3. LET f == Started("expire", "sweep", None, {})
        IN  f \in Frame /\ FrameOK(f, DOMAIN channels_by_id)
    BY StartedType, StartedFields DEF FrameOK
  <1>4. thread' \in [Threads -> Frame] /\ FramesOK'
    BY <1>2, <1>3, GotoTyped, IdleType, FrameOKIdle DEF TypeInv, TypeOK
  <1> QED
    BY <1>1, <1>2, <1>4 DEF TypeInv, TypeOK

LEMMA TypeSweep ==
    ASSUME TypeInv, contended' \in BOOLEAN,
           NEW c \in ClientIds, CollectExpired \/ ExpireSession(c)
    PROVE  TypeInv'
  <1>0. /\ Sweeper \in Threads
        /\ UNCHANGED <<clients_by_id, username_to_id, historical_usernames,
                       channels_by_id, name_to_id>>
    BY DEF Threads, CollectExpired, ExpireSession, registry, repository
  <1>1. /\ DOMAIN batch' \subseteq ClientIds
        /\ batch' \in [DOMAIN batch' -> SUBSET ChannelIds]
    <2>1. CASE CollectExpired
      BY <2>1 DEF CollectExpired, Expired, TypeInv, TypeOK, Session
    <2>2. CASE ExpireSession(c)
      BY <2>2 DEF ExpireSession, Erase, TypeInv, TypeOK
    <2> QED
      BY <2>1, <2>2
  <1>2. thread' \in [Threads -> Frame] /\ FramesOK'
    <2>1. CASE CollectExpired
      <3> DEFINE f == Started("expire", "sweep", None, {})
      <3>1. f \in Frame /\ FrameOK(f, DOMAIN channels_by_id)
        BY StartedType, StartedFields DEF FrameOK
      <3>2. Goto(Sweeper, f)
        BY <2>1 DEF CollectExpired, Begin
      <3> HIDE DEF f
      <3> QED
        BY <1>0, <3>1, <3>2, GotoTyped DEF TypeInv, TypeOK
    <2>2. CASE ExpireSession(c)
      <3> DEFINE g == Started("expire", "sweep", c, batch[c])
      <3>1. batch[c] \in SUBSET ChannelIds
        BY <2>2 DEF ExpireSession, TypeInv, TypeOK
      <3>2. g \in Frame /\ g.op = "expire" /\ g.client = c
        BY <3>1, StartedType, StartedFields
      <3>3. Goto(Sweeper, Advance(g))
        BY <2>2 DEF ExpireSession
      <3> HIDE DEF g
      <3>4. Advance(g) \in Frame /\ FrameOK(Advance(g), DOMAIN channels_by_id)
        BY <3>2, FrameOKAdvance
      <3> QED
        BY <1>0, <3>3, <3>4, GotoTyped DEF TypeInv, TypeOK
    <2> QED
      BY <2>1, <2>2
  <1> QED
    BY <1>0, <1>1, <1>2 DEF TypeInv, TypeOK

\* Only the first step of a use case touches the history variable.
LEMMA ContendedStep == TypeOK /\ [Next]_vars => contended' \in BOOLEAN
  <1> SUFFICES ASSUME TypeOK, [Next]_vars PROVE contended' \in BOOLEAN
    OBVIOUS
  <1>1. \/ UNCHANGED contended
        \/ contended' = (contended \/ \E u \in Threads : thread[u].pc # "idle")
    BY DEF Next, vars, Environment, Sweep, Step, Connect, Heartbeat, Age, CreateBegin, JoinBegin,
           DisconnectBegin, LeaveBegin, Begin, CollectExpired, ExpireSession, CreateStore, RmFind,
           LeaveSession, JoinFindById, JoinFindByName, RmSave, LeaveAtomic, AddMember, JoinAtomic,
           Remove
  <1> QED
    BY <1>1 DEF TypeOK

LEMMA TypeStep == TypeInv /\ [Next]_vars => TypeInv'
  <1> SUFFICES ASSUME TypeInv, [Next]_vars PROVE TypeInv'
    OBVIOUS
  <1>0. contended' \in BOOLEAN
    BY ContendedStep DEF TypeInv
  <1>1. CASE Environment
    BY <1>0, <1>1, MembershipAssumption, TypeConnect, TypeClock, TypeBegin DEF Environment
  <1>2. CASE Sweep
    BY <1>0, <1>2, TypeSweep DEF Sweep, CollectExpired, Expired, TypeInv, TypeOK
  <1>3. ASSUME NEW t \in Threads, Step(t) PROVE TypeInv'
    BY <1>0, <1>3, MembershipAssumption, TypeCreateStore, TypeRmFind, TypeLeaveSession,
       TypeJoinFind, TypeRmSave, TypeLeaveAtomic, TypeAddMember, TypeJoinAtomic, TypeRemove
       DEF Step
  <1>4. CASE UNCHANGED vars
    BY <1>4 DEF vars, registry, repository, TypeInv, TypeOK, FramesOK
  <1> QED
    BY <1>1, <1>2, <1>3, <1>4 DEF Next

LEMMA TypeInvariant == Spec => []TypeInv
  BY TypeInit, TypeStep, PTL DEF Spec

\* The registry, the repository and every thread's frame stay well typed,
\* whichever requests overlap (Membership!TypeOK; the save of a copy never
\* indexes a channel that does not exist).
THEOREM TypeCorrect == Spec => []TypeOK
  <1>1. TypeInv => TypeOK
    BY DEF TypeInv
  <1> QED
    BY <1>1, TypeInvariant, PTL

-----------------------------------------------------------------------------
(* The indexes.  Given the types, the two index invariants are inductive.  *)

LEMMA RegistryStep ==
    TypeInv /\ RegistryIndexes /\ [Next]_vars => RegistryIndexes'
  <1> SUFFICES ASSUME TypeInv, RegistryIndexes, [Next]_vars
               PROVE  RegistryIndexes'
    OBVIOUS
  <1> USE DEF RegistryIndexes
  <1>1. ASSUME NEW c \in ClientIds, NEW u \in Usernames, Connect(c, u)
        PROVE  RegistryIndexes'
    BY <1>1 DEF Connect, InsertOrAssign, TypeInv, TypeOK
  <1>2. ASSUME UNCHANGED <<username_to_id, historical_usernames>>,
               DOMAIN clients_by_id' = DOMAIN clients_by_id,
               \A c \in DOMAIN clients_by_id :
                  clients_by_id'[c].username = clients_by_id[c].username
        PROVE  RegistryIndexes'
    BY <1>2
  <1>3. ASSUME NEW c \in ClientIds, Heartbeat(c) \/ Age(c)
        PROVE  RegistryIndexes'
    <2>1. PICK b \in BOOLEAN : clients_by_id' = [clients_by_id EXCEPT ![c].fresh = b]
      BY <1>3 DEF Heartbeat, Age
    <2>2. /\ DOMAIN clients_by_id' = DOMAIN clients_by_id
          /\ \A d \in DOMAIN clients_by_id :
                clients_by_id'[d].username = clients_by_id[d].username
      BY <2>1 DEF Session, TypeInv, TypeOK
    <2>3. UNCHANGED <<username_to_id, historical_usernames>>
      BY <1>3 DEF Heartbeat, Age
    <2> QED
      BY <1>2, <2>2, <2>3
  <1>4. ASSUME NEW t \in Threads, LeaveAtomic(t) \/ JoinAtomic(t)
        PROVE  RegistryIndexes'
    BY <1>2, <1>4 DEF LeaveAtomic, JoinAtomic, Session, TypeInv, TypeOK
  <1>5. ASSUME NEW t \in Threads, Remove(t)
        PROVE  RegistryIndexes'
    BY <1>5 DEF Remove, Erase, Live, TypeInv, TypeOK
  <1>6. CASE UNCHANGED registry
    BY <1>6 DEF registry
  <1>7. ASSUME NEW t \in Threads, Step(t)
        PROVE  RegistryIndexes'
    <2>1. \/ UNCHANGED registry
          \/ LeaveAtomic(t) \/ JoinAtomic(t) \/ Remove(t)
      BY <1>7 DEF Step, CreateStore, RmFind, LeaveSession, JoinFindById, JoinFindByName,
                  RmSave, AddMember
    <2> QED
      BY <2>1, <1>4, <1>5, <1>6
  <1>8. CASE Environment \/ Sweep
    <2>1. \/ UNCHANGED registry
          \/ \E c \in ClientIds : Heartbeat(c) \/ Age(c) \/ \E u \in Usernames : Connect(c, u)
      BY <1>8 DEF Environment, Sweep, CreateBegin, JoinBegin, DisconnectBegin, LeaveBegin,
                  CollectExpired, ExpireSession
    <2> QED
      BY <2>1, <1>1, <1>3, <1>6
  <1> QED
    BY <1>6, <1>7, <1>8 DEF Next, vars

LEMMA RepositoryStep ==
    TypeInv /\ RepositoryIndexes /\ [Next]_vars => RepositoryIndexes'
  <1> SUFFICES ASSUME TypeInv, RepositoryIndexes, [Next]_vars
               PROVE  RepositoryIndexes'
    OBVIOUS
  <1> USE DEF RepositoryIndexes
  <1>1. CASE UNCHANGED repository
    BY <1>1 DEF repository
  <1>2. ASSUME NEW t \in Threads, NEW n \in Names, NEW h \in ChannelIds, CreateStore(t, n, h)
        PROVE  RepositoryIndexes'
    BY <1>1, <1>2 DEF CreateStore, InsertOrAssign, TypeInv, TypeOK
  <1>3. ASSUME NEW k \in DOMAIN channels_by_id, NEW m,
               channels_by_id' = [channels_by_id EXCEPT ![k].members = m],
               name_to_id' = InsertOrAssign(name_to_id, channels_by_id[k].name, k)
        PROVE  RepositoryIndexes'
    <2>1. /\ DOMAIN channels_by_id' = DOMAIN channels_by_id
          /\ \A h \in DOMAIN channels_by_id : channels_by_id'[h].name = channels_by_id[h].name
      BY <1>3 DEF TypeInv, TypeOK, Channel
    <2>2. /\ DOMAIN name_to_id' = DOMAIN name_to_id
          /\ \A n \in DOMAIN name_to_id : name_to_id'[n] = name_to_id[n]
      BY <1>3 DEF InsertOrAssign, TypeInv, TypeOK
    <2> QED
      BY <2>1, <2>2
  <1>4. ASSUME NEW t \in Threads, RmSave(t) \/ AddMember(t)
        PROVE  RepositoryIndexes'
    <2>1. FrameOK(thread[t], DOMAIN channels_by_id)
      BY FrameFacts
    <2>2. CASE RmSave(t)
      BY <1>3, <2>1, <2>2 DEF RmSave, FrameOK
    <2>3. CASE AddMember(t)
      <3>1. thread[t].channel \in DOMAIN channels_by_id
        BY <2>1, <2>3 DEF AddMember, FrameOK
      <3> QED
        BY <1>3, <2>3, <3>1 DEF AddMember
    <2> QED
      BY <1>4, <2>2, <2>3
  <1>5. ASSUME NEW t \in Threads, Step(t)
        PROVE  RepositoryIndexes'
    <2>1. \/ UNCHANGED repository
          \/ RmSave(t) \/ AddMember(t)
          \/ \E n \in Names, h \in ChannelIds : CreateStore(t, n, h)
      BY <1>5 DEF Step, RmFind, LeaveSession, JoinFindById, JoinFindByName,
                  LeaveAtomic, JoinAtomic, Remove
    <2> QED
      BY <2>1, <1>1, <1>2, <1>4
  <1>6. CASE Environment \/ Sweep
    <2>1. UNCHANGED repository
      BY <1>6 DEF Environment, Sweep, CreateBegin, JoinBegin, DisconnectBegin, LeaveBegin,
                  Connect, Heartbeat, Age, CollectExpired, ExpireSession
    <2> QED
      BY <2>1, <1>1
  <1> QED
    BY <1>1, <1>5, <1>6 DEF Next, vars

\* However removals by Disconnect and by the sweeper overlap with reconnects,
\* the username index and the sessions agree: one live session per username.
THEOREM RegistryIndexesCorrect == Spec => []RegistryIndexes
  <1>1. Init => RegistryIndexes
    BY DEF Init, RegistryIndexes
  <1> QED
    BY <1>1, TypeInvariant, RegistryStep, PTL DEF Spec

\* However saves of old channel copies overlap, the name index and the
\* channels agree: one channel per name.
THEOREM RepositoryIndexesCorrect == Spec => []RepositoryIndexes
  <1>1. Init => RepositoryIndexes
    BY DEF Init, RepositoryIndexes
  <1> QED
    BY <1>1, TypeInvariant, RepositoryStep, PTL DEF Spec

\* No use case under way brings a removed session back, and an id keeps the
\* username it was registered with for ever.
THEOREM RemovedStaysRemovedCorrect == Spec => RemovedStaysRemoved
  <1> DEFINE A == \A c \in DOMAIN historical_usernames :
                     /\ c \in DOMAIN historical_usernames'
                     /\ historical_usernames'[c] = historical_usernames[c]
                     /\ c \in DOMAIN clients_by_id' => c \in DOMAIN clients_by_id
  <1>1. ASSUME TypeInv, [Next]_vars PROVE A
    <2>1. CASE UNCHANGED registry
      BY <2>1 DEF registry
    <2>2. ASSUME NEW c \in ClientIds, NEW u \in Usernames, Connect(c, u) PROVE A
      BY <2>2 DEF Connect, InsertOrAssign
    <2>3. ASSUME DOMAIN clients_by_id' \subseteq DOMAIN clients_by_id,
                 UNCHANGED historical_usernames
          PROVE  A
      BY <2>3
    <2>4. ASSUME NEW c \in ClientIds, Heartbeat(c) \/ Age(c) PROVE A
      BY <2>3, <2>4 DEF Heartbeat, Age
    <2>5. ASSUME NEW t \in Threads, LeaveAtomic(t) \/ JoinAtomic(t) \/ Remove(t) PROVE A
      BY <2>3, <2>5 DEF LeaveAtomic, JoinAtomic, Remove, Erase
    <2>6. \/ UNCHANGED registry
          \/ \E c \in ClientIds : Heartbeat(c) \/ Age(c) \/ \E u \in Usernames : Connect(c, u)
          \/ \E t \in Threads : LeaveAtomic(t) \/ JoinAtomic(t) \/ Remove(t)
      BY <1>1 DEF Next, vars, Environment, Sweep, CreateBegin, JoinBegin, DisconnectBegin,
                  LeaveBegin, CollectExpired, ExpireSession, Step, CreateStore, RmFind,
                  LeaveSession, JoinFindById, JoinFindByName, RmSave, AddMember
    <2> QED
      BY <2>1, <2>2, <2>4, <2>5, <2>6
  <1> QED
    BY <1>1, TypeInvariant, PTL DEF Spec, RemovedStaysRemoved

\* No step of a use case overwrites a heartbeat: the atomic join and leave
\* write the joined set under the lock and leave the timestamp alone.
THEOREM HeartbeatNotClobberedCorrect == Spec => HeartbeatNotClobbered
  <1> DEFINE B == \A c \in DOMAIN clients_by_id \cap DOMAIN clients_by_id' :
                     clients_by_id'[c].fresh # clients_by_id[c].fresh
                        => /\ thread' = thread
                           /\ clients_by_id'[c].joined = clients_by_id[c].joined
  <1>1. ASSUME TypeInv, RegistryIndexes, [Next]_vars PROVE B
    <2>1. CASE UNCHANGED clients_by_id
      BY <2>1
    <2>2. ASSUME NEW c \in ClientIds, NEW u \in Usernames, Connect(c, u) PROVE B
      BY <1>1, <2>2 DEF Connect, InsertOrAssign, RegistryIndexes
    <2>3. ASSUME NEW c \in ClientIds, Heartbeat(c) \/ Age(c) PROVE B
      BY <1>1, <2>3 DEF Heartbeat, Age, TypeInv, TypeOK, Session
    <2>4. ASSUME NEW t \in Threads, LeaveAtomic(t) \/ JoinAtomic(t) PROVE B
      BY <1>1, <2>4 DEF LeaveAtomic, JoinAtomic, TypeInv, TypeOK, Session
    <2>5. ASSUME NEW t \in Threads, Remove(t) PROVE B
      BY <2>5 DEF Remove, Erase
    <2>6. \/ UNCHANGED clients_by_id
          \/ \E c \in ClientIds : Heartbeat(c) \/ Age(c) \/ \E u \in Usernames : Connect(c, u)
          \/ \E t \in Threads : LeaveAtomic(t) \/ JoinAtomic(t) \/ Remove(t)
      BY <1>1 DEF Next, vars, registry, Environment, Sweep, CreateBegin, JoinBegin,
                  DisconnectBegin, LeaveBegin, CollectExpired, ExpireSession, Step, CreateStore,
                  RmFind, LeaveSession, JoinFindById, JoinFindByName, RmSave, AddMember
    <2> QED
      BY <2>1, <2>2, <2>3, <2>4, <2>5, <2>6
  <1> QED
    BY <1>1, TypeInvariant, RegistryIndexesCorrect, PTL DEF Spec, HeartbeatNotClobbered

-----------------------------------------------------------------------------
(* One channel per client.  Of a client that waits for each answer, only   *)
(* its own join adds to its joined set, and that join has in its frame every   *)
(* channel the set still holds: the ones to leave, the one being left, and *)
(* the target.                                                             *)

\* No two gRPC threads serve the same patient client.
Exclusive ==
    \A t, u \in Workers :
       t # u /\ thread[t].pc # "idle" /\ thread[t].client \in Patient
          => thread[t].client # thread[u].client

\* The sweeper never joins and only it sweeps; a frame names the channel it
\* is leaving only while it leaves it; past its loop a join has left them all.
JoinFrame(f, t) ==
    /\ f.op = "join" => t \in Workers
    /\ f.op = "expire" \/ f.pc = "sweep" => t \notin Workers
    /\ f.pc \in {"addMember", "joinAtomic"} => f.todo = {}
    /\ f.pc \notin {"rmSave", "leaveAtomic"} => f.from = None
    /\ f.pc = "find" => f.channel = None

JoinFrames == \A t \in Threads : JoinFrame(thread[t], t)

JoinCovers ==
    \A t \in Threads :
       thread[t].op = "join" /\ thread[t].client \in Patient \cap DOMAIN clients_by_id =>
          clients_by_id[thread[t].client].joined
             \subseteq thread[t].todo \cup {thread[t].from, thread[t].channel}

OneChannel ==
    \A c \in Patient \cap DOMAIN clients_by_id : \A g, h \in clients_by_id[c].joined : g = h

OneChannelInv == TypeInv /\ Exclusive /\ JoinFrames /\ JoinCovers /\ OneChannel

\* A patient client of frame f is served by no thread but t.
Distinct(t, f) ==
    t \in Workers => \A u \in Workers \ {t} :
       (thread[u].pc # "idle" \/ f.pc # "idle") /\ f.client \in Patient
          => thread[u].client # f.client

\* The frame keeps the client it was serving, or returns.
LEMMA DistinctKept ==
    ASSUME OneChannelInv, NEW t \in Threads, NEW STATE f,
           \/ thread[t].pc # "idle" /\ f.client = thread[t].client
           \/ f.pc = "idle" /\ f.client = None
    PROVE  Distinct(t, f)
  <1>1. ASSUME NEW u \in Workers, t \in Workers, u # t,
               thread[u].pc # "idle" \/ f.pc # "idle", f.client \in Patient
        PROVE  thread[u].client # f.client
    <2>1. CASE thread[t].pc # "idle" /\ f.client = thread[t].client
      BY <1>1, <2>1 DEF OneChannelInv, Exclusive
    <2>2. CASE f.pc = "idle" /\ f.client = None
      BY <1>1, <2>2, MembershipAssumption
    <2> QED
      BY <2>1, <2>2
  <1> QED
    BY <1>1 DEF Distinct

\* A patient client's request is admitted only when no thread serves it.
LEMMA DistinctStart ==
    ASSUME NEW t \in Workers, NEW c \in ClientIds, MayStart(t, c),
           NEW STATE f, f.client = c
    PROVE  Distinct(t, f)
  BY DEF Distinct, MayStart

\* A thread moves to a good frame and no joined set grows.
LEMMA OneChannelMove ==
    ASSUME OneChannelInv, TypeInv', NEW t \in Threads, NEW STATE f, Goto(t, f),
           JoinFrame(f, t), Distinct(t, f),
           \A c \in DOMAIN clients_by_id' :
              c \in DOMAIN clients_by_id /\ clients_by_id'[c].joined \subseteq clients_by_id[c].joined,
           f.op = "join" /\ f.client \in Patient \cap DOMAIN clients_by_id' =>
              clients_by_id'[f.client].joined \subseteq f.todo \cup {f.from, f.channel}
    PROVE  OneChannelInv'
  <1>1. /\ thread'[t] = f
        /\ \A u \in Threads : u # t => thread'[u] = thread[u]
    BY DEF Goto, OneChannelInv, TypeInv, TypeOK
  <1>2. Exclusive'
    <2> SUFFICES ASSUME NEW a \in Workers, NEW b \in Workers, a # b, thread'[a].pc # "idle",
                        thread'[a].client \in Patient
                 PROVE  thread'[a].client # thread'[b].client
      BY DEF Exclusive
    <2>1. a \in Threads /\ b \in Threads
      BY DEF Threads
    <2>2. CASE a = t
      BY <1>1, <2>1, <2>2 DEF Distinct
    <2>3. CASE b = t
      BY <1>1, <2>1, <2>3 DEF Distinct
    <2>4. CASE a # t /\ b # t
      BY <1>1, <2>1, <2>4 DEF OneChannelInv, Exclusive
    <2> QED
      BY <2>2, <2>3, <2>4
  <1>3. JoinFrames'
    BY <1>1 DEF OneChannelInv, JoinFrames
  <1>4. JoinCovers'
    <2> SUFFICES ASSUME NEW u \in Threads, thread'[u].op = "join",
                        thread'[u].client \in Patient \cap DOMAIN clients_by_id'
                 PROVE  clients_by_id'[thread'[u].client].joined
                           \subseteq thread'[u].todo \cup {thread'[u].from, thread'[u].channel}
      BY DEF JoinCovers
    <2>1. CASE u = t
      BY <1>1, <2>1
    <2>2. CASE u # t
      BY <1>1, <2>2 DEF OneChannelInv, JoinCovers
    <2> QED
      BY <2>1, <2>2
  <1>5. OneChannel'
    BY DEF OneChannelInv, OneChannel
  <1> QED
    BY <1>2, <1>3, <1>4, <1>5 DEF OneChannelInv

LEMMA JoinFrameIdle == \A t : JoinFrame(Idle, t) /\ Idle.pc = "idle" /\ Idle.client = None
                              /\ Idle.op = "none"
  BY DEF JoinFrame, Idle

\* Going on with the next channel, or past the loop, from a frame in the loop.
LEMMA JoinFrameAdvance ==
    ASSUME NEW t \in Threads, NEW f \in Frame, f.op = "join" => t \in Workers,
           f.op = "expire" => t \notin Workers,
           f.op \in {"join", "leave", "disconnect", "expire"}
    PROVE  /\ JoinFrame(Advance(f), t)
           /\ \/ Advance(f).client = f.client
              \/ Advance(f).pc = "idle" /\ Advance(f).client = None
           /\ Advance(f).op = "join" => /\ f.op = "join"
                                        /\ Advance(f).todo = f.todo
                                        /\ Advance(f).channel = f.channel
                                        /\ Advance(f).client = f.client
  <1>1. CASE f.op = "leave"
    BY <1>1, AdvanceLeave, JoinFrameIdle
  <1>2. CASE f.op # "leave"
    BY <1>2, AdvanceFields DEF JoinFrame
  <1> QED
    BY <1>1, <1>2

LEMMA OneFacts ==
    ASSUME OneChannelInv, NEW t \in Threads
    PROVE  /\ thread[t] \in Frame
           /\ FrameOK(thread[t], DOMAIN channels_by_id)
           /\ JoinFrame(thread[t], t)
           /\ thread[t].op = "join" /\ thread[t].client \in Patient \cap DOMAIN clients_by_id =>
                 clients_by_id[thread[t].client].joined
                    \subseteq thread[t].todo \cup {thread[t].from, thread[t].channel}
  BY FrameFacts DEF OneChannelInv, JoinFrames, JoinCovers

\* A thread returns.
LEMMA OneReturn ==
    ASSUME OneChannelInv, TypeInv', NEW t \in Threads, Goto(t, Idle),
           \A c \in DOMAIN clients_by_id' :
              c \in DOMAIN clients_by_id /\ clients_by_id'[c].joined \subseteq clients_by_id[c].joined
    PROVE  OneChannelInv'
  <1>1. Distinct(t, Idle)
    BY DistinctKept, JoinFrameIdle
  <1> QED
    BY <1>1, OneChannelMove, JoinFrameIdle

\* A thread goes on with the next channel, or past the loop.
LEMMA OneAdvance ==
    ASSUME OneChannelInv, TypeInv', NEW t \in Threads, NEW STATE f, f \in Frame,
           f.op = "join" => t \in Workers,
           f.op = "expire" => t \notin Workers,
           f.op \in {"join", "leave", "disconnect", "expire"},
           Goto(t, Advance(f)), thread[t].pc # "idle", f.client = thread[t].client,
           \A c \in DOMAIN clients_by_id' :
              c \in DOMAIN clients_by_id /\ clients_by_id'[c].joined \subseteq clients_by_id[c].joined,
           f.op = "join" /\ f.client \in Patient \cap DOMAIN clients_by_id' =>
              clients_by_id'[f.client].joined \subseteq f.todo \cup {f.channel}
    PROVE  OneChannelInv'
  <1>1. Distinct(t, Advance(f))
    BY JoinFrameAdvance, DistinctKept
  <1> QED
    BY <1>1, JoinFrameAdvance, OneChannelMove

LEMMA OneBegin ==
    ASSUME OneChannelInv, TypeInv',
           NEW t \in Workers, NEW c \in ClientIds, NEW h \in ChannelIds,
           CreateBegin(t, c) \/ JoinBegin(t, c) \/ DisconnectBegin(t, c)
             \/ LeaveBegin(t, c, h)
    PROVE  OneChannelInv'
  <1>0. /\ t \in Threads /\ UNCHANGED clients_by_id /\ MayStart(t, c)
        /\ clients_by_id[c].joined \in SUBSET ChannelIds
    BY DEF Threads, CreateBegin, JoinBegin, DisconnectBegin, LeaveBegin, registry,
           OneChannelInv, TypeInv, TypeOK, Session, Live
  <1>1. CASE CreateBegin(t, c)
    <2> DEFINE f == Started("create", "create", c, {})
    <2>1. Goto(t, f) /\ JoinFrame(f, t) /\ f.op # "join" /\ f.client = c
      BY <1>1, StartedFields DEF CreateBegin, Begin, JoinFrame
    <2> HIDE DEF f
    <2> QED
      BY <1>0, <2>1, DistinctStart, OneChannelMove
  <1>2. CASE JoinBegin(t, c)
    <2> DEFINE f == Started("join", "find", c, clients_by_id[c].joined)
    <2>1. Goto(t, f) /\ JoinFrame(f, t) /\ f.client = c /\ f.todo = clients_by_id[c].joined
      BY <1>2, StartedFields DEF JoinBegin, Begin, JoinFrame
    <2> HIDE DEF f
    <2> QED
      BY <1>0, <2>1, DistinctStart, OneChannelMove
  <1>3. CASE LeaveBegin(t, c, h)
    <2> DEFINE f == Started("leave", "rmFind", c, {h})
    <2>1. Goto(t, f) /\ JoinFrame(f, t) /\ f.op # "join" /\ f.client = c
      BY <1>3, StartedFields DEF LeaveBegin, Begin, JoinFrame
    <2> HIDE DEF f
    <2> QED
      BY <1>0, <2>1, DistinctStart, OneChannelMove
  <1>4. CASE DisconnectBegin(t, c)
    <2> DEFINE g == Started("disconnect", "session", c, clients_by_id[c].joined)
    <2>1. g \in Frame /\ g.op = "disconnect" /\ g.client = c
      BY <1>0, StartedType, StartedFields
    <2>2. Goto(t, Advance(g))
      BY <1>4 DEF DisconnectBegin, Begin
    <2> HIDE DEF g
    <2>3. JoinFrame(Advance(g), t) /\ Advance(g).op = "disconnect" /\ Advance(g).client = c
      BY <1>0, <2>1, AdvanceFields, JoinFrameAdvance
    <2> QED
      BY <1>0, <2>2, <2>3, DistinctStart, OneChannelMove
  <1> QED
    BY <1>1, <1>2, <1>3, <1>4

LEMMA OneRmFind ==
    ASSUME OneChannelInv, TypeInv', NEW t \in Threads, NEW h \in ChannelIds, RmFind(t, h)
    PROVE  OneChannelInv'
  <1> DEFINE f == thread[t]
             g == [f EXCEPT !.todo = @ \ {h}, !.from = h]
             save == [g EXCEPT !.pc = "rmSave",
                               !.rest = channels_by_id[h].members \ {f.client}]
             skip == [g EXCEPT !.pc = "leaveAtomic"]
  <1>0. f.pc = "rmFind" /\ h \in f.todo /\ UNCHANGED clients_by_id
    BY DEF RmFind, registry
  <1>1. /\ g \in Frame /\ g.op = f.op /\ g.client = f.client
        /\ g.op = "join" => t \in Workers
        /\ g.op = "expire" => t \notin Workers
        /\ g.op \in {"join", "leave", "disconnect", "expire"}
    BY <1>0, OneFacts DEF Frame, FrameOK, JoinFrame
  <1>2. ASSUME NEW STATE w, w = save \/ w = skip, Goto(t, w) PROVE OneChannelInv'
    <2>1. /\ w.op = f.op /\ w.client = f.client /\ w.channel = f.channel
          /\ w.todo = f.todo \ {h} /\ w.from = h /\ w.pc \in {"rmSave", "leaveAtomic"}
      BY <1>2, OneFacts DEF Frame
    <2>2. f.from = None /\ JoinFrame(w, t)
      BY <1>0, <2>1, OneFacts DEF JoinFrame
    <2>3. Distinct(t, w)
      BY <1>0, <2>1, DistinctKept
    <2>4. w.op = "join" /\ w.client \in Patient \cap DOMAIN clients_by_id =>
             clients_by_id[w.client].joined \subseteq w.todo \cup {w.from, w.channel}
      <3>1. w.op = "join" /\ w.client \in Patient \cap DOMAIN clients_by_id =>
               /\ clients_by_id[w.client].joined \subseteq f.todo \cup {None, f.channel}
               /\ clients_by_id[w.client].joined \subseteq ChannelIds
        BY <2>1, <2>2, OneFacts DEF OneChannelInv, TypeInv, TypeOK, Session
      <3> HIDE DEF f
      <3> QED
        BY <2>1, <3>1, MembershipAssumption
    <2> QED
      BY <1>0, <1>2, <2>2, <2>3, <2>4, OneChannelMove
  <1>3. CASE Goto(t, Advance(g)) /\ g.op # "join"
    <2> HIDE DEF g
    <2> QED
      BY <1>0, <1>1, <1>3, OneAdvance
  <1>4. Goto(t, save) \/ Goto(t, skip) \/ (Goto(t, Advance(g)) /\ g.op # "join")
    BY DEF RmFind, RmFailed
  <1> QED
    BY <1>2, <1>3, <1>4

LEMMA OneLeaveSession ==
    ASSUME OneChannelInv, TypeInv', NEW t \in Threads, NEW h \in ChannelIds, LeaveSession(t, h)
    PROVE  OneChannelInv'
  <1> DEFINE f == thread[t]
             again == [f EXCEPT !.pc = "rmFind"]
             skip == [f EXCEPT !.todo = @ \ {h}]
  <1>0. f \in Frame /\ f.pc = "session" /\ f.op = "disconnect" /\ UNCHANGED clients_by_id
    BY OneFacts DEF LeaveSession, registry, FrameOK
  <1>1. CASE Goto(t, again)
    <2>1. /\ again.op = "disconnect" /\ again.client = f.client /\ JoinFrame(again, t)
      BY <1>0, OneFacts DEF Frame, JoinFrame
    <2> HIDE DEF again
    <2>2. Distinct(t, again)
      BY <1>0, <2>1, DistinctKept
    <2> QED
      BY <1>0, <1>1, <2>1, <2>2, OneChannelMove
  <1>2. CASE Goto(t, Advance(skip))
    <2>1. skip \in Frame /\ skip.op = "disconnect" /\ skip.client = f.client
      BY <1>0 DEF Frame
    <2> HIDE DEF skip
    <2> QED
      BY <1>0, <1>2, <2>1, OneAdvance
  <1> QED
    BY <1>1, <1>2 DEF LeaveSession

LEMMA OneJoinFind ==
    ASSUME OneChannelInv, TypeInv', NEW t \in Threads, NEW h \in ChannelIds, NEW n \in Names,
           JoinFindById(t, h) \/ JoinFindByName(t, n)
    PROVE  OneChannelInv'
  <1> DEFINE f == thread[t]
  <1>1. /\ f \in Frame /\ f.pc = "find" /\ f.op = "join" /\ f.from = None /\ f.channel = None
        /\ t \in Workers /\ UNCHANGED clients_by_id
    BY OneFacts DEF JoinFindById, JoinFindByName, FrameOK, JoinFrame, registry
  <1>2. CASE Goto(t, Idle)
    BY <1>1, <1>2, OneReturn
  <1>3. ASSUME NEW k \in DOMAIN channels_by_id, JoinTarget(t, k)
        PROVE  OneChannelInv'
    <2> DEFINE g == [f EXCEPT !.channel = k, !.copy = channels_by_id[k].members,
                              !.todo = @ \ {k}]
    <2>1. channels_by_id[k].members \in SUBSET ClientIds /\ k \in ChannelIds
      BY DEF OneChannelInv, TypeInv, TypeOK, Channel
    <2>2. /\ g \in Frame /\ g.op = "join" /\ g.client = f.client
          /\ g.channel = k /\ g.todo = f.todo \ {k}
      BY <1>1, <2>1 DEF Frame
    <2>3. g.client \in Patient \cap DOMAIN clients_by_id =>
             clients_by_id[g.client].joined \subseteq g.todo \cup {g.channel}
      <3>1. g.client \in Patient \cap DOMAIN clients_by_id =>
               /\ clients_by_id[g.client].joined \subseteq f.todo \cup {None}
               /\ clients_by_id[g.client].joined \subseteq ChannelIds
        BY <1>1, <2>2, OneFacts DEF OneChannelInv, TypeInv, TypeOK, Session
      <3> HIDE DEF f, g
      <3> QED
        BY <2>2, <3>1, MembershipAssumption
    <2>4. Goto(t, Advance(g))
      BY <1>3 DEF JoinTarget
    <2> HIDE DEF g
    <2> QED
      BY <1>1, <2>2, <2>3, <2>4, OneAdvance
  <1> QED
    BY <1>2, <1>3 DEF JoinFindById, JoinFindByName

\* A thread only moves its program counter.
LEMMA OneKeep ==
    ASSUME OneChannelInv, TypeInv', NEW t \in Threads, NEW STATE w, Goto(t, w),
           UNCHANGED clients_by_id, JoinFrame(w, t), thread[t].pc # "idle",
           w.op = thread[t].op, w.client = thread[t].client, w.todo = thread[t].todo,
           w.from = thread[t].from, w.channel = thread[t].channel
    PROVE  OneChannelInv'
  <1>1. Distinct(t, w)
    BY DistinctKept
  <1> QED
    BY <1>1, OneFacts, OneChannelMove

LEMMA OneSave ==
    ASSUME OneChannelInv, TypeInv', NEW t \in Threads, RmSave(t) \/ AddMember(t)
    PROVE  OneChannelInv'
  <1> DEFINE f == thread[t]
             left == [f EXCEPT !.pc = "leaveAtomic", !.rest = {}]
             added == [f EXCEPT !.pc = "joinAtomic"]
  <1>0. /\ f \in Frame /\ f.pc \in {"rmSave", "addMember"} /\ UNCHANGED clients_by_id
        /\ f.op = "join" => t \in Workers
        /\ f.op = "expire" => t \notin Workers
    BY OneFacts DEF RmSave, AddMember, registry, JoinFrame
  <1>1. CASE Goto(t, left) /\ f.pc = "rmSave"
    <2>1. /\ left.op = f.op /\ left.client = f.client /\ left.channel = f.channel
          /\ left.todo = f.todo /\ left.from = f.from /\ left.pc = "leaveAtomic"
      BY <1>0 DEF Frame
    <2> HIDE DEF left
    <2>2. JoinFrame(left, t)
      BY <2>1, OneFacts DEF JoinFrame
    <2> QED
      BY <1>0, <1>1, <2>1, <2>2, OneKeep
  <1>2. CASE Goto(t, added) /\ f.pc = "addMember"
    <2>1. /\ added.op = f.op /\ added.client = f.client /\ added.channel = f.channel
          /\ added.todo = f.todo /\ added.from = f.from /\ added.pc = "joinAtomic"
      BY <1>0 DEF Frame
    <2> HIDE DEF added
    <2>2. JoinFrame(added, t)
      BY <1>2, <2>1, OneFacts DEF JoinFrame
    <2> QED
      BY <1>0, <1>2, <2>1, <2>2, OneKeep
  <1>3. CASE Goto(t, Advance(f)) /\ f.op = "expire"
    BY <1>0, <1>3, OneAdvance
  <1>4. \/ Goto(t, left) /\ f.pc = "rmSave"
        \/ Goto(t, added) /\ f.pc = "addMember"
        \/ Goto(t, Advance(f)) /\ f.op = "expire"
    BY DEF RmSave, AddMember
  <1> QED
    BY <1>1, <1>2, <1>3, <1>4

LEMMA OneLeaveAtomic ==
    ASSUME OneChannelInv, TypeInv', NEW t \in Threads, LeaveAtomic(t)
    PROVE  OneChannelInv'
  <1> DEFINE f == thread[t]
  <1>1. /\ f \in Frame /\ f.pc = "leaveAtomic" /\ Goto(t, Advance(f))
        /\ f.op \in {"join", "leave", "disconnect", "expire"}
        /\ f.op = "join" => t \in Workers
        /\ f.op = "expire" => t \notin Workers
    BY OneFacts DEF LeaveAtomic, FrameOK, JoinFrame, Frame
  <1>2. /\ DOMAIN clients_by_id' = DOMAIN clients_by_id
        /\ \A c \in DOMAIN clients_by_id : c # f.client => clients_by_id'[c] = clients_by_id[c]
        /\ f.client \in DOMAIN clients_by_id =>
              clients_by_id'[f.client].joined = clients_by_id[f.client].joined \ {f.from}
    BY DEF LeaveAtomic, Live, OneChannelInv, TypeInv, TypeOK, Session
  <1>3. f.op = "join" /\ f.client \in Patient \cap DOMAIN clients_by_id' =>
           clients_by_id'[f.client].joined \subseteq f.todo \cup {f.channel}
    BY <1>2, OneFacts
  <1>4. \A c \in DOMAIN clients_by_id : clients_by_id'[c].joined \subseteq clients_by_id[c].joined
    BY <1>2
  <1> QED
    BY <1>1, <1>2, <1>3, <1>4, OneAdvance

\* The join adds its target when the target is all the set can still hold.
LEMMA OneJoinAtomic ==
    ASSUME OneChannelInv, TypeInv', NEW t \in Threads, JoinAtomic(t)
    PROVE  OneChannelInv'
  <1> DEFINE f == thread[t]
  <1>1. /\ f.pc = "joinAtomic" /\ f.op = "join" /\ t \in Workers /\ f.todo = {} /\ f.from = None
        /\ Goto(t, Idle)
    BY OneFacts DEF JoinAtomic, FrameOK, JoinFrame
  <1>2. /\ DOMAIN clients_by_id' = DOMAIN clients_by_id
        /\ \A c \in DOMAIN clients_by_id : c # f.client => clients_by_id'[c] = clients_by_id[c]
        /\ f.client \in DOMAIN clients_by_id =>
              clients_by_id'[f.client].joined = clients_by_id[f.client].joined \cup {f.channel}
    BY DEF JoinAtomic, Live, OneChannelInv, TypeInv, TypeOK, Session
  <1>3. f.client \in Patient \cap DOMAIN clients_by_id => clients_by_id'[f.client].joined \subseteq {f.channel}
    <2>1. f.client \in Patient \cap DOMAIN clients_by_id =>
             /\ clients_by_id[f.client].joined \subseteq {None, f.channel}
             /\ clients_by_id[f.client].joined \subseteq ChannelIds
      BY <1>1, OneFacts DEF OneChannelInv, TypeInv, TypeOK, Session
    <2> QED
      BY <1>2, <2>1, MembershipAssumption
  <1>4. OneChannel'
    BY <1>2, <1>3 DEF OneChannelInv, OneChannel
  <1>5. /\ thread'[t] = Idle
        /\ \A u \in Threads : u # t => thread'[u] = thread[u]
    BY <1>1 DEF Goto, OneChannelInv, TypeInv, TypeOK
  <1>6. Exclusive'
    <2>1. Distinct(t, Idle)
      BY DistinctKept, JoinFrameIdle
    <2> SUFFICES ASSUME NEW a \in Workers, NEW b \in Workers, a # b, thread'[a].pc # "idle",
                        thread'[a].client \in Patient
                 PROVE  thread'[a].client # thread'[b].client
      BY DEF Exclusive
    <2>2. a \in Threads /\ b \in Threads
      BY DEF Threads
    <2>3. CASE a = t
      BY <1>5, <2>1, <2>2, <2>3 DEF Distinct
    <2>4. CASE b = t
      BY <1>5, <2>1, <2>2, <2>4 DEF Distinct
    <2>5. CASE a # t /\ b # t
      BY <1>5, <2>2, <2>5 DEF OneChannelInv, Exclusive
    <2> QED
      BY <2>3, <2>4, <2>5
  <1>7. JoinFrames'
    BY <1>5, JoinFrameIdle DEF OneChannelInv, JoinFrames
  <1>8. JoinCovers'
    <2> SUFFICES ASSUME NEW u \in Threads, thread'[u].op = "join",
                        thread'[u].client \in Patient \cap DOMAIN clients_by_id'
                 PROVE  clients_by_id'[thread'[u].client].joined
                           \subseteq thread'[u].todo \cup {thread'[u].from, thread'[u].channel}
      BY DEF JoinCovers
    <2>1. u # t /\ thread'[u] = thread[u]
      BY <1>5, JoinFrameIdle
    <2>2. thread[u].client # f.client
      BY <1>1, <2>1, OneFacts DEF JoinFrame, OneChannelInv, Exclusive
    <2> QED
      BY <1>2, <2>1, <2>2, OneFacts
  <1> QED
    BY <1>4, <1>6, <1>7, <1>8 DEF OneChannelInv

LEMMA OneRemove ==
    ASSUME OneChannelInv, TypeInv', NEW t \in Threads, Remove(t)
    PROVE  OneChannelInv'
  <1>1. \A c \in DOMAIN clients_by_id' :
           c \in DOMAIN clients_by_id /\ clients_by_id'[c].joined \subseteq clients_by_id[c].joined
    BY DEF Remove, Erase
  <1>2. CASE Goto(t, Idle)
    BY <1>1, <1>2, OneReturn
  <1>3. CASE thread[t].op = "expire" /\ Goto(t, Started("expire", "sweep", None, {}))
    <2> DEFINE g == Started("expire", "sweep", None, {})
    <2>1. t \notin Workers
      BY <1>3, OneFacts DEF JoinFrame
    <2>2. JoinFrame(g, t) /\ g.op # "join"
      BY <2>1, StartedFields DEF JoinFrame
    <2> HIDE DEF g
    <2>3. Distinct(t, g)
      BY <2>1 DEF Distinct
    <2> QED
      BY <1>1, <1>3, <2>2, <2>3, OneChannelMove DEF g
  <1> QED
    BY <1>2, <1>3 DEF Remove

LEMMA OneSweep ==
    ASSUME OneChannelInv, TypeInv', NEW c \in ClientIds, CollectExpired \/ ExpireSession(c)
    PROVE  OneChannelInv'
  <1>0. Sweeper \in Threads /\ Sweeper \notin Workers /\ UNCHANGED clients_by_id
    BY MembershipAssumption DEF Threads, CollectExpired, ExpireSession, registry
  <1>1. ASSUME NEW STATE g, Goto(Sweeper, g), JoinFrame(g, Sweeper), g.op # "join"
        PROVE  OneChannelInv'
    <2>1. Distinct(Sweeper, g)
      BY <1>0 DEF Distinct
    <2> QED
      BY <1>0, <1>1, <2>1, OneChannelMove
  <1>2. CASE CollectExpired
    <2> DEFINE g == Started("expire", "sweep", None, {})
    <2>1. Goto(Sweeper, g) /\ JoinFrame(g, Sweeper) /\ g.op # "join"
      BY <1>0, <1>2, StartedFields DEF CollectExpired, Begin, JoinFrame
    <2> HIDE DEF g
    <2> QED
      BY <1>1, <2>1
  <1>3. CASE ExpireSession(c)
    <2> DEFINE g == Started("expire", "sweep", c, batch[c])
    <2>1. batch[c] \in SUBSET ChannelIds
      BY <1>3 DEF ExpireSession, OneChannelInv, TypeInv, TypeOK
    <2>2. g \in Frame /\ g.op = "expire"
      BY <2>1, StartedType, StartedFields
    <2>3. Goto(Sweeper, Advance(g))
      BY <1>3 DEF ExpireSession
    <2> HIDE DEF g
    <2>4. JoinFrame(Advance(g), Sweeper) /\ Advance(g).op # "join"
      BY <1>0, <2>2, JoinFrameAdvance
    <2> QED
      BY <1>1, <2>3, <2>4
  <1> QED
    BY <1>2, <1>3

\* Threads stand still and no joined set grows; a new session has none.
LEMMA OneStill ==
    ASSUME OneChannelInv, TypeInv', UNCHANGED thread,
           \A c \in DOMAIN clients_by_id' :
              \/ c \in DOMAIN clients_by_id /\ clients_by_id'[c].joined = clients_by_id[c].joined
              \/ clients_by_id'[c].joined = {}
    PROVE  OneChannelInv'
  <1>1. Exclusive' /\ JoinFrames'
    BY DEF OneChannelInv, Exclusive, JoinFrames
  <1>2. JoinCovers'
    BY DEF OneChannelInv, JoinCovers
  <1>3. OneChannel'
    BY DEF OneChannelInv, OneChannel
  <1> QED
    BY <1>1, <1>2, <1>3 DEF OneChannelInv

LEMMA OneChannelStep ==
    OneChannelInv /\ [Next]_vars => OneChannelInv'
  <1> SUFFICES ASSUME OneChannelInv, [Next]_vars
               PROVE  OneChannelInv'
    OBVIOUS
  <1>0. TypeInv'
    BY TypeStep DEF OneChannelInv
  <1>1. CASE Environment
    <2>1. ASSUME NEW c \in ClientIds,
                 Heartbeat(c) \/ Age(c) \/ \E u \in Usernames : Connect(c, u)
          PROVE  OneChannelInv'
      <3>1. UNCHANGED thread /\ \A d \in DOMAIN clients_by_id' :
               \/ d \in DOMAIN clients_by_id /\ clients_by_id'[d].joined = clients_by_id[d].joined
               \/ clients_by_id'[d].joined = {}
        <4>1. CASE Heartbeat(c) \/ Age(c)
          BY <4>1 DEF Heartbeat, Age, OneChannelInv, TypeInv, TypeOK, Session
        <4>2. CASE \E u \in Usernames : Connect(c, u)
          BY <4>2 DEF Connect, InsertOrAssign
        <4> QED
          BY <2>1, <4>1, <4>2
      <3> QED
        BY <1>0, <3>1, OneStill
    <2> QED
      BY <1>0, <1>1, <2>1, MembershipAssumption, OneBegin DEF Environment
  <1>2. CASE Sweep
    BY <1>0, <1>2, OneSweep DEF Sweep, CollectExpired, Expired, OneChannelInv, TypeInv, TypeOK
  <1>3. ASSUME NEW t \in Threads, Step(t) PROVE OneChannelInv'
    <2>1. ASSUME NEW n \in Names, NEW h \in ChannelIds, CreateStore(t, n, h)
          PROVE  OneChannelInv'
      BY <1>0, <2>1, OneReturn DEF CreateStore, registry
    <2> QED
      BY <1>0, <1>3, <2>1, MembershipAssumption, OneRmFind, OneLeaveSession, OneJoinFind,
         OneSave, OneLeaveAtomic, OneJoinAtomic, OneRemove DEF Step
  <1>4. CASE UNCHANGED vars
    BY <1>0, <1>4, OneStill DEF vars, registry
  <1> QED
    BY <1>1, <1>2, <1>3, <1>4 DEF Next

LEMMA OneChannelInit == Init => OneChannelInv
  <1> SUFFICES ASSUME Init PROVE OneChannelInv
    OBVIOUS
  <1>1. \A t \in Threads : thread[t] = Idle
    BY DEF Init
  <1>2. Exclusive /\ JoinFrames
    BY <1>1, JoinFrameIdle DEF Exclusive, JoinFrames, Threads
  <1>3. JoinCovers /\ OneChannel
    BY DEF Init, JoinCovers, OneChannel
  <1> QED
    BY <1>2, <1>3, TypeInit DEF OneChannelInv

\* At no time does the session of a client that waits for one answer before it
\* sends its next request list two channels, whatever other clients, patient or
\* not, and the sweeper do meanwhile (JoinChannel::leaveOtherChannels
\* followed by joinChannelAtomic).
THEOREM AtMostOneChannelCorrect == Spec => []AtMostOneChannel
  <1>1. OneChannelInv /\ [Next]_vars => OneChannelInv'
    BY OneChannelStep
  <1>2. OneChannelInv => AtMostOneChannel
    BY DEF OneChannelInv, OneChannel, AtMostOneChannel
  <1> QED
    BY <1>1, <1>2, OneChannelInit, PTL DEF Spec

-----------------------------------------------------------------------------
(* Joined sets and member sets.  While no two use cases have overlapped, at *)
(* most one thread is under way, and the two agree but for the channels its *)
(* client is leaving or joining.                                            *)

Listed(reg, c, h) == c \in DOMAIN reg /\ h \in reg[c].joined

Member(repo, c, h) == h \in DOMAIN repo /\ c \in repo[h].members

\* The frame's client is no member of h any more, whatever its session lists: an
\* expiry leaves the session's set alone.
Left(f, h) ==
    \/ f.pc = "leaveAtomic" /\ h = f.from
    \/ f.op = "expire" /\ f.pc \in {"rmFind", "remove"} /\ h \notin f.todo
    \/ f.op = "expire" /\ f.pc = "rmSave" /\ h \notin f.todo /\ h # f.from

\* It is a member of h and not told so yet.
Joining(f, h) == f.pc = "joinAtomic" /\ h = f.channel

AgreeAt(f, reg, repo, c, h) ==
    /\ c = f.client /\ Left(f, h) => ~Member(repo, c, h)
    /\ c = f.client /\ Joining(f, h) => Member(repo, c, h)
    /\ ~(c = f.client /\ (Left(f, h) \/ Joining(f, h))) =>
          (Listed(reg, c, h) <=> Member(repo, c, h))

AgreeBut(f, reg, repo) == \A c \in ClientIds : \A h \in ChannelIds : AgreeAt(f, reg, repo, c, h)

\* What a disconnect has still to leave.
ToLeave(f) == f.todo \cup (IF f.pc \in {"rmSave", "leaveAtomic"} THEN {f.from} ELSE {})

\* The copies in the frame are no older than the stores.
InHand(f, reg, repo) ==
    /\ f.pc \notin {"idle", "sweep"} => f.client \in DOMAIN reg
    /\ f.pc \in {"rmSave", "leaveAtomic"} => f.from \notin f.todo
    /\ f.pc = "rmSave" => f.rest = repo[f.from].members \ {f.client}
    /\ f.op = "join" /\ f.pc \in {"rmFind", "rmSave", "leaveAtomic", "addMember"} =>
          /\ f.copy = repo[f.channel].members
          /\ f.channel \notin f.todo
          /\ f.channel # f.from
    /\ f.op = "disconnect" /\ f.pc # "idle" => reg[f.client].joined \subseteq ToLeave(f)
    /\ f.pc = "remove" => f.todo = {}

\* The sweeper only expires, and its batch is no older than the registry.
BatchOK(f, reg, b) ==
    /\ f.pc # "idle" => f.op = "expire" /\ f.pc \in {"sweep", "rmFind", "rmSave", "remove"}
    /\ f.pc = "idle" => DOMAIN b = {}
    /\ \A c \in DOMAIN b : c \in DOMAIN reg /\ b[c] = reg[c].joined /\ c # f.client

Alone(t) == \A u \in Threads \ {t} : thread[u].pc = "idle"

AloneInv ==
    ~contended =>
       /\ BatchOK(thread[Sweeper], clients_by_id, batch)
       /\ \E t \in Threads : /\ Alone(t)
                             /\ AgreeBut(thread[t], clients_by_id, channels_by_id)
                             /\ InHand(thread[t], clients_by_id, channels_by_id)

SureInv == TypeInv /\ JoinFrames /\ RegistryIndexes /\ AloneInv

\* The thread that is under way is the one the invariant speaks of.
LEMMA AloneFacts ==
    ASSUME SureInv, ~contended, NEW t \in Threads, thread[t].pc # "idle"
    PROVE  /\ TypeInv /\ Alone(t)
           /\ AgreeBut(thread[t], clients_by_id, channels_by_id)
           /\ InHand(thread[t], clients_by_id, channels_by_id)
           /\ BatchOK(thread[Sweeper], clients_by_id, batch)
           /\ thread[t] \in Frame /\ FrameOK(thread[t], DOMAIN channels_by_id)
           /\ JoinFrame(thread[t], t)
           /\ t # Sweeper => t \in Workers /\ thread[t].op # "expire"
           /\ t = Sweeper => thread[t].op = "expire"
  <1>1. PICK s \in Threads : /\ Alone(s)
                             /\ AgreeBut(thread[s], clients_by_id, channels_by_id)
                             /\ InHand(thread[s], clients_by_id, channels_by_id)
    BY DEF SureInv, AloneInv
  <1>2. s = t
    BY <1>1 DEF Alone
  <1>3. BatchOK(thread[Sweeper], clients_by_id, batch) /\ TypeInv /\ JoinFrame(thread[t], t)
    BY DEF SureInv, AloneInv, JoinFrames
  <1> QED
    BY <1>1, <1>2, <1>3, FrameFacts DEF BatchOK, JoinFrame, Threads

\* When all threads are idle, the two sets agree.
LEMMA QuietAgrees ==
    ASSUME SureInv, ~contended, \A u \in Threads : thread[u].pc = "idle"
    PROVE  /\ BatchOK(thread[Sweeper], clients_by_id, batch)
           /\ DOMAIN batch = {}
           /\ \A c \in ClientIds : \A h \in ChannelIds :
                 Listed(clients_by_id, c, h) <=> Member(channels_by_id, c, h)
  <1>1. PICK s \in Threads : AgreeBut(thread[s], clients_by_id, channels_by_id)
    BY DEF SureInv, AloneInv
  <1>2. FrameOK(thread[s], DOMAIN channels_by_id) /\ thread[s].pc = "idle"
    BY FrameFacts DEF SureInv
  <1>3. thread[s].client \notin ClientIds
    BY <1>2, MembershipAssumption DEF FrameOK
  <1> QED
    BY <1>1, <1>3 DEF SureInv, AloneInv, AgreeBut, AgreeAt, BatchOK, Threads

\* A thread that is alone moves to a good frame.
LEMMA AloneMove ==
    ASSUME TypeInv, NEW t \in Threads, NEW STATE w, Goto(t, w), Alone(t),
           BatchOK(thread[Sweeper], clients_by_id, batch)',
           AgreeBut(w, clients_by_id', channels_by_id'),
           InHand(w, clients_by_id', channels_by_id')
    PROVE  AloneInv'
  <1>1. thread'[t] = w /\ \A u \in Threads \ {t} : thread'[u] = thread[u]
    BY DEF Goto, TypeInv, TypeOK
  <1>2. Alone(t)'
    BY <1>1 DEF Alone
  <1> QED
    BY <1>1, <1>2 DEF AloneInv

\* A worker does not disturb the batch, which is empty.
LEMMA BatchOther ==
    ASSUME TypeInv, BatchOK(thread[Sweeper], clients_by_id, batch),
           NEW t \in Workers, Alone(t), NEW STATE w, Goto(t, w), UNCHANGED batch
    PROVE  BatchOK(thread[Sweeper], clients_by_id, batch)'
  <1>1. Sweeper \in Threads \ {t}
    BY MembershipAssumption DEF Threads
  <1>2. thread[Sweeper].pc = "idle" /\ thread'[Sweeper] = thread[Sweeper]
    BY <1>1 DEF Alone, Goto, TypeInv, TypeOK
  <1> QED
    BY <1>2 DEF BatchOK

\* Nor does the sweeper while it serves one session.
LEMMA BatchSweeper ==
    ASSUME TypeInv, BatchOK(thread[Sweeper], clients_by_id, batch),
           NEW STATE w, Goto(Sweeper, w), UNCHANGED batch,
           \/ w.pc = "idle" /\ DOMAIN batch = {}
           \/ /\ w.op = "expire" /\ w.pc \in {"sweep", "rmFind", "rmSave", "remove"}
              /\ w.client \in {thread[Sweeper].client, None},
           \A c \in DOMAIN batch : c # thread[Sweeper].client =>
              c \in DOMAIN clients_by_id' /\ clients_by_id'[c].joined = clients_by_id[c].joined
    PROVE  BatchOK(thread[Sweeper], clients_by_id, batch)'
  <1>1. thread'[Sweeper] = w
    BY DEF Goto, TypeInv, TypeOK, Threads
  <1>2. None \notin DOMAIN batch
    BY MembershipAssumption DEF TypeInv, TypeOK
  <1> QED
    BY <1>1, <1>2 DEF BatchOK

\* Threads stand still; sessions keep their sets, and a new one has none.
LEMMA AloneStill ==
    ASSUME SureInv, UNCHANGED <<thread, channels_by_id, batch, contended>>,
           \A c \in DOMAIN clients_by_id :
              c \in DOMAIN clients_by_id' /\ clients_by_id'[c].joined = clients_by_id[c].joined,
           \A c \in DOMAIN clients_by_id' \ DOMAIN clients_by_id : clients_by_id'[c].joined = {}
    PROVE  AloneInv'
  <1> SUFFICES ASSUME ~contended
               PROVE  /\ BatchOK(thread[Sweeper], clients_by_id, batch)'
                      /\ \E t \in Threads :
                            /\ Alone(t)'
                            /\ AgreeBut(thread[t], clients_by_id, channels_by_id)'
                            /\ InHand(thread[t], clients_by_id, channels_by_id)'
    BY DEF AloneInv
  <1>1. PICK t \in Threads : /\ Alone(t)
                             /\ AgreeBut(thread[t], clients_by_id, channels_by_id)
                             /\ InHand(thread[t], clients_by_id, channels_by_id)
    BY DEF SureInv, AloneInv
  <1>2. \A c, h : Listed(clients_by_id', c, h) <=> Listed(clients_by_id, c, h)
    BY DEF Listed
  <1>3. AgreeBut(thread[t], clients_by_id, channels_by_id)'
    BY <1>1, <1>2 DEF AgreeBut, AgreeAt
  <1>4. InHand(thread[t], clients_by_id, channels_by_id)'
    <2>1. thread[t].pc = "sweep" => thread[t].op # "disconnect"
      BY DEF SureInv, JoinFrames, JoinFrame, AloneInv, BatchOK, Threads
    <2> QED
      BY <1>1, <2>1 DEF InHand
  <1>5. BatchOK(thread[Sweeper], clients_by_id, batch)'
    BY DEF SureInv, AloneInv, BatchOK
  <1> QED
    BY <1>1, <1>3, <1>4, <1>5 DEF Alone

\* A use case begins alone: no other is under way, so the sets agree.
LEMMA AloneBegin ==
    ASSUME SureInv, ~contended', NEW t \in Threads, NEW STATE f, Begin(t, f),
           UNCHANGED <<clients_by_id, channels_by_id>>,
           BatchOK(thread[Sweeper], clients_by_id, batch)',
           \A h \in ChannelIds : ~Left(f, h) /\ ~Joining(f, h),
           InHand(f, clients_by_id, channels_by_id)
    PROVE  AloneInv'
  <1>1. ~contended /\ Goto(t, f) /\ (\A u \in Threads : thread[u].pc = "idle") /\ TypeInv
    BY DEF Begin, SureInv
  <1>2. AgreeBut(f, clients_by_id, channels_by_id)
    BY <1>1, QuietAgrees DEF AgreeBut, AgreeAt
  <1>3. Alone(t)
    BY <1>1 DEF Alone
  <1> QED
    BY <1>1, <1>2, <1>3, AloneMove

LEMMA AloneRequest ==
    ASSUME SureInv, ~contended',
           NEW t \in Workers, NEW c \in ClientIds, NEW h \in ChannelIds,
           CreateBegin(t, c) \/ JoinBegin(t, c) \/ DisconnectBegin(t, c)
             \/ LeaveBegin(t, c, h)
    PROVE  AloneInv'
  <1>0. /\ t \in Threads /\ c \in DOMAIN clients_by_id
        /\ UNCHANGED <<clients_by_id, channels_by_id, batch>>
        /\ clients_by_id[c].joined \in SUBSET ChannelIds
    BY DEF Threads, CreateBegin, JoinBegin, DisconnectBegin, LeaveBegin, registry, repository,
           SureInv, TypeInv, TypeOK, Session, Live
  <1>1. ASSUME NEW STATE f, Begin(t, f), f.client = c,
               \/ f.op = "create" /\ f.pc = "create"
               \/ f.op = "join" /\ f.pc = "find"
               \/ f.op = "leave" /\ f.pc = "rmFind"
               \/ /\ f.op = "disconnect" /\ f.pc \in {"session", "rmFind", "remove"}
                  /\ clients_by_id[c].joined = f.todo
                  /\ f.pc = "remove" => f.todo = {}
        PROVE  AloneInv'
    <2>1. /\ \A k \in ChannelIds : ~Left(f, k) /\ ~Joining(f, k)
          /\ InHand(f, clients_by_id, channels_by_id)
      BY <1>0, <1>1 DEF Left, Joining, InHand, ToLeave
    <2>2. /\ ~contended /\ Goto(t, f) /\ (\A u \in Threads : thread[u].pc = "idle")
          /\ TypeInv
      BY <1>1 DEF Begin, SureInv
    <2>3. BatchOK(thread[Sweeper], clients_by_id, batch)'
      BY <1>0, <2>2, QuietAgrees, BatchOther DEF Alone
    <2> QED
      BY <1>0, <1>1, <2>1, <2>3, AloneBegin
  <1>2. CASE CreateBegin(t, c)
    BY <1>2, <1>1, StartedFields DEF CreateBegin
  <1>3. CASE JoinBegin(t, c)
    BY <1>3, <1>1, StartedFields DEF JoinBegin
  <1>4. CASE LeaveBegin(t, c, h)
    BY <1>4, <1>1, StartedFields DEF LeaveBegin
  <1>5. CASE DisconnectBegin(t, c)
    <2> DEFINE g == Started("disconnect", "session", c, clients_by_id[c].joined)
    <2>1. g \in Frame /\ g.op = "disconnect" /\ g.client = c /\ g.todo = clients_by_id[c].joined
      BY <1>0, StartedType, StartedFields
    <2>2. Begin(t, Advance(g))
      BY <1>5 DEF DisconnectBegin
    <2> HIDE DEF g
    <2>3. /\ Advance(g).op = "disconnect" /\ Advance(g).client = c
          /\ Advance(g).todo = clients_by_id[c].joined
          /\ Advance(g).pc \in {"session", "rmFind", "remove"}
          /\ Advance(g).pc = "remove" => Advance(g).todo = {}
      BY <2>1, AdvanceFields
    <2> QED
      BY <2>2, <2>3, <1>1
  <1> QED
    BY <1>2, <1>3, <1>4, <1>5

LEMMA AloneCreateStore ==
    ASSUME SureInv, ~contended, NEW t \in Threads, NEW n \in Names, NEW h \in ChannelIds,
           CreateStore(t, n, h)
    PROVE  AloneInv'
  <1>1. thread[t].pc = "create" /\ Goto(t, Idle) /\ UNCHANGED <<clients_by_id, batch>>
    BY DEF CreateStore, registry
  <1>2. t \in Workers
    BY <1>1, AloneFacts DEF BatchOK
  <1>3. \A c, k : Member(channels_by_id', c, k) <=> Member(channels_by_id, c, k)
    BY DEF CreateStore, repository, Member, InsertOrAssign
  <1>4. AgreeBut(Idle, clients_by_id', channels_by_id')
    BY <1>1, <1>3, AloneFacts, JoinFrameIdle DEF AgreeBut, AgreeAt, Left, Joining
  <1>5. InHand(Idle, clients_by_id', channels_by_id')
    BY JoinFrameIdle DEF InHand
  <1> QED
    BY <1>1, <1>2, <1>4, <1>5, AloneFacts, BatchOther, AloneMove

\* A step that only reads the stores.
LEMMA AloneReads ==
    ASSUME SureInv, ~contended, NEW t \in Threads, thread[t].pc # "idle",
           NEW STATE w, Goto(t, w), UNCHANGED <<clients_by_id, channels_by_id, batch>>,
           t = Sweeper => /\ w.op = "expire" /\ w.pc \in {"sweep", "rmFind", "rmSave", "remove"}
                          /\ w.client = thread[t].client,
           AgreeBut(w, clients_by_id, channels_by_id),
           InHand(w, clients_by_id, channels_by_id)
    PROVE  AloneInv'
  <1>1. TypeInv /\ Alone(t) /\ BatchOK(thread[Sweeper], clients_by_id, batch)
    BY AloneFacts
  <1>2. BatchOK(thread[Sweeper], clients_by_id, batch)'
    <2>1. CASE t = Sweeper
      BY <1>1, <2>1, BatchSweeper DEF BatchOK
    <2>2. CASE t # Sweeper
      BY <1>1, <2>2, BatchOther DEF Threads
    <2> QED
      BY <2>1, <2>2
  <1> QED
    BY <1>1, <1>2, AloneMove

LEMMA AloneRmFind ==
    ASSUME SureInv, ~contended, NEW t \in Threads, NEW h \in ChannelIds, RmFind(t, h)
    PROVE  AloneInv'
  <1> DEFINE f == thread[t]
             g == [f EXCEPT !.todo = @ \ {h}, !.from = h]
             save == [g EXCEPT !.pc = "rmSave",
                               !.rest = channels_by_id[h].members \ {f.client}]
             skip == [g EXCEPT !.pc = "leaveAtomic"]
  <1>0. /\ f.pc = "rmFind" /\ h \in f.todo
        /\ UNCHANGED <<clients_by_id, channels_by_id, batch>>
    BY DEF RmFind, registry, repository
  <1>1. /\ f \in Frame /\ FrameOK(f, DOMAIN channels_by_id) /\ f.from = None
        /\ AgreeBut(f, clients_by_id, channels_by_id)
        /\ InHand(f, clients_by_id, channels_by_id)
        /\ t # Sweeper => t \in Workers /\ f.op # "expire"
        /\ t = Sweeper => f.op = "expire"
        /\ f.client \in ClientIds
        /\ f.op \in {"join", "leave", "disconnect", "expire"}
    BY <1>0, AloneFacts DEF JoinFrame, FrameOK, Frame
  <1>2. /\ g \in Frame /\ g.op = f.op /\ g.client = f.client /\ g.todo = f.todo \ {h}
        /\ g.from = h /\ g.copy = f.copy /\ g.channel = f.channel
    BY <1>1 DEF Frame
  <1>3. CASE Goto(t, save)
    <2>1. /\ save.op = f.op /\ save.client = f.client /\ save.channel = f.channel
          /\ save.copy = f.copy /\ save.pc = "rmSave" /\ save.from = h
          /\ save.todo = f.todo \ {h}
          /\ save.rest = channels_by_id[h].members \ {f.client}
      BY <1>1 DEF Frame
    <2> HIDE DEF save, g, skip, f
    <2>2. AgreeBut(save, clients_by_id, channels_by_id)
      BY <1>0, <1>1, <2>1 DEF AgreeBut, AgreeAt, Left, Joining
    <2>3. InHand(save, clients_by_id, channels_by_id)
      BY <1>0, <1>1, <2>1 DEF InHand, ToLeave
    <2> QED
      BY <1>0, <1>1, <1>3, <2>1, <2>2, <2>3, AloneReads DEF f
  <1>4. CASE ~Member(channels_by_id, f.client, h) /\ Goto(t, skip) /\ f.op = "join"
    <2>1. /\ skip.op = f.op /\ skip.client = f.client /\ skip.channel = f.channel
          /\ skip.copy = f.copy /\ skip.pc = "leaveAtomic" /\ skip.from = h
          /\ skip.todo = f.todo \ {h}
      BY <1>1 DEF Frame
    <2> HIDE DEF save, g, skip, f
    <2>2. AgreeBut(skip, clients_by_id, channels_by_id)
      BY <1>0, <1>1, <1>4, <2>1 DEF AgreeBut, AgreeAt, Left, Joining
    <2>3. InHand(skip, clients_by_id, channels_by_id)
      BY <1>0, <1>1, <1>4, <2>1 DEF InHand, ToLeave
    <2> QED
      BY <1>0, <1>1, <1>4, <2>1, <2>2, <2>3, AloneReads DEF f
  <1>5. CASE ~Member(channels_by_id, f.client, h) /\ Goto(t, Advance(g)) /\ f.op # "join"
    <2> HIDE DEF save, g, skip, f
    <2>1. CASE f.op = "leave"
      <3>1. Advance(g) = Idle
        BY <1>2, <2>1, AdvanceLeave
      <3>2. AgreeBut(Idle, clients_by_id, channels_by_id)
        BY <1>0, <1>1, <2>1, JoinFrameIdle DEF AgreeBut, AgreeAt, Left, Joining
      <3>3. InHand(Idle, clients_by_id, channels_by_id)
        BY JoinFrameIdle DEF InHand
      <3> QED
        BY <1>0, <1>1, <1>5, <2>1, <3>1, <3>2, <3>3, AloneReads DEF f
    <2>2. CASE f.op \in {"disconnect", "expire"}
      <3> DEFINE w == Advance(g)
      <3>1. /\ w.op = f.op /\ w.client = f.client /\ w.todo = f.todo \ {h}
            /\ w.from = None /\ w.pc \in {"session", "rmFind", "remove"}
            /\ w.pc = "remove" => w.todo = {}
            /\ f.op = "expire" => w.pc \in {"rmFind", "remove"}
        BY <1>2, <2>2, AdvanceFields
      <3> HIDE DEF w
      <3>2. AgreeBut(w, clients_by_id, channels_by_id)
        BY <1>0, <1>1, <1>5, <2>2, <3>1 DEF AgreeBut, AgreeAt, Left, Joining
      <3>3. InHand(w, clients_by_id, channels_by_id)
        <4>1. f.op = "disconnect" => ~Listed(clients_by_id, f.client, h)
          BY <1>0, <1>1, <1>5 DEF AgreeBut, AgreeAt, Left, Joining
        <4> QED
          BY <1>0, <1>1, <2>2, <3>1, <4>1 DEF InHand, ToLeave, Listed
      <3>4. Goto(t, w)
        BY <1>5 DEF w
      <3> QED
        BY <1>0, <1>1, <2>2, <3>1, <3>2, <3>3, <3>4, AloneReads DEF f
    <2> QED
      BY <1>1, <1>5, <2>1, <2>2
  <1>6. \/ Goto(t, save)
        \/ ~Member(channels_by_id, f.client, h) /\ Goto(t, RmFailed(g))
    BY DEF RmFind, Member
  <1> QED
    BY <1>2, <1>3, <1>4, <1>5, <1>6 DEF RmFailed

LEMMA AloneLeaveSession ==
    ASSUME SureInv, ~contended, NEW t \in Threads, NEW h \in ChannelIds, LeaveSession(t, h)
    PROVE  AloneInv'
  <1> DEFINE f == thread[t]
             w == [f EXCEPT !.pc = "rmFind"]
  <1>0. f.pc = "session" /\ UNCHANGED <<clients_by_id, channels_by_id, batch>>
    BY DEF LeaveSession, registry, repository
  <1>1. /\ f \in Frame /\ f.op = "disconnect"
        /\ AgreeBut(f, clients_by_id, channels_by_id)
        /\ InHand(f, clients_by_id, channels_by_id)
        /\ t # Sweeper
    BY <1>0, AloneFacts DEF FrameOK
  <1>2. Goto(t, w)
    BY <1>0, <1>1 DEF LeaveSession, InHand, Live
  <1>3. /\ w.op = f.op /\ w.client = f.client /\ w.todo = f.todo /\ w.pc = "rmFind"
    BY <1>1 DEF Frame
  <1> HIDE DEF w, f
  <1>4. AgreeBut(w, clients_by_id, channels_by_id)
    BY <1>0, <1>1, <1>3 DEF AgreeBut, AgreeAt, Left, Joining
  <1>5. InHand(w, clients_by_id, channels_by_id)
    BY <1>0, <1>1, <1>3 DEF InHand, ToLeave
  <1> QED
    BY <1>0, <1>1, <1>2, <1>3, <1>4, <1>5, AloneReads DEF f

LEMMA AloneJoinFind ==
    ASSUME SureInv, ~contended, NEW t \in Threads, NEW h \in ChannelIds, NEW n \in Names,
           JoinFindById(t, h) \/ JoinFindByName(t, n)
    PROVE  AloneInv'
  <1> DEFINE f == thread[t]
  <1>0. f.pc = "find" /\ UNCHANGED <<clients_by_id, channels_by_id, batch>>
    BY DEF JoinFindById, JoinFindByName, registry, repository
  <1>1. /\ f \in Frame /\ f.op = "join" /\ f.client \in ClientIds /\ TypeInv
        /\ AgreeBut(f, clients_by_id, channels_by_id)
        /\ InHand(f, clients_by_id, channels_by_id)
        /\ t # Sweeper
    BY <1>0, AloneFacts DEF FrameOK
  <1>2. CASE Goto(t, Idle)
    <2>1. AgreeBut(Idle, clients_by_id, channels_by_id)
      BY <1>0, <1>1, JoinFrameIdle DEF AgreeBut, AgreeAt, Left, Joining
    <2>2. InHand(Idle, clients_by_id, channels_by_id)
      BY JoinFrameIdle DEF InHand
    <2> QED
      BY <1>0, <1>1, <1>2, <2>1, <2>2, AloneReads
  <1>3. ASSUME NEW k \in DOMAIN channels_by_id, JoinTarget(t, k)
        PROVE  AloneInv'
    <2> DEFINE g == [f EXCEPT !.channel = k, !.copy = channels_by_id[k].members,
                              !.todo = @ \ {k}]
               w == Advance(g)
    <2>1. channels_by_id[k].members \in SUBSET ClientIds /\ k \in ChannelIds
      BY <1>1 DEF TypeInv, TypeOK, Channel
    <2>2. /\ g \in Frame /\ g.op = "join" /\ g.client = f.client /\ g.channel = k
          /\ g.copy = channels_by_id[k].members /\ g.todo = f.todo \ {k}
      BY <1>1, <2>1 DEF Frame
    <2>3. Goto(t, w)
      BY <1>3 DEF JoinTarget
    <2> HIDE DEF g
    <2>4. /\ w.op = "join" /\ w.client = f.client /\ w.channel = k /\ w.from = None
          /\ w.copy = channels_by_id[k].members /\ w.todo = f.todo \ {k}
          /\ w.pc \in {"rmFind", "addMember", "joinAtomic"}
          /\ w.pc = "joinAtomic" => w.client \in w.copy
      BY <2>2, AdvanceFields
    <2> HIDE DEF w, f
    <2>5. AgreeBut(w, clients_by_id, channels_by_id)
      BY <1>0, <1>1, <2>4 DEF AgreeBut, AgreeAt, Left, Joining, Member
    <2>6. InHand(w, clients_by_id, channels_by_id)
      BY <1>0, <1>1, <2>1, <2>4, MembershipAssumption DEF InHand
    <2> QED
      BY <1>0, <1>1, <2>3, <2>5, <2>6, AloneReads DEF f
  <1> QED
    BY <1>2, <1>3 DEF JoinFindById, JoinFindByName

\* A worker's step that writes a store.
LEMMA AloneWrites ==
    ASSUME SureInv, ~contended, NEW t \in Threads, thread[t].pc # "idle", t # Sweeper,
           NEW STATE w, Goto(t, w), UNCHANGED batch,
           AgreeBut(w, clients_by_id', channels_by_id'),
           InHand(w, clients_by_id', channels_by_id')
    PROVE  AloneInv'
  BY AloneFacts, BatchOther, AloneMove

LEMMA AloneRmSave ==
    ASSUME SureInv, ~contended, NEW t \in Threads, RmSave(t)
    PROVE  AloneInv'
  <1> DEFINE f == thread[t]
             left == [f EXCEPT !.pc = "leaveAtomic", !.rest = {}]
             w == Advance(f)
  <1>0. /\ f.pc = "rmSave" /\ UNCHANGED <<clients_by_id, batch>>
        /\ channels_by_id' = [channels_by_id EXCEPT ![f.from].members = f.rest]
    BY DEF RmSave, registry
  <1>1. /\ f \in Frame /\ f.from \in DOMAIN channels_by_id /\ TypeInv
        /\ AgreeBut(f, clients_by_id, channels_by_id)
        /\ InHand(f, clients_by_id, channels_by_id)
        /\ BatchOK(thread[Sweeper], clients_by_id, batch) /\ Alone(t)
        /\ t # Sweeper => t \in Workers /\ f.op # "expire"
        /\ t = Sweeper => f.op = "expire"
        /\ f.op = "join" => f.channel \in DOMAIN channels_by_id
    BY <1>0, AloneFacts DEF FrameOK
  <1>2. /\ \A k : k \in DOMAIN channels_by_id' <=> k \in DOMAIN channels_by_id
        /\ channels_by_id'[f.from].members = channels_by_id[f.from].members \ {f.client}
        /\ \A k \in DOMAIN channels_by_id : k # f.from =>
              channels_by_id'[k].members = channels_by_id[k].members
    <2>1. channels_by_id \in [DOMAIN channels_by_id -> Channel]
      BY <1>1 DEF TypeInv, TypeOK
    <2>2. f.rest = channels_by_id[f.from].members \ {f.client}
      BY <1>0, <1>1 DEF InHand
    <2> HIDE DEF f
    <2> QED
      BY <1>0, <1>1, <2>1, <2>2 DEF Channel
  <1>3. \A c, k : Member(channels_by_id', c, k) <=>
                     Member(channels_by_id, c, k) /\ ~(c = f.client /\ k = f.from)
    <2> HIDE DEF f
    <2> QED
      BY <1>1, <1>2 DEF Member
  <1>4. CASE Goto(t, left) /\ f.op # "expire"
    <2>1. /\ left.op = f.op /\ left.client = f.client /\ left.channel = f.channel
          /\ left.copy = f.copy /\ left.pc = "leaveAtomic" /\ left.from = f.from
          /\ left.todo = f.todo
      BY <1>1 DEF Frame
    <2> HIDE DEF left, f, w
    <2>2. AgreeBut(left, clients_by_id', channels_by_id')
      BY <1>0, <1>1, <1>3, <1>4, <2>1 DEF AgreeBut, AgreeAt, Left, Joining
    <2>3. InHand(left, clients_by_id', channels_by_id')
      BY <1>0, <1>1, <1>2, <2>1 DEF InHand, ToLeave
    <2> QED
      BY <1>0, <1>1, <1>4, <2>2, <2>3, AloneWrites DEF f
  <1>5. CASE Goto(t, w) /\ f.op = "expire"
    <2>1. t = Sweeper
      BY <1>1, <1>5
    <2>2. /\ w.op = "expire" /\ w.client = f.client /\ w.todo = f.todo
          /\ w.pc \in {"rmFind", "remove"}
          /\ w.pc = "remove" => w.todo = {}
      BY <1>1, <1>5, AdvanceFields
    <2> HIDE DEF f, w
    <2>3. AgreeBut(w, clients_by_id', channels_by_id')
      BY <1>0, <1>1, <1>3, <1>5, <2>2 DEF AgreeBut, AgreeAt, Left, Joining, InHand
    <2>4. InHand(w, clients_by_id', channels_by_id')
      BY <1>0, <1>1, <2>2 DEF InHand
    <2>5. BatchOK(thread[Sweeper], clients_by_id, batch)'
      <3>1. Goto(Sweeper, w) /\ w.client = thread[Sweeper].client
        BY <1>5, <2>1, <2>2 DEF f
      <3> QED
        BY <1>0, <1>1, <2>2, <3>1, BatchSweeper DEF BatchOK
    <2> QED
      BY <1>1, <1>5, <2>3, <2>4, <2>5, AloneMove
  <1> QED
    BY <1>4, <1>5 DEF RmSave

LEMMA AloneAddMember ==
    ASSUME SureInv, ~contended, NEW t \in Threads, AddMember(t)
    PROVE  AloneInv'
  <1> DEFINE f == thread[t]
             w == [f EXCEPT !.pc = "joinAtomic"]
  <1>0. /\ f.pc = "addMember" /\ UNCHANGED <<clients_by_id, batch>> /\ Goto(t, w)
        /\ channels_by_id' = [channels_by_id EXCEPT ![f.channel].members = f.copy \cup {f.client}]
    BY DEF AddMember, registry
  <1>1. /\ f \in Frame /\ f.op = "join" /\ f.channel \in DOMAIN channels_by_id /\ TypeInv
        /\ AgreeBut(f, clients_by_id, channels_by_id)
        /\ InHand(f, clients_by_id, channels_by_id)
        /\ t # Sweeper
    BY <1>0, AloneFacts DEF FrameOK
  <1>2. \A c, k : Member(channels_by_id', c, k) <=>
                     Member(channels_by_id, c, k) \/ (c = f.client /\ k = f.channel)
    <2>1. channels_by_id \in [DOMAIN channels_by_id -> Channel]
      BY <1>1 DEF TypeInv, TypeOK
    <2>2. f.copy = channels_by_id[f.channel].members
      BY <1>0, <1>1 DEF InHand
    <2> HIDE DEF f
    <2> QED
      BY <1>0, <1>1, <2>1, <2>2 DEF Channel, Member
  <1>3. /\ w.op = f.op /\ w.client = f.client /\ w.channel = f.channel /\ w.pc = "joinAtomic"
    BY <1>1 DEF Frame
  <1> HIDE DEF w, f
  <1>4. AgreeBut(w, clients_by_id', channels_by_id')
    BY <1>0, <1>1, <1>2, <1>3 DEF AgreeBut, AgreeAt, Left, Joining
  <1>5. InHand(w, clients_by_id', channels_by_id')
    BY <1>0, <1>1, <1>3 DEF InHand
  <1> QED
    BY <1>0, <1>1, <1>4, <1>5, AloneWrites DEF f

LEMMA AloneLeaveAtomic ==
    ASSUME SureInv, ~contended, NEW t \in Threads, LeaveAtomic(t)
    PROVE  AloneInv'
  <1> DEFINE f == thread[t]
             w == Advance(f)
  <1>0. f.pc = "leaveAtomic" /\ UNCHANGED <<channels_by_id, batch>> /\ Goto(t, w)
    BY DEF LeaveAtomic, repository
  <1>1. /\ f \in Frame /\ TypeInv
        /\ AgreeBut(f, clients_by_id, channels_by_id)
        /\ InHand(f, clients_by_id, channels_by_id)
        /\ t # Sweeper
        /\ f.op \in {"join", "leave", "disconnect"}
        /\ f.op = "join" => f.channel \in DOMAIN channels_by_id
        /\ f.client \in DOMAIN clients_by_id
        /\ clients_by_id[f.client].joined \subseteq ChannelIds
    <2>1. f.client \in DOMAIN clients_by_id /\ f.op # "expire"
      BY <1>0, AloneFacts DEF InHand, BatchOK
    <2> QED
      BY <1>0, <2>1, AloneFacts DEF FrameOK, Frame, BatchOK, TypeInv, TypeOK, Session
  <1>2. clients_by_id' = [clients_by_id EXCEPT ![f.client].joined = @ \ {f.from}]
    BY <1>1 DEF LeaveAtomic, Live
  <1>3. /\ \A c : c \in DOMAIN clients_by_id' <=> c \in DOMAIN clients_by_id
        /\ clients_by_id'[f.client].joined = clients_by_id[f.client].joined \ {f.from}
        /\ \A c, k : Listed(clients_by_id', c, k) <=>
                        Listed(clients_by_id, c, k) /\ ~(c = f.client /\ k = f.from)
    <2>1. clients_by_id \in [DOMAIN clients_by_id -> Session]
      BY <1>1 DEF TypeInv, TypeOK
    <2> HIDE DEF f
    <2> QED
      BY <1>1, <1>2, <2>1 DEF Session, Listed
  <1>4. CASE f.op = "leave"
    <2>1. w = Idle
      BY <1>1, <1>4, AdvanceLeave
    <2> HIDE DEF w, f
    <2>2. AgreeBut(Idle, clients_by_id', channels_by_id')
      BY <1>0, <1>1, <1>3, <1>4, JoinFrameIdle DEF AgreeBut, AgreeAt, Left, Joining
    <2>3. InHand(Idle, clients_by_id', channels_by_id')
      BY JoinFrameIdle DEF InHand
    <2> QED
      BY <1>0, <1>1, <2>1, <2>2, <2>3, AloneWrites DEF f
  <1>5. CASE f.op \in {"join", "disconnect"}
    <2>1. /\ w.op = f.op /\ w.client = f.client /\ w.todo = f.todo /\ w.from = None
          /\ w.channel = f.channel /\ w.copy = f.copy
          /\ w.pc \in {"session", "rmFind", "remove", "addMember", "joinAtomic"}
          /\ w.pc = "joinAtomic" => w.op = "join" /\ w.client \in w.copy
          /\ w.pc = "remove" => w.todo = {}
      BY <1>1, <1>5, AdvanceFields
    <2> HIDE DEF w, f
    <2>2. AgreeBut(w, clients_by_id', channels_by_id')
      BY <1>0, <1>1, <1>3, <1>5, <2>1 DEF AgreeBut, AgreeAt, Left, Joining, InHand, Member
    <2>3. InHand(w, clients_by_id', channels_by_id')
      <3>1. f.op = "join" => f.channel # None
        BY <1>1, MembershipAssumption DEF TypeInv, TypeOK
      <3> QED
        BY <1>0, <1>1, <1>3, <1>5, <2>1, <3>1 DEF InHand, ToLeave
    <2> QED
      BY <1>0, <1>1, <2>2, <2>3, AloneWrites DEF f
  <1> QED
    BY <1>1, <1>4, <1>5

LEMMA AloneJoinAtomic ==
    ASSUME SureInv, ~contended, NEW t \in Threads, JoinAtomic(t)
    PROVE  AloneInv'
  <1> DEFINE f == thread[t]
  <1>0. f.pc = "joinAtomic" /\ UNCHANGED <<channels_by_id, batch>> /\ Goto(t, Idle)
    BY DEF JoinAtomic, repository
  <1>1. /\ f.op = "join" /\ TypeInv /\ t # Sweeper
        /\ AgreeBut(f, clients_by_id, channels_by_id)
        /\ f.client \in DOMAIN clients_by_id
    BY <1>0, AloneFacts DEF FrameOK, InHand
  <1>2. clients_by_id' = [clients_by_id EXCEPT ![f.client].joined = @ \cup {f.channel}]
    BY <1>1 DEF JoinAtomic, Live
  <1>3. \A c, k : Listed(clients_by_id', c, k) <=>
                     Listed(clients_by_id, c, k) \/ (c = f.client /\ k = f.channel)
    <2>1. clients_by_id \in [DOMAIN clients_by_id -> Session]
      BY <1>1 DEF TypeInv, TypeOK
    <2> HIDE DEF f
    <2> QED
      BY <1>1, <1>2, <2>1 DEF Session, Listed
  <1> HIDE DEF f
  <1>4. AgreeBut(Idle, clients_by_id', channels_by_id')
    BY <1>0, <1>1, <1>3, JoinFrameIdle DEF AgreeBut, AgreeAt, Left, Joining
  <1>5. InHand(Idle, clients_by_id', channels_by_id')
    BY JoinFrameIdle DEF InHand
  <1> QED
    BY <1>0, <1>1, <1>4, <1>5, AloneWrites DEF f

\* The session is removed once its client is a member of nothing.
LEMMA AloneRemove ==
    ASSUME SureInv, ~contended, NEW t \in Threads, Remove(t)
    PROVE  AloneInv'
  <1> DEFINE f == thread[t]
             again == Started("expire", "sweep", None, {})
  <1>0. /\ f.pc = "remove" /\ UNCHANGED <<channels_by_id, batch>>
        /\ \/ f.op = "expire" /\ DOMAIN batch # {} /\ Goto(t, again)
           \/ ~(f.op = "expire" /\ DOMAIN batch # {}) /\ Goto(t, Idle)
    BY DEF Remove, repository
  <1>1. /\ TypeInv /\ f.op \in {"disconnect", "expire"}
        /\ AgreeBut(f, clients_by_id, channels_by_id)
        /\ InHand(f, clients_by_id, channels_by_id)
        /\ BatchOK(thread[Sweeper], clients_by_id, batch) /\ Alone(t)
        /\ f.client \in DOMAIN clients_by_id /\ f.client \in ClientIds
        /\ t # Sweeper => t \in Workers /\ f.op # "expire"
        /\ t = Sweeper => f.op = "expire"
    BY <1>0, AloneFacts DEF FrameOK, InHand
  <1>2. clients_by_id' = Erase(clients_by_id, f.client)
    BY <1>1 DEF Remove, Live
  <1>3. /\ \A c \in DOMAIN clients_by_id : c # f.client =>
              c \in DOMAIN clients_by_id' /\ clients_by_id'[c] = clients_by_id[c]
        /\ \A c, k : Listed(clients_by_id', c, k) <=>
                        Listed(clients_by_id, c, k) /\ c # f.client
    <2> HIDE DEF f
    <2> QED
      BY <1>2 DEF Erase, Listed
  <1>4. \A k \in ChannelIds : ~Member(channels_by_id, f.client, k)
    <2> HIDE DEF f
    <2>1. f.op = "disconnect" => \A k : ~Listed(clients_by_id, f.client, k)
      BY <1>0, <1>1 DEF InHand, ToLeave, Listed
    <2> QED
      BY <1>0, <1>1, <2>1 DEF AgreeBut, AgreeAt, Left, Joining, InHand
  <1>5. ASSUME NEW STATE w, w.pc \in {"idle", "sweep"}, w.op # "disconnect", w.op # "join",
               w.client = None
        PROVE  /\ AgreeBut(w, clients_by_id', channels_by_id')
               /\ InHand(w, clients_by_id', channels_by_id')
    <2>1. \A c \in ClientIds, k \in ChannelIds :
             Listed(clients_by_id', c, k) <=> Member(channels_by_id', c, k)
      <3> HIDE DEF f
      <3> QED
        BY <1>0, <1>1, <1>3, <1>4 DEF AgreeBut, AgreeAt, Left, Joining
    <2> QED
      BY <1>5, <2>1 DEF AgreeBut, AgreeAt, Left, Joining, InHand
  <1>6. CASE t = Sweeper
    <2>1. ASSUME NEW STATE w, Goto(t, w), w.client = None,
                 \/ w.pc = "idle" /\ DOMAIN batch = {} /\ w.op = "none"
                 \/ w.pc = "sweep" /\ w.op = "expire"
          PROVE  AloneInv'
      <3>1. Goto(Sweeper, w) /\ f.client = thread[Sweeper].client
        BY <1>6, <2>1
      <3> HIDE DEF f
      <3>2. \A c \in DOMAIN batch : c # thread[Sweeper].client =>
               c \in DOMAIN clients_by_id' /\ clients_by_id'[c].joined = clients_by_id[c].joined
        BY <1>1, <1>3, <3>1 DEF BatchOK
      <3>3. BatchOK(thread[Sweeper], clients_by_id, batch)'
        BY <1>0, <1>1, <2>1, <3>1, <3>2, BatchSweeper
      <3> QED
        BY <1>1, <1>5, <2>1, <3>3, AloneMove
    <2>2. f.op = "expire" /\ again.client = None /\ again.op = "expire" /\ again.pc = "sweep"
      BY <1>1, <1>6, StartedFields
    <2> HIDE DEF again, f
    <2> QED
      BY <1>0, <2>1, <2>2, JoinFrameIdle
  <1>7. CASE t # Sweeper
    <2>1. Goto(t, Idle)
      BY <1>0, <1>1, <1>7
    <2> QED
      BY <1>0, <1>1, <1>5, <1>7, <2>1, JoinFrameIdle, AloneWrites
  <1> QED
    BY <1>6, <1>7

LEMMA AloneSweep ==
    ASSUME SureInv, ~contended', Sweep
    PROVE  AloneInv'
  <1> DEFINE f == thread[Sweeper]
  <1>0. Sweeper \in Threads /\ Sweeper \notin Workers
    BY MembershipAssumption DEF Threads
  <1>1. CASE CollectExpired
    <2> DEFINE w == Started("expire", "sweep", None, {})
    <2>1. /\ Begin(Sweeper, w) /\ UNCHANGED <<clients_by_id, channels_by_id>>
          /\ batch' = [c \in Expired |-> clients_by_id[c].joined]
      BY <1>1 DEF CollectExpired, registry, repository
    <2>2. w.op = "expire" /\ w.pc = "sweep" /\ w.client = None
      BY StartedFields
    <2> HIDE DEF w
    <2>3. thread'[Sweeper] = w /\ None \notin DOMAIN clients_by_id
      BY <1>0, <2>1, MembershipAssumption DEF Begin, Goto, SureInv, TypeInv, TypeOK
    <2>4. BatchOK(thread[Sweeper], clients_by_id, batch)'
      BY <2>1, <2>2, <2>3 DEF BatchOK, Expired
    <2>5. /\ \A h \in ChannelIds : ~Left(w, h) /\ ~Joining(w, h)
          /\ InHand(w, clients_by_id, channels_by_id)
      BY <2>2 DEF Left, Joining, InHand
    <2> QED
      BY <1>0, <2>1, <2>4, <2>5, AloneBegin
  <1>2. ASSUME NEW c \in ClientIds, ExpireSession(c)
        PROVE  AloneInv'
    <2> DEFINE g == Started("expire", "sweep", c, batch[c])
               w == Advance(g)
    <2>1. /\ f.pc = "sweep" /\ c \in DOMAIN batch /\ Goto(Sweeper, w)
          /\ batch' = Erase(batch, c) /\ ~contended
          /\ UNCHANGED <<clients_by_id, channels_by_id>>
      BY <1>2 DEF ExpireSession, registry, repository
    <2>2. /\ TypeInv /\ Alone(Sweeper)
          /\ AgreeBut(f, clients_by_id, channels_by_id)
          /\ BatchOK(f, clients_by_id, batch)
      BY <1>0, <2>1, AloneFacts
    <2>3. g \in Frame /\ g.op = "expire" /\ g.client = c /\ g.todo = clients_by_id[c].joined
      BY <2>1, <2>2, StartedType, StartedFields DEF TypeInv, TypeOK, BatchOK
    <2> HIDE DEF g
    <2>4. /\ w.op = "expire" /\ w.client = c /\ w.todo = clients_by_id[c].joined
          /\ w.pc \in {"rmFind", "remove"}
          /\ w.pc = "remove" => w.todo = {}
          /\ c \in DOMAIN clients_by_id
      BY <2>1, <2>2, <2>3, AdvanceFields DEF BatchOK
    <2> HIDE DEF w, f
    <2>5. AgreeBut(w, clients_by_id', channels_by_id')
      BY <2>1, <2>2, <2>4 DEF AgreeBut, AgreeAt, Left, Joining, Listed
    <2>6. InHand(w, clients_by_id', channels_by_id')
      BY <2>1, <2>4 DEF InHand
    <2>7. BatchOK(thread[Sweeper], clients_by_id, batch)'
      <3>1. thread'[Sweeper] = w
        BY <1>0, <2>1, <2>2 DEF Goto, TypeInv, TypeOK
      <3> QED
        BY <2>1, <2>2, <2>4, <3>1 DEF BatchOK, Erase
    <2> QED
      BY <1>0, <2>1, <2>2, <2>5, <2>6, <2>7, AloneMove
  <1> QED
    BY <1>1, <1>2 DEF Sweep

\* The clock, a heartbeat and a new session leave the sets as they are.
LEMMA AloneClock ==
    ASSUME SureInv, NEW c \in ClientIds, NEW u \in Usernames,
           Heartbeat(c) \/ Age(c) \/ Connect(c, u)
    PROVE  AloneInv'
  <1>1. UNCHANGED <<thread, channels_by_id, batch, contended>>
    BY DEF Heartbeat, Age, Connect, repository
  <1>2. clients_by_id \in [DOMAIN clients_by_id -> Session]
    BY DEF SureInv, TypeInv, TypeOK
  <1>3. CASE Heartbeat(c) \/ Age(c)
    <2>1. \E b \in BOOLEAN : clients_by_id' = [clients_by_id EXCEPT ![c].fresh = b]
      BY <1>3 DEF Heartbeat, Age
    <2> QED
      BY <1>1, <1>2, <2>1, AloneStill DEF Session
  <1>4. CASE Connect(c, u)
    <2>1. c \notin DOMAIN clients_by_id
      BY <1>4 DEF Connect, SureInv, RegistryIndexes
    <2> QED
      BY <1>1, <1>4, <2>1, AloneStill DEF Connect, InsertOrAssign
  <1> QED
    BY <1>3, <1>4

LEMMA AloneInit == Init => AloneInv
  <1> SUFFICES ASSUME Init PROVE AloneInv
    OBVIOUS
  <1>1. Sweeper \in Threads /\ \A t \in Threads : thread[t] = Idle
    BY DEF Init, Threads
  <1>2. BatchOK(thread[Sweeper], clients_by_id, batch)
    BY <1>1, JoinFrameIdle DEF Init, BatchOK
  <1>3. AgreeBut(Idle, clients_by_id, channels_by_id)
    BY JoinFrameIdle DEF Init, AgreeBut, AgreeAt, Left, Joining, Listed, Member
  <1>4. InHand(Idle, clients_by_id, channels_by_id)
    BY JoinFrameIdle DEF InHand
  <1> QED
    BY <1>1, <1>2, <1>3, <1>4, JoinFrameIdle DEF AloneInv, Alone

LEMMA AloneStep == SureInv /\ [Next]_vars => AloneInv'
  <1> SUFFICES ASSUME SureInv, [Next]_vars, ~contended'
               PROVE  AloneInv'
    BY DEF AloneInv
  <1>0. CASE UNCHANGED vars
    BY <1>0, AloneStill DEF vars, registry, repository
  <1>1. CASE Environment
    <2>1. ASSUME NEW c \in ClientIds, Heartbeat(c) \/ Age(c) PROVE AloneInv'
      <3>1. \E u \in Usernames : TRUE
        BY <2>1 DEF Heartbeat, Age, Live, SureInv, TypeInv, TypeOK, Session
      <3> QED
        BY <2>1, <3>1, AloneClock
    <2>2. ASSUME NEW c \in ClientIds, NEW u \in Usernames, Connect(c, u) PROVE AloneInv'
      BY <2>2, AloneClock
    <2>3. ASSUME NEW t \in Workers, NEW c \in ClientIds,
                 CreateBegin(t, c) \/ JoinBegin(t, c) \/ DisconnectBegin(t, c)
          PROVE  AloneInv'
      BY <2>3, MembershipAssumption, AloneRequest
    <2>4. ASSUME NEW t \in Workers, NEW c \in ClientIds, NEW h \in ChannelIds,
                 LeaveBegin(t, c, h)
          PROVE  AloneInv'
      BY <2>4, AloneRequest
    <2> QED
      BY <1>1, <2>1, <2>2, <2>3, <2>4 DEF Environment
  <1>2. CASE Sweep
    BY <1>2, AloneSweep
  <1>3. ASSUME NEW t \in Threads, Step(t) PROVE AloneInv'
    <2>1. ~contended
      BY <1>3 DEF Step, CreateStore, RmFind, LeaveSession, JoinFindById, JoinFindByName,
                  RmSave, LeaveAtomic, AddMember, JoinAtomic, Remove
    <2> QED
      BY <1>3, <2>1, MembershipAssumption, AloneCreateStore, AloneRmFind, AloneLeaveSession,
         AloneJoinFind, AloneRmSave, AloneLeaveAtomic, AloneAddMember, AloneJoinAtomic,
         AloneRemove
         DEF Step
  <1> QED
    BY <1>0, <1>1, <1>2, <1>3 DEF Next

\* Used one use case at a time, the server keeps joined sets and member sets in
\* agreement whenever it is quiet: no join, leave, disconnect or sweep leaves a
\* member without a session that lists the channel, or a listed channel without
\* the member.  What breaks them is overlap (the runs that expect a violation).
THEOREM UncontendedAgreeCorrect == Spec => []UncontendedAgree
  <1>1. Init => AloneInv
    BY AloneInit
  <1>2. TypeInv /\ JoinFrames /\ RegistryIndexes /\ AloneInv /\ [Next]_vars => AloneInv'
    BY AloneStep DEF SureInv
  <1>3. TypeInv /\ JoinFrames /\ RegistryIndexes /\ AloneInv => UncontendedAgree
    <2> SUFFICES ASSUME SureInv, ~contended, Quiescent
                 PROVE  JoinedIsMember /\ MemberIsJoined
      BY DEF SureInv, UncontendedAgree, JoinedIsMember, MemberIsJoined
    <2>1. \A c \in ClientIds : \A h \in ChannelIds :
             Listed(clients_by_id, c, h) <=> Member(channels_by_id, c, h)
      BY QuietAgrees DEF Quiescent
    <2>2. /\ \A c \in DOMAIN clients_by_id : clients_by_id[c].joined \subseteq ChannelIds
          /\ \A h \in DOMAIN channels_by_id : channels_by_id[h].members \subseteq ClientIds
          /\ DOMAIN clients_by_id \subseteq ClientIds /\ DOMAIN channels_by_id \subseteq ChannelIds
      BY DEF SureInv, TypeInv, TypeOK, Session, Channel
    <2> QED
      BY <2>1, <2>2 DEF JoinedIsMember, MemberIsJoined, Listed, Member
  <1>4. Spec => []JoinFrames
    <2>1. Init => OneChannelInv
      BY OneChannelInit
    <2>2. OneChannelInv /\ [Next]_vars => OneChannelInv'
      BY OneChannelStep
    <2>3. OneChannelInv => JoinFrames
      BY DEF OneChannelInv
    <2> QED
      BY <2>1, <2>2, <2>3, PTL DEF Spec
  <1> QED
    BY <1>1, <1>2, <1>3, <1>4, TypeInvariant, RegistryIndexesCorrect, PTL DEF Spec
=============================================================================
