----------------------- MODULE ClientPublisherProofs -----------------------
(* Machine-checked proofs about ClientPublisher, for any number of clients, *)
(* streams, removals and publishers.                                        *)
EXTENDS ClientPublisher, TLAPS

-----------------------------------------------------------------------------
(* Type correctness.  TypeOK is inductive.                                  *)

LEMMA TypeInit == Init => TypeOK
  BY DEF Init, TypeOK

LEMMA TypeStep == TypeOK /\ [Next]_vars => TypeOK'
  <1> SUFFICES ASSUME TypeOK, [Next]_vars PROVE TypeOK'
    OBVIOUS
  <1> USE PublisherAssumption DEF TypeOK, Move
  <1>1. ASSUME NEW s \in Streams, Subscribe(s) PROVE TypeOK'
    <2>1. s \in Closers /\ ClientOf[s] \in Clients
      BY DEF Closers
    <2> QED
      BY <1>1, <2>1 DEF Subscribe
  <1>2. ASSUME NEW s \in Streams, Authorise(s) \/ Cancelled(s) PROVE TypeOK'
    BY <1>2 DEF Authorise, Cancelled
  <1>3. ASSUME NEW r \in Reapers, Reap(r) PROVE TypeOK'
    BY <1>3 DEF Reap
  <1>4. ASSUME NEW k \in Closers, Unregister(k) PROVE TypeOK'
    BY <1>4 DEF Unregister
  <1>5. ASSUME NEW k \in Closers, Disarm(k) PROVE TypeOK'
    BY <1>5 DEF Disarm
  <1>6. ASSUME NEW p \in Publishers, Publish(p) PROVE TypeOK'
    BY <1>6 DEF Publish, WriteEnd, WriteBegin, Skip
  <1>7. ASSUME NEW p \in Publishers, NEW R \in SUBSET Clients, Lookup(p, R) PROVE TypeOK'
    BY <1>7 DEF Lookup
  <1>8. CASE UNCHANGED vars
    BY <1>8 DEF vars
  <1> QED
    BY <1>1, <1>2, <1>3, <1>4, <1>5, <1>6, <1>7, <1>8 DEF Next, Close

\* The map, the entries and every thread stay well typed.
THEOREM TypeCorrect == Spec => []TypeOK
  BY TypeInit, TypeStep, PTL DEF Spec

-----------------------------------------------------------------------------
(* Writes.  The writer is cleared under the lock that a Write holds.        *)

LEMMA DisciplineStep ==
    TypeOK /\ WriterDiscipline /\ [Next]_vars => WriterDiscipline'
  <1> SUFFICES ASSUME TypeOK, WriterDiscipline, [Next]_vars PROVE WriterDiscipline'
    OBVIOUS
  <1> USE DEF WriterDiscipline
  <1>1. CASE UNCHANGED writing /\ armed \subseteq armed'
    BY <1>1
  <1>2. ASSUME NEW k \in Closers, Disarm(k) PROVE WriterDiscipline'
    BY <1>2 DEF Disarm, Unlocked
  <1>3. ASSUME NEW p \in Publishers, NEW s \in Streams, WriteBegin(p, s)
        PROVE  WriterDiscipline'
    BY <1>3 DEF WriteBegin, Unlocked, TypeOK
  <1>4. ASSUME NEW p \in Publishers, WriteEnd(p) PROVE WriterDiscipline'
    BY <1>4 DEF WriteEnd, TypeOK
  <1>5. \/ UNCHANGED writing /\ armed \subseteq armed'
        \/ \E k \in Closers : Disarm(k)
        \/ \E p \in Publishers, s \in Streams : WriteBegin(p, s)
        \/ \E p \in Publishers : WriteEnd(p)
    BY DEF Next, vars, Subscribe, Authorise, Cancelled, Reap, Close, Unregister, Publish,
           Skip, Lookup
  <1> QED
    BY <1>1, <1>2, <1>3, <1>4, <1>5

\* However registrations, removals and publishers overlap, no thread is inside
\* Write on a cleared writer and no two threads are inside Write on one writer.
THEOREM WriterDisciplineCorrect == Spec => []WriterDiscipline
  <1>1. Init => WriterDiscipline
    BY DEF Init, WriterDiscipline
  <1> QED
    BY <1>1, TypeCorrect, DisciplineStep, PTL DEF Spec

-----------------------------------------------------------------------------
(* The map.  An entry leaves it before its handler waits for the Write in   *)
(* flight: unregisterSubscriber erases whatever the client id has.          *)

EntriesLive ==
    \A c \in DOMAIN writers :
       pc[writers[c]] \in {"registered", "open", "closing"} /\ ClientOf[writers[c]] = c

LEMMA EntriesStep == TypeOK /\ EntriesLive /\ [Next]_vars => EntriesLive'
  <1> SUFFICES ASSUME TypeOK, EntriesLive, [Next]_vars PROVE EntriesLive'
    OBVIOUS
  <1>0. \A c \in DOMAIN writers : writers[c] \in Streams /\ writers[c] \in Closers
    BY DEF TypeOK, Closers
  <1> USE DEF EntriesLive, Move
  <1>1. ASSUME NEW s \in Streams, Subscribe(s) PROVE EntriesLive'
    BY <1>0, <1>1 DEF Subscribe, TypeOK, Closers
  <1>2. ASSUME NEW s \in Streams, Authorise(s) \/ Cancelled(s) PROVE EntriesLive'
    BY <1>0, <1>2 DEF Authorise, Cancelled, TypeOK
  <1>3. ASSUME NEW r \in Reapers, Reap(r) PROVE EntriesLive'
    BY <1>0, <1>3 DEF Reap, TypeOK
  <1>4. ASSUME NEW k \in Closers, Unregister(k) PROVE EntriesLive'
    BY <1>0, <1>4 DEF Unregister, TypeOK
  <1>5. ASSUME NEW k \in Closers, Disarm(k) PROVE EntriesLive'
    BY <1>0, <1>5 DEF Disarm, TypeOK
  <1>6. CASE UNCHANGED <<writers, pc>>
    BY <1>6
  <1>7. ASSUME NEW p \in Publishers,
               Publish(p) \/ \E R \in SUBSET Clients : Lookup(p, R)
        PROVE  UNCHANGED <<writers, pc>>
    BY <1>7 DEF Publish, WriteEnd, WriteBegin, Skip, Lookup
  <1> QED
    BY <1>1, <1>2, <1>3, <1>4, <1>5, <1>6, <1>7 DEF Next, Close, vars

\* The map never holds the entry of a handler that has returned, even when
\* handlers of one client unregister each other's entries.
THEOREM NoDanglingEntryCorrect == Spec => []NoDanglingEntry
  <1>1. Init => EntriesLive
    BY DEF Init, EntriesLive
  <1>2. EntriesLive => NoDanglingEntry
    BY DEF EntriesLive, NoDanglingEntry
  <1> QED
    BY <1>1, <1>2, TypeCorrect, EntriesStep, PTL DEF Spec

-----------------------------------------------------------------------------
(* Calm streams.  When a client subscribes again only after its last        *)
(* handler has returned, and nobody unregisters it from outside, each of    *)
(* its handlers finds its own entry and so waits for its own Write.         *)

Active == {"registered", "open", "closing"}

OwnEntry ==
    \A s \in Calm :
       /\ pc[s] \in Active => ClientOf[s] \in DOMAIN writers /\ writers[ClientOf[s]] = s
       /\ pc[s] = "disarming" => disarming[s] = s
       /\ pc[s] = "returned" => s \notin armed

OneHandler ==
    \A s, x \in Calm : s # x /\ ClientOf[s] = ClientOf[x]
       /\ pc[s] \notin {"new", "returned"} => pc[x] \in {"new", "returned"}

CalmInv == TypeOK /\ WriterDiscipline /\ OwnEntry /\ OneHandler

\* Only calm streams share their client id with a calm stream.
LEMMA CalmCloser ==
    ASSUME NEW s \in Calm, NEW k \in Closers, ClientOf[k] = ClientOf[s]
    PROVE  k \in Calm
  BY DEF Calm, Closers

LEMMA CalmStep == CalmInv /\ [Next]_vars => CalmInv'
  <1> SUFFICES ASSUME CalmInv, [Next]_vars PROVE CalmInv'
    OBVIOUS
  <1>0. /\ Calm \subseteq Streams /\ Streams \subseteq Closers
        /\ TypeOK /\ TypeOK' /\ WriterDiscipline'
    BY TypeStep, DisciplineStep DEF Calm, Closers, CalmInv
  <1>1. ASSUME NEW s \in Streams, Subscribe(s) PROVE OwnEntry' /\ OneHandler'
    <2>1. \A x \in Calm \ {s} : ClientOf[x] = ClientOf[s] => pc[x] \in {"new", "returned"}
      BY <1>1 DEF Subscribe, Others, Calm
    <2>2. /\ pc' = [pc EXCEPT ![s] = "registered"]
          /\ armed' = armed \cup {s} /\ disarming' = disarming
          /\ DOMAIN writers' = DOMAIN writers \cup {ClientOf[s]}
          /\ writers'[ClientOf[s]] = s
          /\ \A c \in DOMAIN writers : c # ClientOf[s] => writers'[c] = writers[c]
      BY <1>1 DEF Subscribe, Move
    <2>3. pc'[s] = "registered" /\ \A x \in Calm : x # s => pc'[x] = pc[x]
      BY <1>0, <2>2 DEF TypeOK
    <2>4. OwnEntry'
      BY <1>0, <2>1, <2>2, <2>3 DEF CalmInv, OwnEntry, Active
    <2>5. OneHandler'
      BY <2>1, <2>3 DEF CalmInv, OneHandler
    <2> QED
      BY <2>4, <2>5
  <1>2. ASSUME NEW s \in Streams, Authorise(s) \/ Cancelled(s)
        PROVE  OwnEntry' /\ OneHandler'
    <2>1. /\ pc[s] \in Active /\ UNCHANGED <<writers, armed, disarming>>
          /\ \E next \in Active : pc' = [pc EXCEPT ![s] = next]
      BY <1>2 DEF Authorise, Cancelled, Move, Active
    <2>2. pc'[s] \in Active /\ \A x \in Calm : x # s => pc'[x] = pc[x]
      BY <1>0, <2>1 DEF TypeOK
    <2>3. OwnEntry'
      BY <2>1, <2>2 DEF CalmInv, OwnEntry, Active
    <2>4. OneHandler'
      BY <2>1, <2>2 DEF CalmInv, OneHandler, Active
    <2> QED
      BY <2>3, <2>4
  <1>3. ASSUME NEW r \in Reapers, Reap(r) PROVE OwnEntry' /\ OneHandler'
    <2>1. UNCHANGED <<writers, armed, disarming>> /\ \A x \in Calm : pc'[x] = pc[x]
      BY <1>0, <1>3, PublisherAssumption DEF Reap, Move, TypeOK
    <2> QED
      BY <2>1 DEF CalmInv, OwnEntry, OneHandler
  <1>4. ASSUME NEW k \in Closers, Unregister(k) PROVE OwnEntry' /\ OneHandler'
    <2>1. CASE k \in Calm
      <3>1. ClientOf[k] \in DOMAIN writers /\ writers[ClientOf[k]] = k
        BY <1>4, <2>1 DEF Unregister, CalmInv, OwnEntry, Active
      <3>2. /\ pc' = [pc EXCEPT ![k] = "disarming"]
            /\ disarming' = [disarming EXCEPT ![k] = k]
            /\ writers' = [d \in DOMAIN writers \ {ClientOf[k]} |-> writers[d]]
            /\ armed' = armed
        BY <1>4, <3>1 DEF Unregister, Move
      <3>3. /\ pc'[k] = "disarming" /\ disarming'[k] = k
            /\ \A x \in Calm : x # k => pc'[x] = pc[x] /\ disarming'[x] = disarming[x]
        BY <1>0, <3>2 DEF TypeOK
      <3>4. \A x \in Calm \ {k} : ClientOf[x] = ClientOf[k] => pc[x] \in {"new", "returned"}
        BY <1>4, <2>1 DEF Unregister, CalmInv, OneHandler
      <3>5. OwnEntry'
        BY <3>2, <3>3, <3>4 DEF CalmInv, OwnEntry, Active
      <3>6. OneHandler'
        BY <1>4, <2>1, <3>3 DEF Unregister, CalmInv, OneHandler
      <3> QED
        BY <3>5, <3>6
    <2>2. CASE k \notin Calm
      <3>1. \A x \in Calm : ClientOf[x] # ClientOf[k]
        BY <2>2, CalmCloser
      <3>2. /\ armed' = armed
            /\ \A x \in Calm : pc'[x] = pc[x] /\ disarming'[x] = disarming[x]
        BY <1>0, <1>4, <2>2 DEF Unregister, Move, TypeOK
      <3>3. \A c \in DOMAIN writers : c # ClientOf[k] => c \in DOMAIN writers' /\ writers'[c] = writers[c]
        BY <1>4 DEF Unregister
      <3> QED
        BY <3>1, <3>2, <3>3 DEF CalmInv, OwnEntry, OneHandler
    <2> QED
      BY <2>1, <2>2
  <1>5. ASSUME NEW k \in Closers, Disarm(k) PROVE OwnEntry' /\ OneHandler'
    <2>1. /\ pc[k] = "disarming" /\ armed' = armed \ {disarming[k]} /\ writers' = writers
          /\ pc'[k] = "returned"
          /\ \A x \in Calm : x # k => pc'[x] = pc[x] /\ disarming'[x] = disarming[x]
      BY <1>0, <1>5 DEF Disarm, Move, TypeOK
    <2>2. OwnEntry'
      BY <2>1 DEF CalmInv, OwnEntry, Active
    <2>3. OneHandler'
      BY <2>1 DEF CalmInv, OneHandler
    <2> QED
      BY <2>2, <2>3
  <1>6. ASSUME UNCHANGED <<writers, armed, pc, disarming>> PROVE OwnEntry' /\ OneHandler'
    BY <1>6 DEF CalmInv, OwnEntry, OneHandler
  <1>7. ASSUME NEW p \in Publishers,
               Publish(p) \/ \E R \in SUBSET Clients : Lookup(p, R)
        PROVE  UNCHANGED <<writers, armed, pc, disarming>>
    BY <1>7 DEF Publish, WriteEnd, WriteBegin, Skip, Lookup
  <1>8. OwnEntry' /\ OneHandler'
    BY <1>1, <1>2, <1>3, <1>4, <1>5, <1>6, <1>7 DEF Next, Close, vars
  <1> QED
    BY <1>0, <1>8 DEF CalmInv

LEMMA CalmInvariant == Spec => []CalmInv
  <1>1. Init => CalmInv
    BY TypeInit DEF Init, CalmInv, WriterDiscipline, OwnEntry, OneHandler, Active, Calm, Closers
  <1> QED
    BY <1>1, CalmStep, PTL DEF Spec

\* No thread is inside Write on the writer of a calm stream whose handler has
\* returned: unregisterSubscriber waits for the Write in flight.
THEOREM CalmWriteEndsFirstCorrect == Spec => []CalmWriteEndsFirst
  <1>1. CalmInv => CalmWriteEndsFirst
    <2> SUFFICES ASSUME CalmInv, NEW p \in Publishers, writing[p] \in Calm
                 PROVE  pc[writing[p]] # "returned"
      BY DEF CalmWriteEndsFirst
    <2>1. writing[p] # None
      BY PublisherAssumption DEF Calm
    <2> QED
      BY <2>1 DEF CalmInv, WriterDiscipline, OwnEntry
  <1> QED
    BY <1>1, CalmInvariant, PTL

\* An open calm stream is the one its client's events go to
\* (registerSubscriber and unregisterSubscriber of others leave it alone).
THEOREM CalmIsRegisteredCorrect == Spec => []CalmIsRegistered
  <1>1. CalmInv => CalmIsRegistered
    BY DEF CalmInv, OwnEntry, CalmIsRegistered, Active
  <1> QED
    BY <1>1, CalmInvariant, PTL
=============================================================================
