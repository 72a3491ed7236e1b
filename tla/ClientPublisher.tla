--------------------------- MODULE ClientPublisher ---------------------------
(***************************************************************************)
(* Who may write to which server stream: GrpcClientPublisher and the       *)
(* SubscribeToChannel handler.                                             *)
(*                                                                         *)
(* A stream stands for one SubscribeToChannel call: its handler thread,    *)
(* its ServerWriter (alive until the handler returns) and the WriterEntry  *)
(* that registerSubscriber makes for it.  A publisher is a thread that     *)
(* sends messages and membership events.  A reaper is one removal of a     *)
(* session from outside its stream, by Disconnect or by the sweeper, which *)
(* ends in unregisterSubscriber.  Entries are shared_ptrs: a thread that   *)
(* copied one may use it after the map has dropped it.                     *)
(***************************************************************************)
CONSTANTS
    Clients,    \* client ids
    Streams,    \* SubscribeToChannel calls (bounds their number)
    Reapers,    \* removals by Disconnect or ExpireInactiveClients::run
    ClientOf,   \* the client id of each call and each removal
    Publishers, \* threads in publish or broadcastMemberJoined/Left
    Patient,    \* clients that subscribe again only after their last handler returned
    None        \* no entry

\* Threads that call unregisterSubscriber.
Closers == Streams \cup Reapers

ASSUME PublisherAssumption ==
    /\ ClientOf \in [Closers -> Clients]
    /\ Reapers \cap Streams = {}
    /\ None \notin Streams
    /\ Patient \subseteq Clients

VARIABLES
    writers,   \* client id -> entry (named by its stream)
    armed,     \* entries whose writer is not null
    pc,        \* where each handler and each removal is
    disarming, \* the entry a closer took out of the map and has to disarm
    targets,   \* entries a publisher has copied and not yet dealt with
    writing    \* the entry whose Write a publisher is inside

vars == <<writers, armed, pc, disarming, targets, writing>>

Init ==
    /\ writers = [c \in {} |-> None]
    /\ armed = {}
    /\ pc = [k \in Closers |-> "new"]
    /\ disarming = [k \in Closers |-> None]
    /\ targets = [p \in Publishers |-> {}]
    /\ writing = [p \in Publishers |-> None]

Move(k, next) == pc' = [pc EXCEPT ![k] = next]

\* An entry's write_mutex is held during Write, and by Disarm for one step.
Unlocked(s) == \A p \in Publishers : writing[p] # s

-----------------------------------------------------------------------------
(* The SubscribeToChannel handler.                                         *)

Others(s) == {x \in Streams \ {s} : ClientOf[x] = ClientOf[s]}

\* registerSubscriber, before the request is authorised.  It replaces the
\* client's previous entry and leaves that entry armed.
Subscribe(s) ==
    /\ pc[s] = "new"
    /\ ClientOf[s] \in Patient => \A x \in Others(s) : pc[x] \in {"new", "returned"}
    /\ Move(s, "registered")
    /\ armed' = armed \cup {s}
    /\ writers' = [c \in DOMAIN writers \cup {ClientOf[s]} |->
                      IF c = ClientOf[s] THEN s ELSE writers[c]]
    /\ UNCHANGED <<disarming, targets, writing>>

\* Fault variant: a refused request returns without unregistering.
AuthoriseForgets(s) ==
    /\ pc[s] = "registered"
    /\ \E next \in {"open", "returned"} : Move(s, next)
    /\ UNCHANGED <<writers, armed, disarming, targets, writing>>

\* SubscribeToChannel::execute: the stream is open, or the channel is unknown
\* or the client is not a member of it.
Authorise(s) ==
    /\ pc[s] = "registered"
    /\ \E next \in {"open", "closing"} : Move(s, next)
    /\ UNCHANGED <<writers, armed, disarming, targets, writing>>

\* The polling loop sees that the stream was cancelled.
Cancelled(s) ==
    /\ pc[s] = "open"
    /\ Move(s, "closing")
    /\ UNCHANGED <<writers, armed, disarming, targets, writing>>

\* Disconnect or the sweeper has removed the session from the registry.
Reap(r) ==
    /\ pc[r] = "new"
    /\ Move(r, "closing")
    /\ UNCHANGED <<writers, armed, disarming, targets, writing>>

-----------------------------------------------------------------------------
(* unregisterSubscriber.                                                   *)

\* Fault variants: the entry is dropped without being disarmed; every client's
\* entry is dropped.
UnregisterOnlyErases(k) ==
    /\ pc[k] = "closing"
    /\ Move(k, "returned")
    /\ writers' = [d \in DOMAIN writers \ {ClientOf[k]} |-> writers[d]]
    /\ UNCHANGED <<armed, disarming, targets, writing>>

UnregisterClears(k) ==
    LET c == ClientOf[k]
    IN  /\ pc[k] = "closing"
        /\ IF c \in DOMAIN writers
           THEN /\ Move(k, "disarming")
                /\ disarming' = [disarming EXCEPT ![k] = writers[c]]
                /\ writers' = [d \in {} |-> None]
           ELSE /\ Move(k, "returned")
                /\ UNCHANGED <<writers, disarming>>
        /\ UNCHANGED <<armed, targets, writing>>

\* Under mutex_: take whatever entry the client id has out of the map; when
\* there is none, return at once.
Unregister(k) ==
    LET c == ClientOf[k]
    IN  /\ pc[k] = "closing"
        /\ IF c \in DOMAIN writers
           THEN /\ Move(k, "disarming")
                /\ disarming' = [disarming EXCEPT ![k] = writers[c]]
                /\ writers' = [d \in DOMAIN writers \ {c} |-> writers[d]]
           ELSE /\ Move(k, "returned")
                /\ UNCHANGED <<writers, disarming>>
        /\ UNCHANGED <<armed, targets, writing>>

\* Fault variant: the writer is cleared without taking write_mutex.
DisarmUnlocked(k) ==
    /\ pc[k] = "disarming"
    /\ armed' = armed \ {disarming[k]}
    /\ disarming' = [disarming EXCEPT ![k] = None]
    /\ Move(k, "returned")
    /\ UNCHANGED <<writers, targets, writing>>

\* Under the entry's write_mutex: clear the writer.  The handler returns.
Disarm(k) ==
    /\ pc[k] = "disarming"
    /\ Unlocked(disarming[k])
    /\ armed' = armed \ {disarming[k]}
    /\ disarming' = [disarming EXCEPT ![k] = None]
    /\ Move(k, "returned")
    /\ UNCHANGED <<writers, targets, writing>>

-----------------------------------------------------------------------------
(* publish and broadcastMemberJoined/Left: copy the entries under mutex_,  *)
(* then lock, test and write them one by one.                              *)

\* Fault variant: a missing recipient yields a null entry that is not skipped.
LookupNull(p, recipients) ==
    /\ targets[p] = {}
    /\ targets' = [targets EXCEPT ![p] =
                      {IF c \in DOMAIN writers THEN writers[c] ELSE None : c \in recipients}]
    /\ UNCHANGED <<writers, armed, pc, disarming, writing>>

Lookup(p, recipients) ==
    /\ targets[p] = {}
    /\ targets' = [targets EXCEPT ![p] = {writers[c] : c \in recipients \cap DOMAIN writers}]
    /\ UNCHANGED <<writers, armed, pc, disarming, writing>>

WriteBegin(p, s) ==
    /\ s \in targets[p]
    /\ writing[p] = None
    /\ Unlocked(s)
    /\ s \in armed
    /\ writing' = [writing EXCEPT ![p] = s]
    /\ UNCHANGED <<writers, armed, pc, disarming, targets>>

\* The writer was cleared: skip the entry.
Skip(p, s) ==
    /\ s \in targets[p]
    /\ writing[p] = None
    /\ Unlocked(s)
    /\ s \notin armed
    /\ targets' = [targets EXCEPT ![p] = @ \ {s}]
    /\ UNCHANGED <<writers, armed, pc, disarming, writing>>

\* Fault variant: the entry is written to again and again.
WriteEndRetries(p) ==
    /\ writing[p] # None
    /\ writing' = [writing EXCEPT ![p] = None]
    /\ UNCHANGED <<writers, armed, pc, disarming, targets>>

\* Write returns and the lock is released.
WriteEnd(p) ==
    /\ writing[p] # None
    /\ writing' = [writing EXCEPT ![p] = None]
    /\ targets' = [targets EXCEPT ![p] = @ \ {writing[p]}]
    /\ UNCHANGED <<writers, armed, pc, disarming>>

-----------------------------------------------------------------------------

\* A publisher that has entries in hand deals with the next one.
Publish(p) ==
    \/ WriteEnd(p)
    \/ \E s \in Streams : WriteBegin(p, s) \/ Skip(p, s)

Close(k) == Unregister(k) \/ Disarm(k)

Next ==
    \/ \E s \in Streams : Subscribe(s) \/ Authorise(s) \/ Cancelled(s)
    \/ \E r \in Reapers : Reap(r)
    \/ \E k \in Closers : Close(k)
    \/ \E p \in Publishers : Publish(p) \/ \E recipients \in SUBSET Clients : Lookup(p, recipients)

Spec == Init /\ [][Next]_vars

\* The operating system schedules every thread, and gRPC completes or fails a
\* Write.  Nothing is assumed of the order in which a mutex is granted.
FairSpec ==
    /\ Spec
    /\ \A k \in Closers : WF_vars(Close(k))
    /\ \A p \in Publishers : WF_vars(Publish(p))

-----------------------------------------------------------------------------
(* Properties.                                                             *)

TypeOK ==
    /\ DOMAIN writers \subseteq Clients
    /\ writers \in [DOMAIN writers -> Streams]
    /\ armed \in SUBSET Streams
    /\ pc \in [Closers -> {"new", "registered", "open", "closing", "disarming", "returned"}]
    /\ disarming \in [Closers -> Streams \cup {None}]
    /\ targets \in [Publishers -> SUBSET Streams]
    /\ writing \in [Publishers -> Streams \cup {None}]

\* Whatever registrations, removals and publishers overlap: once an entry's
\* writer is cleared no thread is inside its Write, and no two threads ever are.
WriterDiscipline ==
    \A p \in Publishers : writing[p] # None =>
       /\ writing[p] \in armed
       /\ \A q \in Publishers : writing[q] = writing[p] => q = p

\* Whatever overlaps: the map never holds an entry whose handler has returned,
\* so no later lookup can find a dead writer, and an entry is filed under the
\* client its request named.
NoDanglingEntry ==
    \A c \in DOMAIN writers :
       /\ pc[writers[c]] # "returned"
       /\ ClientOf[writers[c]] = c

\* No thread is inside Write on a ServerWriter whose handler has returned
\* (unregisterSubscriber waits for the Write in flight).
NoWriteAfterReturn ==
    \A p \in Publishers : writing[p] # None => pc[writing[p]] # "returned"

\* The open stream that a client's events go to, the newest of its streams, loses
\* its registration only to a newer one: no handler of an earlier stream takes it
\* away and leaves the client with none (unregisterSubscriber erases by client id).
OpenStaysRegistered ==
    [][\A s \in Streams :
          /\ pc[s] = "open" /\ pc'[s] = "open"
          /\ ClientOf[s] \in DOMAIN writers /\ writers[ClientOf[s]] = s
          => ClientOf[s] \in DOMAIN writers']_vars

\* The streams of patient clients whose session nobody removes from outside.
Calm == {s \in Streams : /\ ClientOf[s] \in Patient
                         /\ \A r \in Reapers : ClientOf[r] # ClientOf[s]}

\* Whatever the streams of other clients, removals and publishers do, no
\* thread is inside Write on the ServerWriter of a calm stream whose handler
\* has returned: unregisterSubscriber waits for the Write in flight.
CalmWriteEndsFirst ==
    \A p \in Publishers : writing[p] \in Calm => pc[writing[p]] # "returned"

\* A calm stream that is open is the one its client's events go to, however
\* often the client subscribed before and whoever else comes and goes.
CalmIsRegistered ==
    \A s \in Calm : pc[s] = "open" =>
       ClientOf[s] \in DOMAIN writers /\ writers[ClientOf[s]] = s

\* Every handler and every removal that has to unregister does return, however
\* many publishers keep writing.  (A call closes once, so from some time on
\* none is closing.)
ClosersReturn == <>[](\A k \in Closers : pc[k] \notin {"closing", "disarming"})
=============================================================================
