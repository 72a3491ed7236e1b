--------------------------- MODULE MessageHistory ---------------------------
(***************************************************************************)
(* The bounded message history: SendMessage saving while clients page back *)
(* through a channel with ListMessages.                                    *)
(*                                                                         *)
(* A repository call is one critical section.  SendMessage stamps the      *)
(* message in one step and saves it in a later one; ListMessages reads the *)
(* page in one step and asks whether older messages exist in another, so   *)
(* sends and evictions fall between them, and between two pages.           *)
(***************************************************************************)
EXTENDS Integers, Sequences

CONSTANTS
    Channels,        \* channel ids
    MaxMessages,     \* bounds the sends
    Senders,         \* gRPC threads in SendMessage
    Readers,         \* paging clients
    HistoryCap,      \* --history-cap
    kDefaultCap,     \* 200: what a cap of 0 means
    PageLimit,       \* the page size the clients ask for
    kServerMaxLimit, \* 200: the largest page the server returns
    None             \* no cursor, no channel, no message

\* A message is named by its place in the order of sent_at.
Messages == 1..MaxMessages

ASSUME HistoryAssumption ==
    /\ HistoryCap \in Nat
    /\ kDefaultCap \in Nat \ {0}
    /\ PageLimit \in Nat \ {0}
    /\ kServerMaxLimit \in Nat \ {0}
    /\ MaxMessages \in Nat
    /\ None \notin Channels
    /\ \A m \in Messages : m # None

VARIABLES
    buffers, \* channel -> retained messages, oldest first
    log,     \* channel -> every message ever saved, in order of saving
    stamped, \* how many messages have been constructed
    sender,  \* the message a sender has stamped and not yet saved
    reader   \* where each paging client is

vars == <<buffers, log, stamped, sender, reader>>

\* Fault variant: the client's limit is trusted.
cappedUnchecked == PageLimit

cap == IF HistoryCap = 0 THEN kDefaultCap ELSE HistoryCap

capped == IF PageLimit < kServerMaxLimit THEN PageLimit ELSE kServerMaxLimit

Ids(s) == {s[i] : i \in DOMAIN s}

\* The last n messages of s, all of them when there are fewer.
Newest(s, n) == IF Len(s) <= n THEN s ELSE SubSeq(s, Len(s) - n + 1, Len(s))

Idle == [pc |-> "idle", channel |-> None, cursor |-> None, page |-> <<>>,
         pages |-> <<>>, end |-> 0]

Init ==
    /\ buffers = [h \in Channels |-> <<>>]
    /\ log = [h \in Channels |-> <<>>]
    /\ stamped = 0
    /\ sender = [t \in Senders |-> [id |-> None, channel |-> None]]
    /\ reader = [r \in Readers |-> Idle]

-----------------------------------------------------------------------------
(* SendMessage.                                                            *)

\* The sender is a member and the content is valid: construct the message,
\* which takes the time.
Stamp(t, h) ==
    /\ sender[t].id = None
    /\ stamped < MaxMessages
    /\ stamped' = stamped + 1
    /\ sender' = [sender EXCEPT ![t] = [id |-> stamped + 1, channel |-> h]]
    /\ UNCHANGED <<buffers, log, reader>>

\* Fault variant: the loop stops one message late.
SaveEvictsLate(t) ==
    LET m == sender[t].id
        h == sender[t].channel
    IN  /\ m # None
        /\ buffers' = [buffers EXCEPT ![h] = Newest(Append(@, m), cap + 1)]
        /\ log' = [log EXCEPT ![h] = Append(@, m)]
        /\ sender' = [sender EXCEPT ![t] = [id |-> None, channel |-> None]]
        /\ UNCHANGED <<stamped, reader>>

\* InMemoryMessageRepository::save: push_back, then pop_front down to the cap.
\* The message is then published (ClientPublisher).
Save(t) ==
    LET m == sender[t].id
        h == sender[t].channel
    IN  /\ m # None
        /\ buffers' = [buffers EXCEPT ![h] = Newest(Append(@, m), cap)]
        /\ log' = [log EXCEPT ![h] = Append(@, m)]
        /\ sender' = [sender EXCEPT ![t] = [id |-> None, channel |-> None]]
        /\ UNCHANGED <<stamped, reader>>

-----------------------------------------------------------------------------
(* InMemoryMessageRepository::recent and listBefore.                       *)

recent(h, count) == Newest(buffers[h], count)

\* Fault variant: the page includes the cursor.
listBeforeInclusive(h, before, count) ==
    IF before \notin Ids(buffers[h]) THEN <<>>
    ELSE LET cursor == CHOOSE i \in DOMAIN buffers[h] : buffers[h][i] = before
         IN  Newest(SubSeq(buffers[h], 1, cursor), count)

\* The messages just before the cursor; an unknown cursor has none.
listBefore(h, before, count) ==
    IF before \notin Ids(buffers[h]) THEN <<>>
    ELSE LET cursor == CHOOSE i \in DOMAIN buffers[h] : buffers[h][i] = before
         IN  Newest(SubSeq(buffers[h], 1, cursor - 1), count)

-----------------------------------------------------------------------------
(* A client pages back through a channel: useInfiniteQuery over            *)
(* ListMessages, the next cursor being the oldest message of the last page.*)

Open(r, h) ==
    /\ reader[r].pc = "idle"
    /\ reader' = [reader EXCEPT ![r] = [Idle EXCEPT !.pc = "page", !.channel = h]]
    /\ UNCHANGED <<buffers, log, stamped, sender>>

\* ListMessages::execute refuses: the client is no longer a member.
Refused(r) ==
    /\ reader[r].pc = "page"
    /\ reader' = [reader EXCEPT ![r].pc = "failed"]
    /\ UNCHANGED <<buffers, log, stamped, sender>>

\* ListMessages::execute, the page.  end is the length of the log when the
\* first page was read.
ReadPage(r) ==
    LET f == reader[r]
    IN  /\ f.pc = "page"
        /\ reader' = [reader EXCEPT ![r].pc = "more",
              ![r].page = IF f.cursor = None THEN recent(f.channel, capped)
                          ELSE listBefore(f.channel, f.cursor, capped),
              ![r].end = IF f.cursor = None THEN Len(log[f.channel]) ELSE @]
        /\ UNCHANGED <<buffers, log, stamped, sender>>

\* Fault variant: the answer counts the page instead of asking again.
HasMoreByCount(h, page) == Len(page) > capped

HasMore(h, page) == page # <<>> /\ listBefore(h, page[1], 1) # <<>>

\* Fault variant: an empty page (the cursor was evicted) is asked for again.
ReadMoreRetriesEmpty(r) ==
    LET f == reader[r]
        more == HasMore(f.channel, f.page)
    IN  /\ f.pc = "more"
        /\ reader' = [reader EXCEPT ![r].pc = IF more \/ f.page = <<>> THEN "page" ELSE "done",
                                    ![r].cursor = IF more THEN f.page[1] ELSE @,
                                    ![r].pages = f.page \o @,
                                    ![r].page = <<>>]
        /\ UNCHANGED <<buffers, log, stamped, sender>>

\* ListMessages::execute, has_more; the client puts the page before the ones
\* it has and goes on while there is more.
ReadMore(r) ==
    LET f == reader[r]
        more == HasMore(f.channel, f.page) /\ f.page # <<>>
    IN  /\ f.pc = "more"
        /\ reader' = [reader EXCEPT ![r].pc = IF more THEN "page" ELSE "done",
                                    ![r].cursor = IF more THEN f.page[1] ELSE @,
                                    ![r].pages = f.page \o @,
                                    ![r].page = <<>>]
        /\ UNCHANGED <<buffers, log, stamped, sender>>

-----------------------------------------------------------------------------

Page(r) == Refused(r) \/ ReadPage(r) \/ ReadMore(r)

Next ==
    \/ \E t \in Senders : Save(t) \/ \E h \in Channels : Stamp(t, h)
    \/ \E r \in Readers : Page(r) \/ \E h \in Channels : Open(r, h)

Spec == Init /\ [][Next]_vars

\* A reader keeps asking: fetchNextPage is called while hasNextPage is set.
FairSpec == Spec /\ \A r \in Readers : WF_vars(Page(r))

-----------------------------------------------------------------------------
(* Properties.                                                             *)

\* Also: no page exceeds what the client asked for or what the server allows.
TypeOK ==
    /\ buffers \in [Channels -> Seq(Messages)]
    /\ log \in [Channels -> Seq(Messages)]
    /\ stamped \in 0..MaxMessages
    /\ sender \in [Senders -> [id : Messages \cup {None}, channel : Channels \cup {None}]]
    /\ \A r \in Readers :
          /\ reader[r].pc \in {"idle", "page", "more", "done", "failed"}
          /\ reader[r].channel \in Channels \cup {None}
          /\ reader[r].cursor \in Messages \cup {None}
          /\ reader[r].page \in Seq(Messages)
          /\ reader[r].pages \in Seq(Messages)
          /\ reader[r].end \in Nat
    /\ \A r \in Readers :
          Len(reader[r].page) <= kServerMaxLimit /\ Len(reader[r].page) <= PageLimit

\* What a channel retains is exactly the newest messages sent to it, as many
\* as the cap allows, however the sends to all channels interleave; the last
\* one at least, so that a message heard live is found in the history.
BufferIsNewest ==
    \A h \in Channels :
       /\ buffers[h] = Newest(log[h], cap)
       /\ log[h] # <<>> => buffers[h] # <<>>

\* Whatever is sent and evicted between two pages, and between the two halves
\* of one request: the pages a client has put together are one unbroken run of
\* the channel's messages that ends where the first page ended.
PagesAreContiguous ==
    \A r \in Readers :
       LET f == reader[r]
       IN  f.channel # None =>
              /\ Len(f.pages) <= f.end
              /\ f.pages = SubSeq(log[f.channel], f.end - Len(f.pages) + 1, f.end)

\* When the client is told there is nothing more, it holds every message that
\* was there when it began and is still retained.
PagingIsComplete ==
    \A r \in Readers :
       LET f == reader[r]
       IN  f.pc = "done" =>
              \A i \in 1..f.end :
                 log[f.channel][i] \in Ids(buffers[f.channel])
                    => log[f.channel][i] \in Ids(f.pages)

\* Paging ends, although senders keep adding and evicting messages.
PagingEnds ==
    \A r \in Readers : reader[r].pc = "page" ~> reader[r].pc \in {"done", "failed"}
=============================================================================
