------------------------ MODULE MessageHistoryProofs ------------------------
(* Machine-checked proofs about MessageHistory, for any caps, page limits  *)
(* and number of channels, senders and readers.                            *)
EXTENDS MessageHistory, SequenceTheorems, TLAPS

-----------------------------------------------------------------------------
(* The window of the newest n messages.                                    *)

\* What Newest returns, element by element.
LEMMA NewestProperties ==
    ASSUME NEW S, NEW l \in Seq(S), NEW n \in Nat
    PROVE  /\ Newest(l, n) \in Seq(S)
           /\ Len(Newest(l, n)) = IF Len(l) <= n THEN Len(l) ELSE n
           /\ \A i \in 1..Len(Newest(l, n)) :
                 Newest(l, n)[i] = l[Len(l) - Len(Newest(l, n)) + i]
  <1>0. Len(l) \in Nat /\ \A i \in 1..Len(l) : l[i] \in S
    BY ElementOfSeq, LenProperties
  <1>1. CASE Len(l) <= n
    BY <1>0, <1>1 DEF Newest
  <1>2. CASE ~(Len(l) <= n)
    <2>1. Newest(l, n) = SubSeq(l, Len(l) - n + 1, Len(l))
      BY <1>2 DEF Newest
    <2>2. \A i \in (Len(l) - n + 1)..Len(l) : l[i] \in S
      BY <1>0, <1>2
    <2>3. /\ Newest(l, n) \in Seq(S)
          /\ Len(Newest(l, n)) = IF Len(l) - n + 1 <= Len(l)
                                 THEN Len(l) - (Len(l) - n + 1) + 1 ELSE 0
          /\ \A i \in 1..(Len(l) - (Len(l) - n + 1) + 1) :
                Newest(l, n)[i] = l[(Len(l) - n + 1) + i - 1]
      BY <1>0, <2>1, <2>2, SubSeqProperties
    <2>4. Len(Newest(l, n)) = n
      BY <1>0, <2>3
    <2>5. \A i \in 1..n : Newest(l, n)[i] = l[Len(l) - n + i]
      <3> SUFFICES ASSUME NEW i \in 1..n PROVE Newest(l, n)[i] = l[Len(l) - n + i]
        OBVIOUS
      <3>1. Len(l) - (Len(l) - n + 1) + 1 = n /\ (Len(l) - n + 1) + i - 1 = Len(l) - n + i
        BY <1>0
      <3> QED
        BY <2>3, <3>1
    <2> QED
      BY <1>2, <2>3, <2>4, <2>5
  <1> QED
    BY <1>1, <1>2

\* Appending to the window and cutting it again is cutting the whole log: the
\* evictions of save never drop a message they should keep.
LEMMA NewestAppend ==
    ASSUME NEW S, NEW l \in Seq(S), NEW m \in S, NEW n \in Nat \ {0}
    PROVE  Newest(Append(Newest(l, n), m), n) = Newest(Append(l, m), n)
  <1> DEFINE w == Newest(l, n)
             a == Append(w, m)
             b == Append(l, m)
             x == Newest(a, n)
             y == Newest(b, n)
  <1>0. n \in Nat /\ Len(l) \in Nat
    BY LenProperties
  <1>1. /\ w \in Seq(S)
        /\ Len(w) = IF Len(l) <= n THEN Len(l) ELSE n
        /\ \A i \in 1..Len(w) : w[i] = l[Len(l) - Len(w) + i]
    BY NewestProperties
  <1>2. /\ a \in Seq(S) /\ Len(a) = Len(w) + 1
        /\ \A i \in 1..Len(w) : a[i] = w[i]
        /\ a[Len(w) + 1] = m
    <2> HIDE DEF w
    <2> QED
      BY <1>1, AppendProperties
  <1>3. /\ b \in Seq(S) /\ Len(b) = Len(l) + 1
        /\ \A i \in 1..Len(l) : b[i] = l[i]
        /\ b[Len(l) + 1] = m
    BY AppendProperties
  <1> HIDE DEF w, a, b
  <1>4. /\ x \in Seq(S) /\ Len(x) = IF Len(a) <= n THEN Len(a) ELSE n
        /\ \A i \in 1..Len(x) : x[i] = a[Len(a) - Len(x) + i]
    <2>1. a \in Seq(S)
      BY <1>2
    <2> QED
      BY <1>0, <2>1, NewestProperties
  <1>5. /\ y \in Seq(S) /\ Len(y) = IF Len(b) <= n THEN Len(b) ELSE n
        /\ \A i \in 1..Len(y) : y[i] = b[Len(b) - Len(y) + i]
    <2>1. b \in Seq(S)
      BY <1>3
    <2> QED
      BY <1>0, <2>1, NewestProperties
  <1> HIDE DEF x, y
  <1>6. Len(x) = Len(y) /\ Len(x) \in Nat
    BY <1>0, <1>1, <1>2, <1>3, <1>4, <1>5
  <1>7. ASSUME NEW i \in 1..Len(x) PROVE x[i] = y[i]
    <2> DEFINE p == Len(a) - Len(x) + i
               q == Len(b) - Len(y) + i
    <2>0. /\ Len(w) \in Nat /\ Len(a) = Len(w) + 1 /\ Len(b) = Len(l) + 1
          /\ Len(x) \in Nat /\ Len(y) = Len(x) /\ Len(x) <= Len(a)
      BY <1>0, <1>1, <1>2, <1>3, <1>4, <1>6
    <2>1. x[i] = a[p] /\ y[i] = b[q]
      BY <1>4, <1>5, <1>6
    <2>2. p \in 1..(Len(w) + 1) /\ q = p + Len(l) - Len(w)
      BY <1>0, <2>0
    <2> HIDE DEF p, q
    <2>3. CASE p = Len(w) + 1
      <3>1. q = Len(l) + 1
        BY <1>0, <2>0, <2>2, <2>3
      <3> QED
        BY <1>2, <1>3, <2>1, <2>3, <3>1
    <2>4. CASE p \in 1..Len(w)
      <3>1. q = Len(l) - Len(w) + p /\ q \in 1..Len(l)
        BY <1>0, <1>1, <2>0, <2>2, <2>4
      <3> QED
        BY <1>1, <1>2, <1>3, <2>1, <2>4, <3>1
    <2> QED
      BY <2>0, <2>2, <2>3, <2>4
  <1> QED
    BY <1>4, <1>5, <1>6, <1>7, SeqEqual DEF x, y, a, b, w

-----------------------------------------------------------------------------
(* The history.                                                            *)

\* The part of the types the stores need: a sender that holds a message holds
\* its channel.
StoreTypes ==
    /\ buffers \in [Channels -> Seq(Messages)]
    /\ log \in [Channels -> Seq(Messages)]
    /\ stamped \in 0..MaxMessages
    /\ sender \in [Senders -> [id : Messages \cup {None}, channel : Channels \cup {None}]]
    /\ \A t \in Senders : sender[t].id # None => sender[t].channel \in Channels

HistoryInv == StoreTypes /\ BufferIsNewest

LEMMA CapPositive == cap \in Nat \ {0}
  BY HistoryAssumption DEF cap

LEMMA HistoryInit == Init => HistoryInv
  <1> SUFFICES ASSUME Init PROVE HistoryInv
    OBVIOUS
  <1>1. StoreTypes
    BY HistoryAssumption, EmptySeq DEF Init, StoreTypes
  <1>2. Newest(<<>>, cap) = <<>>
    BY CapPositive DEF Newest
  <1>3. BufferIsNewest
    BY <1>2 DEF Init, BufferIsNewest
  <1> QED
    BY <1>1, <1>3 DEF HistoryInv

LEMMA HistorySave ==
    ASSUME HistoryInv, NEW t \in Senders, Save(t)
    PROVE  HistoryInv'
  <1> DEFINE m == sender[t].id
             h == sender[t].channel
  <1>1. /\ m \in Messages /\ h \in Channels /\ cap \in Nat \ {0}
        /\ log[h] \in Seq(Messages) /\ buffers[h] = Newest(log[h], cap)
    BY CapPositive DEF HistoryInv, StoreTypes, BufferIsNewest, Save
  <1>2. /\ buffers' = [buffers EXCEPT ![h] = Newest(Append(buffers[h], m), cap)]
        /\ log' = [log EXCEPT ![h] = Append(log[h], m)]
        /\ sender' = [sender EXCEPT ![t] = [id |-> None, channel |-> None]]
        /\ stamped' = stamped
    BY DEF Save
  <1> HIDE DEF m, h
  <1>3. /\ Append(log[h], m) \in Seq(Messages) /\ Len(Append(log[h], m)) = Len(log[h]) + 1
        /\ Len(log[h]) \in Nat
    BY <1>1, AppendProperties, LenProperties
  <1>4. Newest(Append(buffers[h], m), cap) = Newest(Append(log[h], m), cap)
    BY <1>1, NewestAppend
  <1>5. /\ Newest(Append(log[h], m), cap) \in Seq(Messages)
        /\ Newest(Append(log[h], m), cap) # <<>>
    <2>1. /\ Newest(Append(log[h], m), cap) \in Seq(Messages)
          /\ Len(Newest(Append(log[h], m), cap)) =
                IF Len(Append(log[h], m)) <= cap THEN Len(Append(log[h], m)) ELSE cap
      BY <1>1, <1>3, NewestProperties
    <2>2. Len(Newest(Append(log[h], m), cap)) # 0
      BY <1>1, <1>3, <2>1
    <2> QED
      BY <2>1, <2>2, EmptySeq
  <1>6. StoreTypes'
    BY <1>1, <1>2, <1>3, <1>4, <1>5 DEF HistoryInv, StoreTypes
  <1>7. ASSUME NEW k \in Channels
        PROVE  buffers'[k] = Newest(log'[k], cap) /\ (log'[k] # <<>> => buffers'[k] # <<>>)
    <2>1. CASE k = h
      BY <1>1, <1>2, <1>4, <1>5, <2>1 DEF HistoryInv, StoreTypes
    <2>2. CASE k # h
      BY <1>1, <1>2, <2>2 DEF HistoryInv, StoreTypes, BufferIsNewest
    <2> QED
      BY <2>1, <2>2
  <1> QED
    BY <1>6, <1>7 DEF HistoryInv, BufferIsNewest

LEMMA HistoryStep == HistoryInv /\ [Next]_vars => HistoryInv'
  <1> SUFFICES ASSUME HistoryInv, [Next]_vars PROVE HistoryInv'
    OBVIOUS
  <1>1. ASSUME NEW t \in Senders, NEW h \in Channels, Stamp(t, h) PROVE HistoryInv'
    <2>1. stamped + 1 \in Messages /\ stamped + 1 \in 0..MaxMessages
      BY <1>1, HistoryAssumption DEF Stamp, Messages, HistoryInv, StoreTypes
    <2>2. StoreTypes'
      BY <1>1, <2>1 DEF Stamp, HistoryInv, StoreTypes
    <2>3. BufferIsNewest'
      BY <1>1 DEF Stamp, HistoryInv, BufferIsNewest
    <2> QED
      BY <2>2, <2>3 DEF HistoryInv
  <1>2. CASE UNCHANGED <<buffers, log, stamped, sender>>
    BY <1>2 DEF HistoryInv, StoreTypes, BufferIsNewest
  <1>3. ASSUME NEW r \in Readers, Page(r) \/ \E h \in Channels : Open(r, h)
        PROVE  UNCHANGED <<buffers, log, stamped, sender>>
    BY <1>3 DEF Page, Refused, ReadPage, ReadMore, Open
  <1> QED
    BY <1>1, <1>2, <1>3, HistorySave DEF Next, vars

\* What a channel retains is exactly the newest messages saved to it, at least
\* the last one, for every cap (0 meaning the default) and any interleaving of
\* senders (InMemoryMessageRepository::save).
THEOREM BufferIsNewestCorrect == Spec => []BufferIsNewest
  <1>1. HistoryInv => BufferIsNewest
    BY DEF HistoryInv
  <1> QED
    BY <1>1, HistoryInit, HistoryStep, PTL DEF Spec

-----------------------------------------------------------------------------
(* Every message is saved once.                                            *)

\* No channel holds a message twice, a message being sent is in no channel,
\* and no two senders hold the same one.  A cursor so names one position.
Distinct ==
    /\ \A h \in Channels : \A i, j \in 1..Len(log[h]) : log[h][i] = log[h][j] => i = j
    /\ \A h \in Channels : \A i \in 1..Len(log[h]) : log[h][i] <= stamped
    /\ \A t \in Senders : sender[t].id # None =>
          /\ sender[t].id <= stamped
          /\ \A h \in Channels : \A i \in 1..Len(log[h]) : log[h][i] # sender[t].id
    /\ \A t, u \in Senders : t # u /\ sender[t].id # None => sender[t].id # sender[u].id

LEMMA DistinctStep ==
    ASSUME HistoryInv, Distinct, [Next]_vars
    PROVE  Distinct'
  <1>1. ASSUME NEW t \in Senders, NEW h \in Channels, Stamp(t, h) PROVE Distinct'
    <2>1. /\ sender' = [sender EXCEPT ![t] = [id |-> stamped + 1, channel |-> h]]
          /\ stamped' = stamped + 1 /\ log' = log /\ stamped \in Nat
          /\ stamped + 1 # None /\ stamped + 1 \in Messages
      BY <1>1, HistoryAssumption DEF Stamp, HistoryInv, StoreTypes, Messages
    <2>2. \A k \in Channels : \A i \in 1..Len(log[k]) : log[k][i] \in Int /\ log[k][i] <= stamped
      <3> SUFFICES ASSUME NEW k \in Channels, NEW i \in 1..Len(log[k])
                   PROVE  log[k][i] \in Int /\ log[k][i] <= stamped
        OBVIOUS
      <3>1. log[k] \in Seq(Messages)
        BY DEF HistoryInv, StoreTypes
      <3>2. log[k][i] \in Messages
        BY <3>1, ElementOfSeq
      <3> QED
        BY <3>2 DEF Distinct, Messages
    <2>3. /\ sender'[t].id = stamped + 1
          /\ \A u \in Senders : u # t => sender'[u].id = sender[u].id
      BY <2>1 DEF HistoryInv, StoreTypes
    <2>4. \A u \in Senders : sender[u].id # None => sender[u].id \in Int /\ sender[u].id <= stamped
      BY DEF HistoryInv, StoreTypes, Distinct, Messages
    <2>5. \A u \in Senders : u # t => sender'[u].id # stamped + 1
      BY <2>1, <2>3, <2>4
    <2>6. \A u \in Senders : sender'[u].id # None =>
             /\ sender'[u].id <= stamped'
             /\ \A k \in Channels : \A i \in 1..Len(log'[k]) : log'[k][i] # sender'[u].id
      <3> SUFFICES ASSUME NEW u \in Senders, sender'[u].id # None
                   PROVE  /\ sender'[u].id <= stamped'
                          /\ \A k \in Channels : \A i \in 1..Len(log'[k]) : log'[k][i] # sender'[u].id
        OBVIOUS
      <3>1. CASE u = t
        BY <2>1, <2>2, <2>3, <3>1
      <3>2. CASE u # t
        BY <2>1, <2>3, <2>4, <3>2 DEF Distinct
      <3> QED
        BY <3>1, <3>2
    <2>7. \A u, v \in Senders : u # v /\ sender'[u].id # None => sender'[u].id # sender'[v].id
      BY <2>3, <2>5 DEF Distinct
    <2>8. \A k \in Channels : \A i \in 1..Len(log'[k]) : log'[k][i] <= stamped'
      BY <2>1, <2>2
    <2>9. \A k \in Channels : \A i, j \in 1..Len(log'[k]) : log'[k][i] = log'[k][j] => i = j
      BY <2>1 DEF Distinct
    <2> QED
      BY <2>6, <2>7, <2>8, <2>9 DEF Distinct
  <1>2. ASSUME NEW t \in Senders, Save(t) PROVE Distinct'
    <2> DEFINE m == sender[t].id
               h == sender[t].channel
    <2>1. /\ m \in Messages /\ h \in Channels /\ m # None /\ stamped' = stamped
          /\ log' = [log EXCEPT ![h] = Append(log[h], m)]
          /\ sender' = [sender EXCEPT ![t] = [id |-> None, channel |-> None]]
          /\ log[h] \in Seq(Messages) /\ m <= stamped
          /\ \A k \in Channels : \A i \in 1..Len(log[k]) : log[k][i] # m
          /\ \A u \in Senders : u # t => sender[u].id # m
      BY <1>2 DEF HistoryInv, StoreTypes, Distinct, Save
    <2>2. /\ \A u \in Senders : sender'[u].id # None => u # t /\ sender'[u].id = sender[u].id
      BY <2>1 DEF HistoryInv, StoreTypes
    <2> HIDE DEF m, h
    <2>3. /\ log'[h] = Append(log[h], m) /\ \A k \in Channels : k # h => log'[k] = log[k]
      BY <2>1 DEF HistoryInv, StoreTypes
    <2>4. /\ Len(log'[h]) = Len(log[h]) + 1 /\ Len(log[h]) \in Nat
          /\ log'[h][Len(log[h]) + 1] = m
          /\ \A i \in 1..Len(log[h]) : log'[h][i] = log[h][i]
      BY <2>1, <2>3, AppendProperties, LenProperties
    <2>5. ASSUME NEW k \in Channels, NEW i \in 1..Len(log'[k])
          PROVE  (k = h /\ i = Len(log[h]) + 1 /\ log'[k][i] = m)
                   \/ (i \in 1..Len(log[k]) /\ log'[k][i] = log[k][i])
      <3>1. CASE k # h
        BY <2>3, <3>1
      <3>2. CASE k = h /\ i = Len(log[h]) + 1
        BY <2>4, <3>2
      <3>3. CASE k = h /\ i # Len(log[h]) + 1
        <4>1. i \in 1..Len(log[h])
          BY <2>4, <3>3
        <4> QED
          BY <2>4, <3>3, <4>1
      <3> QED
        BY <3>1, <3>2, <3>3
    <2>6. \A k \in Channels : \A i, j \in 1..Len(log'[k]) : log'[k][i] = log'[k][j] => i = j
      <3> SUFFICES ASSUME NEW k \in Channels, NEW i \in 1..Len(log'[k]), NEW j \in 1..Len(log'[k]),
                          log'[k][i] = log'[k][j]
                   PROVE  i = j
        OBVIOUS
      <3>1. (k = h /\ i = Len(log[h]) + 1 /\ log'[k][i] = m)
              \/ (i \in 1..Len(log[k]) /\ log'[k][i] = log[k][i])
        BY <2>5
      <3>2. (k = h /\ j = Len(log[h]) + 1 /\ log'[k][j] = m)
              \/ (j \in 1..Len(log[k]) /\ log'[k][j] = log[k][j])
        BY <2>5
      <3>3. CASE i \in 1..Len(log[k]) /\ j \in 1..Len(log[k])
              /\ log'[k][i] = log[k][i] /\ log'[k][j] = log[k][j]
        BY <3>3 DEF Distinct
      <3> QED
        BY <2>1, <3>1, <3>2, <3>3
    <2>7. \A k \in Channels : \A i \in 1..Len(log'[k]) : log'[k][i] <= stamped'
      BY <2>1, <2>5 DEF Distinct
    <2>8. \A u \in Senders : sender'[u].id # None =>
             /\ sender'[u].id <= stamped'
             /\ \A k \in Channels : \A i \in 1..Len(log'[k]) : log'[k][i] # sender'[u].id
      <3> SUFFICES ASSUME NEW u \in Senders, sender'[u].id # None
                   PROVE  /\ sender'[u].id <= stamped'
                          /\ \A k \in Channels : \A i \in 1..Len(log'[k]) : log'[k][i] # sender'[u].id
        OBVIOUS
      <3>1. /\ u # t /\ sender'[u].id = sender[u].id /\ sender[u].id # m /\ sender[u].id <= stamped
            /\ \A k \in Channels : \A i \in 1..Len(log[k]) : log[k][i] # sender[u].id
        BY <2>1, <2>2 DEF Distinct
      <3> QED
        BY <2>1, <2>5, <3>1
    <2>9. \A u, v \in Senders : u # v /\ sender'[u].id # None => sender'[u].id # sender'[v].id
      BY <2>2 DEF Distinct
    <2> QED
      BY <2>6, <2>7, <2>8, <2>9 DEF Distinct
  <1>3. CASE UNCHANGED <<log, stamped, sender>>
    BY <1>3 DEF Distinct
  <1>4. ASSUME NEW r \in Readers, Page(r) \/ \E h \in Channels : Open(r, h)
        PROVE  UNCHANGED <<log, stamped, sender>>
    BY <1>4 DEF Page, Refused, ReadPage, ReadMore, Open
  <1> QED
    BY <1>1, <1>2, <1>3, <1>4 DEF Next, vars

-----------------------------------------------------------------------------
(* The pages.                                                              *)

\* How many of a channel's messages are evicted: the retained ones follow.
Evicted(h) == Len(log[h]) - Len(buffers[h])

\* s is the run of l that follows the first n elements.
IsRun(s, l, n) == \A i \in 1..Len(s) : s[i] = l[n + i]

LEMMA CappedPositive == capped \in Nat \ {0} /\ capped <= PageLimit /\ capped <= kServerMaxLimit
  BY HistoryAssumption DEF capped

\* The retained messages are the run of the log after the evicted ones.
LEMMA Retained ==
    ASSUME HistoryInv, NEW h \in Channels
    PROVE  /\ buffers[h] \in Seq(Messages) /\ log[h] \in Seq(Messages)
           /\ Len(buffers[h]) \in Nat /\ Len(log[h]) \in Nat
           /\ Evicted(h) \in Nat
           /\ IsRun(buffers[h], log[h], Evicted(h))
  <1>1. /\ log[h] \in Seq(Messages) /\ buffers[h] = Newest(log[h], cap) /\ cap \in Nat
        /\ Len(log[h]) \in Nat
    BY CapPositive, LenProperties DEF HistoryInv, StoreTypes, BufferIsNewest
  <1>2. /\ buffers[h] \in Seq(Messages)
        /\ Len(buffers[h]) = IF Len(log[h]) <= cap THEN Len(log[h]) ELSE cap
        /\ \A i \in 1..Len(buffers[h]) : buffers[h][i] = log[h][Len(log[h]) - Len(buffers[h]) + i]
    <2> DEFINE W == Newest(log[h], cap)
    <2>1. /\ W \in Seq(Messages)
          /\ Len(W) = IF Len(log[h]) <= cap THEN Len(log[h]) ELSE cap
          /\ \A i \in 1..Len(W) : W[i] = log[h][Len(log[h]) - Len(W) + i]
      BY <1>1, NewestProperties
    <2>2. buffers[h] = W
      BY <1>1
    <2> HIDE DEF W
    <2> QED
      BY <2>1, <2>2
  <1>3. Len(buffers[h]) \in Nat /\ Len(buffers[h]) <= Len(log[h])
    BY <1>1, <1>2
  <1>4. Evicted(h) \in Nat
    BY <1>1, <1>3 DEF Evicted
  <1> QED
    BY <1>1, <1>2, <1>3, <1>4 DEF Evicted, IsRun

\* What listBefore returns for the message at position p of the log: the run
\* that ends just before p; nothing only when nothing before p is retained.
LEMMA ListBeforeRun ==
    ASSUME HistoryInv, Distinct, NEW h \in Channels, NEW p \in 1..Len(log[h]),
           NEW n \in Nat \ {0}
    PROVE  LET g == listBefore(h, log[h][p], n)
           IN  /\ g \in Seq(Messages) /\ Len(g) \in Nat /\ Len(g) <= n /\ Len(g) <= p - 1
               /\ IsRun(g, log[h], p - 1 - Len(g))
               /\ g = <<>> => Evicted(h) >= p - 1
  <1> DEFINE B == buffers[h]
             L == log[h]
             e == Evicted(h)
             c == L[p]
             g == listBefore(h, c, n)
  <1>0. /\ B \in Seq(Messages) /\ L \in Seq(Messages) /\ Len(B) \in Nat /\ Len(L) \in Nat
        /\ e \in Nat /\ Len(L) = e + Len(B) /\ DOMAIN B = 1..Len(B)
        /\ \A i \in 1..Len(B) : B[i] = L[e + i]
    <2>1. B \in Seq(Messages) /\ Len(B) \in Nat /\ Len(L) \in Nat /\ e \in Nat
      BY Retained
    <2>2. DOMAIN B = 1..Len(B)
      BY <2>1, LenProperties
    <2> QED
      BY <2>1, <2>2, Retained DEF IsRun, Evicted
  <1>1. CASE c \notin Ids(B)
    <2>1. g = <<>>
      BY <1>1 DEF listBefore
    <2>2. ~(e < p)
      <3> SUFFICES ASSUME e < p PROVE FALSE
        OBVIOUS
      <3>1. p - e \in 1..Len(B) /\ e + (p - e) = p
        BY <1>0
      <3>2. B[p - e] = c
        BY <1>0, <3>1
      <3> QED
        BY <1>0, <1>1, <3>1, <3>2 DEF Ids
    <2>3. e >= p - 1
      BY <1>0, <2>2
    <2>4. g \in Seq(Messages) /\ Len(g) = 0
      BY <2>1, EmptySeq
    <2> HIDE DEF g, e
    <2> QED
      BY <1>0, <2>1, <2>3, <2>4 DEF IsRun, g, e
  <1>2. CASE c \in Ids(B)
    <2> DEFINE k == CHOOSE i \in DOMAIN B : B[i] = c
               w == SubSeq(B, 1, k - 1)
    <2>1. k \in 1..Len(B) /\ B[k] = c
      BY <1>0, <1>2 DEF Ids
    <2>2. g = Newest(w, n)
      BY <1>2 DEF listBefore
    <2> HIDE DEF k, g
    <2>3. e + k = p
      <3>1. e + k \in 1..Len(L) /\ L[e + k] = L[p]
        BY <1>0, <2>1
      <3> QED
        BY <3>1 DEF Distinct
    <2>4. w \in Seq(Messages) /\ Len(w) = k - 1 /\ \A i \in 1..(k - 1) : w[i] = B[i]
      <3>1. \A i \in 1..(k - 1) : B[i] \in Messages
        <4> SUFFICES ASSUME NEW i \in 1..(k - 1) PROVE B[i] \in Messages
          OBVIOUS
        <4>1. i \in 1..Len(B)
          BY <1>0, <2>1
        <4> QED
          BY <1>0, <4>1, ElementOfSeq
      <3>2. 1 \in Int /\ k - 1 \in Int /\ 1 - 1 + (k - 1) = k - 1
        BY <1>0, <2>1
      <3> HIDE DEF B
      <3>3. /\ w \in Seq(Messages)
            /\ Len(w) = IF 1 <= k - 1 THEN (k - 1) - 1 + 1 ELSE 0
            /\ \A i \in 1..((k - 1) - 1 + 1) : w[i] = B[1 + i - 1]
        BY <3>1, <3>2, SubSeqProperties
      <3>4. Len(w) = k - 1 /\ (k - 1) - 1 + 1 = k - 1
        BY <1>0, <2>1, <3>3
      <3>5. \A i \in 1..(k - 1) : 1 + i - 1 = i
        BY <1>0, <2>1
      <3> QED
        BY <3>3, <3>4, <3>5
    <2> HIDE DEF w
    <2>5. /\ g \in Seq(Messages) /\ Len(g) = IF Len(w) <= n THEN Len(w) ELSE n
          /\ \A i \in 1..Len(g) : g[i] = w[Len(w) - Len(g) + i]
      <3> DEFINE W == Newest(w, n)
      <3>1. /\ W \in Seq(Messages) /\ Len(W) = IF Len(w) <= n THEN Len(w) ELSE n
            /\ \A i \in 1..Len(W) : W[i] = w[Len(w) - Len(W) + i]
        BY <2>4, NewestProperties
      <3>2. g = W
        BY <2>2
      <3> HIDE DEF W
      <3> QED
        BY <3>1, <3>2
    <2>6. k \in Nat /\ Len(g) \in Nat /\ Len(g) <= n /\ Len(g) <= k - 1
      BY <1>0, <2>1, <2>4, <2>5
    <2>7. \A i \in 1..Len(g) : g[i] = L[p - 1 - Len(g) + i]
      <3> SUFFICES ASSUME NEW i \in 1..Len(g) PROVE g[i] = L[p - 1 - Len(g) + i]
        OBVIOUS
      <3>1. k - 1 - Len(g) + i \in 1..(k - 1) /\ k - 1 - Len(g) + i \in 1..Len(B)
        BY <1>0, <2>1, <2>6
      <3>2. g[i] = B[k - 1 - Len(g) + i]
        BY <2>4, <2>5, <3>1
      <3>3. e + (k - 1 - Len(g) + i) = p - 1 - Len(g) + i
        <4>1. e \in Int /\ k \in Int /\ p \in Int /\ Len(g) \in Int /\ i \in Int /\ e + k = p
          BY <1>0, <2>3, <2>6
        <4> HIDE DEF e
        <4> QED
          BY <4>1
      <3> QED
        BY <1>0, <3>1, <3>2, <3>3
    <2>8. Len(g) <= p - 1
      BY <1>0, <2>3, <2>6
    <2>9. g = <<>> => e >= p - 1
      <3> SUFFICES ASSUME g = <<>> PROVE e >= p - 1
        OBVIOUS
      <3>1. Len(g) = 0
        BY EmptySeq
      <3> QED
        BY <1>0, <2>3, <2>4, <2>5, <2>6, <3>1
    <2> QED
      BY <2>5, <2>6, <2>7, <2>8, <2>9 DEF IsRun, g
  <1> QED
    BY <1>1, <1>2

\* The newest page, as a run that ends with the log.
LEMMA RecentRun ==
    ASSUME HistoryInv, NEW h \in Channels
    PROVE  LET g == recent(h, capped)
           IN  /\ g \in Seq(Messages) /\ Len(g) \in Nat /\ Len(g) <= capped
               /\ Len(g) <= Len(log[h])
               /\ IsRun(g, log[h], Len(log[h]) - Len(g))
               /\ g = <<>> => Evicted(h) >= Len(log[h])
  <1> DEFINE B == buffers[h]
             g == recent(h, capped)
  <1>1. /\ B \in Seq(Messages) /\ Len(B) \in Nat /\ Len(log[h]) \in Nat
        /\ Evicted(h) \in Nat /\ Evicted(h) = Len(log[h]) - Len(B)
        /\ \A i \in 1..Len(B) : B[i] = log[h][Evicted(h) + i]
    BY Retained DEF IsRun, Evicted
  <1>2. /\ g \in Seq(Messages) /\ Len(g) = IF Len(B) <= capped THEN Len(B) ELSE capped
        /\ \A i \in 1..Len(g) : g[i] = B[Len(B) - Len(g) + i]
    BY <1>1, CappedPositive, NewestProperties DEF recent
  <1> HIDE DEF g, B
  <1>3. Len(g) \in Nat /\ Len(g) <= capped /\ Len(g) <= Len(B) /\ Len(g) <= Len(log[h])
    BY <1>1, <1>2, CappedPositive
  <1>4. \A i \in 1..Len(g) : g[i] = log[h][Len(log[h]) - Len(g) + i]
    <2> SUFFICES ASSUME NEW i \in 1..Len(g) PROVE g[i] = log[h][Len(log[h]) - Len(g) + i]
      OBVIOUS
    <2>1. Len(B) - Len(g) + i \in 1..Len(B)
      BY <1>1, <1>3
    <2>2. Evicted(h) + (Len(B) - Len(g) + i) = Len(log[h]) - Len(g) + i
      <3>1. /\ Evicted(h) = Len(log[h]) - Len(B) /\ Len(B) \in Int /\ Len(g) \in Int
            /\ Len(log[h]) \in Int /\ i \in Int /\ Evicted(h) \in Int
        BY <1>1, <1>3
      <3> DEFINE a == Evicted(h)
                 b == Len(B)
                 c == Len(g)
                 d == Len(log[h])
      <3>2. a = d - b /\ a \in Int /\ b \in Int /\ c \in Int /\ d \in Int /\ i \in Int
        BY <3>1
      <3> HIDE DEF a, b, c, d
      <3>3. a + (b - c + i) = d - c + i
        BY <3>2
      <3> QED
        BY <3>3 DEF a, b, c, d
    <2> QED
      BY <1>1, <1>2, <2>1, <2>2
  <1>5. g = <<>> => Evicted(h) >= Len(log[h])
    <2> SUFFICES ASSUME g = <<>> PROVE Evicted(h) >= Len(log[h])
      OBVIOUS
    <2>1. Len(g) = 0
      BY EmptySeq
    <2> QED
      BY <1>1, <1>2, <2>1, CappedPositive
  <1> QED
    BY <1>2, <1>3, <1>4, <1>5 DEF IsRun, g

-----------------------------------------------------------------------------
(* The readers.                                                            *)

\* Positions of a run of a elements that ends b short of e.
LEMMA InsideRun ==
    ASSUME NEW e \in Nat, NEW a \in Nat, NEW b \in Nat, NEW n \in Nat, a + b <= e, e <= n
    PROVE  /\ \A i \in 1..a : e - a + i \in 1..n
           /\ \A i \in 1..b : e - a - b + i \in 1..n
  OBVIOUS

\* The window moves forward when one is added and at most one more retained.
LEMMA WindowMoves ==
    ASSUME NEW x \in Nat, NEW y \in Nat, NEW z \in Nat, x - y \in Nat, z <= y + 1
    PROVE  (x + 1) - z \in Nat /\ x - y <= (x + 1) - z
  OBVIOUS

ReaderRecord ==
    [pc : {"idle", "page", "more", "done", "failed"}, channel : Channels \cup {None},
     cursor : Messages \cup {None}, page : Seq(Messages), pages : Seq(Messages), end : Nat]

\* Where a reader's pages are in its channel's log: they end at end, the page
\* just read comes directly before them.
Placed(f) ==
    LET l == log[f.channel]
    IN  /\ Len(f.pages) + Len(f.page) <= f.end
        /\ f.end <= Len(l)
        /\ IsRun(f.pages, l, f.end - Len(f.pages))
        /\ IsRun(f.page, l, f.end - Len(f.pages) - Len(f.page))

\* Nothing before the pages the reader holds is retained.
Exhausted(f) == Evicted(f.channel) >= f.end - Len(f.pages)

ReaderOK(f) ==
    /\ f \in ReaderRecord
    /\ f.pc = "idle" => f.channel = None
    /\ f.pc # "idle" => f.channel \in Channels /\ Placed(f)
    /\ f.pc # "more" => f.page = <<>>
    /\ Len(f.page) <= capped
    /\ f.pc = "page" =>
          IF f.cursor = None THEN f.pages = <<>>
                             ELSE f.pages # <<>> /\ f.cursor = f.pages[1]
    /\ f.pc = "more" /\ f.page = <<>> => Exhausted(f)
    /\ f.pc = "done" => Exhausted(f)

Readings ==
    /\ reader \in [Readers -> ReaderRecord]
    /\ \A r \in Readers : ReaderOK(reader[r])

IInv == HistoryInv /\ Distinct /\ Readings

LEMMA ReadersInit == Init => Distinct /\ Readings
  <1> SUFFICES ASSUME Init PROVE Distinct /\ Readings
    OBVIOUS
  <1>1. \A h \in Channels : Len(log[h]) = 0
    BY EmptySeq DEF Init
  <1>2. Distinct
    BY <1>1 DEF Init, Distinct
  <1>3. Len(<<>>) = 0 /\ <<>> \in Seq(Messages) /\ 0 <= capped
    BY EmptySeq, CappedPositive
  <1>4. Idle \in ReaderRecord
    BY <1>3 DEF Idle, ReaderRecord
  <1>5. ReaderOK(Idle)
    BY <1>3, <1>4 DEF ReaderOK, Idle
  <1> QED
    BY <1>2, <1>4, <1>5 DEF Init, Readings

\* Saving moves the window forward and leaves every position of the log as it
\* is: what is placed stays placed and what is exhausted stays exhausted.
LEMMA SaveKeepsReaders ==
    ASSUME IInv, NEW t \in Senders, Save(t)
    PROVE  Readings'
  <1>1. reader' = reader
    BY DEF Save
  <1>2. HistoryInv'
    BY HistorySave DEF IInv
  <1>3. ASSUME NEW h \in Channels
        PROVE  /\ Len(log[h]) \in Nat /\ Len(log'[h]) \in Nat /\ Len(log[h]) <= Len(log'[h])
               /\ \A i \in 1..Len(log[h]) : log'[h][i] = log[h][i]
               /\ Evicted(h) \in Nat /\ Evicted(h)' \in Nat /\ Evicted(h) <= Evicted(h)'
    <2> DEFINE m == sender[t].id
               k == sender[t].channel
    <2>1. /\ m \in Messages /\ k \in Channels
          /\ log' = [log EXCEPT ![k] = Append(log[k], m)]
          /\ buffers' = [buffers EXCEPT ![k] = Newest(Append(buffers[k], m), cap)]
          /\ log \in [Channels -> Seq(Messages)] /\ buffers \in [Channels -> Seq(Messages)]
      BY DEF IInv, HistoryInv, StoreTypes, Save
    <2> HIDE DEF m, k
    <2>2. Evicted(h) \in Nat /\ Len(log[h]) \in Nat /\ Len(buffers[h]) \in Nat
      BY Retained DEF IInv
    <2>3. CASE h # k
      <3>1. log'[h] = log[h] /\ buffers'[h] = buffers[h]
        BY <2>1, <2>3
      <3> QED
        BY <2>2, <3>1 DEF Evicted
    <2>4. CASE h = k
      <3>1. log'[h] = Append(log[h], m) /\ buffers'[h] = Newest(Append(buffers[h], m), cap)
        BY <2>1, <2>4
      <3>2. /\ Len(log'[h]) = Len(log[h]) + 1
            /\ \A i \in 1..Len(log[h]) : log'[h][i] = log[h][i]
        <4>1. log[h] \in Seq(Messages)
          BY <2>1
        <4> QED
          BY <2>1, <3>1, <4>1, AppendProperties
      <3>3. Append(buffers[h], m) \in Seq(Messages) /\ Len(Append(buffers[h], m)) = Len(buffers[h]) + 1
        <4>1. buffers[h] \in Seq(Messages)
          BY <2>1
        <4> QED
          BY <2>1, <4>1, AppendProperties
      <3>4. /\ Len(buffers'[h]) = IF Len(buffers[h]) + 1 <= cap THEN Len(buffers[h]) + 1 ELSE cap
            /\ cap \in Nat
        <4> DEFINE A == Append(buffers[h], m)
        <4>1. cap \in Nat /\ A \in Seq(Messages)
          BY <3>3, CapPositive
        <4> HIDE DEF A
        <4>2. Len(Newest(A, cap)) = IF Len(A) <= cap THEN Len(A) ELSE cap
          BY <4>1, NewestProperties
        <4> QED
          BY <3>1, <3>3, <4>1, <4>2 DEF A
      <3>5. Len(buffers'[h]) \in Nat /\ Len(buffers'[h]) <= Len(buffers[h]) + 1
        BY <2>2, <3>4
      <3>6. Evicted(h)' = Len(log'[h]) - Len(buffers'[h]) /\ Evicted(h) = Len(log[h]) - Len(buffers[h])
        BY DEF Evicted
      <3>7. Evicted(h)' \in Nat /\ Evicted(h) <= Evicted(h)'
        <4>1. Len(log[h]) - Len(buffers[h]) \in Nat
          BY <2>2, <3>6
        <4>2. /\ (Len(log[h]) + 1) - Len(buffers'[h]) \in Nat
              /\ Len(log[h]) - Len(buffers[h]) <= (Len(log[h]) + 1) - Len(buffers'[h])
          BY <2>2, <3>5, <4>1, WindowMoves
        <4> QED
          BY <3>2, <3>6, <4>2
      <3> QED
        BY <2>2, <3>2, <3>7
    <2> QED
      BY <2>3, <2>4
  <1>4. ASSUME NEW r \in Readers PROVE ReaderOK(reader[r])'
    <2> DEFINE f == reader[r]
    <2>1. ReaderOK(f)
      BY DEF IInv, Readings
    <2>2. f' = f
      BY <1>1
    <2>3. /\ f \in ReaderRecord /\ Len(f.page) \in Nat /\ Len(f.pages) \in Nat /\ f.end \in Nat
      <3>1. f \in ReaderRecord
        BY <2>1 DEF ReaderOK
      <3>2. f.page \in Seq(Messages) /\ f.pages \in Seq(Messages) /\ f.end \in Nat
        BY <3>1 DEF ReaderRecord
      <3> QED
        BY <3>1, <3>2, LenProperties
    <2> HIDE DEF f
    <2>4. ASSUME f.channel \in Channels, Placed(f) PROVE Placed(f)'
      <3> DEFINE h == f.channel
      <3>1. /\ Len(log[h]) \in Nat /\ Len(log'[h]) \in Nat /\ Len(log[h]) <= Len(log'[h])
            /\ \A i \in 1..Len(log[h]) : log'[h][i] = log[h][i]
        BY <1>3, <2>4
      <3>2. /\ Len(f.pages) + Len(f.page) <= f.end /\ f.end <= Len(log[h])
            /\ \A i \in 1..Len(f.pages) : f.pages[i] = log[h][f.end - Len(f.pages) + i]
            /\ \A i \in 1..Len(f.page) : f.page[i] = log[h][f.end - Len(f.pages) - Len(f.page) + i]
        BY <2>4 DEF Placed, IsRun
      <3> HIDE DEF h
      <3>3. \A i \in 1..Len(f.pages) : f.end - Len(f.pages) + i \in 1..Len(log[h])
        BY <2>3, <3>1, <3>2, InsideRun
      <3>4. \A i \in 1..Len(f.page) : f.end - Len(f.pages) - Len(f.page) + i \in 1..Len(log[h])
        BY <2>3, <3>1, <3>2, InsideRun
      <3>5. /\ \A i \in 1..Len(f.pages) : f.pages[i] = log'[h][f.end - Len(f.pages) + i]
            /\ \A i \in 1..Len(f.page) : f.page[i] = log'[h][f.end - Len(f.pages) - Len(f.page) + i]
        BY <3>1, <3>2, <3>3, <3>4
      <3>6. f.end <= Len(log'[h])
        BY <2>3, <3>1, <3>2
      <3> QED
        BY <2>2, <3>2, <3>5, <3>6 DEF Placed, IsRun, h
    <2>5. ASSUME f.channel \in Channels, Exhausted(f) PROVE Exhausted(f)'
      <3> DEFINE h == f.channel
      <3>1. /\ Evicted(h) \in Nat /\ Evicted(h)' \in Nat /\ Evicted(h) <= Evicted(h)'
            /\ Evicted(h) >= f.end - Len(f.pages)
        <4>1. h' = h
          BY <2>2
        <4>2. /\ Evicted(h) \in Nat /\ Len(log'[h]) - Len(buffers'[h]) \in Nat
              /\ Evicted(h) <= Len(log'[h]) - Len(buffers'[h])
          BY <1>3, <2>5 DEF Evicted
        <4> QED
          BY <2>5, <4>1, <4>2 DEF Exhausted, Evicted
      <3> QED
        BY <2>2, <2>3, <3>1 DEF Exhausted
    <2> QED
      BY <2>1, <2>2, <2>4, <2>5 DEF ReaderOK, f
  <1> QED
    BY <1>1, <1>4 DEF IInv, Readings

\* A step of one reader: the stores stay, so its new record is judged as it is.
LEMMA ReaderMoves ==
    ASSUME IInv, UNCHANGED <<buffers, log, stamped, sender>>,
           NEW r \in Readers, \A q \in Readers : q # r => reader'[q] = reader[q],
           reader' \in [Readers -> ReaderRecord], ReaderOK(reader'[r])
    PROVE  Readings'
  <1>1. \A q \in Readers : ReaderOK(reader'[q])
    BY DEF IInv, Readings
  <1>2. \A q \in Readers : ReaderOK(reader[q])'
    BY <1>1 DEF ReaderOK, Placed, Exhausted, Evicted, IsRun
  <1> QED
    BY <1>2 DEF Readings

LEMMA OpenStep ==
    ASSUME IInv, NEW r \in Readers, NEW h \in Channels, Open(r, h)
    PROVE  Readings'
  <1> DEFINE g == [Idle EXCEPT !.pc = "page", !.channel = h]
  <1>1. reader' = [reader EXCEPT ![r] = g] /\ UNCHANGED <<buffers, log, stamped, sender>>
    BY DEF Open
  <1>3. Len(<<>>) = 0 /\ <<>> \in Seq(Messages) /\ capped \in Nat /\ Len(log[h]) \in Nat
    BY EmptySeq, CappedPositive, Retained DEF IInv
  <1>2. /\ Idle \in ReaderRecord /\ Idle.cursor = None /\ Idle.end = 0
        /\ Idle.page = <<>> /\ Idle.pages = <<>>
    BY <1>3 DEF Idle, ReaderRecord
  <1>4. /\ g \in ReaderRecord /\ g.pc = "page" /\ g.channel = h /\ g.cursor = None
        /\ g.page = <<>> /\ g.pages = <<>> /\ g.end = 0
    BY <1>2 DEF ReaderRecord
  <1> HIDE DEF g
  <1>5. ReaderOK(g)
    BY <1>3, <1>4 DEF ReaderOK, Placed, IsRun
  <1>6. /\ reader' \in [Readers -> ReaderRecord] /\ reader'[r] = g
        /\ \A q \in Readers : q # r => reader'[q] = reader[q]
    BY <1>1, <1>4 DEF IInv, Readings
  <1> QED
    BY <1>1, <1>5, <1>6, ReaderMoves

LEMMA RefusedStep ==
    ASSUME IInv, NEW r \in Readers, Refused(r)
    PROVE  Readings'
  <1> DEFINE f == reader[r]
             g == [f EXCEPT !.pc = "failed"]
  <1>1. /\ reader' = [reader EXCEPT ![r] = g] /\ UNCHANGED <<buffers, log, stamped, sender>>
        /\ f.pc = "page"
    BY DEF Refused
  <1>2. ReaderOK(f) /\ f \in ReaderRecord
    BY DEF IInv, Readings, ReaderOK
  <1> HIDE DEF f
  <1>3. /\ g.pc = "failed" /\ g.channel = f.channel /\ g.page = f.page
        /\ g.pages = f.pages /\ g.end = f.end /\ g \in ReaderRecord
    BY <1>2 DEF ReaderRecord
  <1> HIDE DEF g
  <1>4. ReaderOK(g)
    BY <1>1, <1>2, <1>3 DEF ReaderOK, Placed, IsRun
  <1>5. /\ reader' \in [Readers -> ReaderRecord] /\ reader'[r] = g
        /\ \A q \in Readers : q # r => reader'[q] = reader[q]
    BY <1>1, <1>3 DEF IInv, Readings
  <1> QED
    BY <1>1, <1>4, <1>5, ReaderMoves

\* The page read comes directly before the pages held, whatever was evicted
\* since the last one: an evicted cursor gives an empty page, not a gap.
LEMMA ReadPageStep ==
    ASSUME IInv, NEW r \in Readers, ReadPage(r)
    PROVE  Readings'
  <1> DEFINE f == reader[r]
             h == f.channel
             l == log[h]
             P == IF f.cursor = None THEN recent(h, capped) ELSE listBefore(h, f.cursor, capped)
             E == IF f.cursor = None THEN Len(l) ELSE f.end
             g == [f EXCEPT !.pc = "more", !.page = P, !.end = E]
  <1>1. /\ reader' = [reader EXCEPT ![r] = g] /\ UNCHANGED <<buffers, log, stamped, sender>>
        /\ f.pc = "page"
    BY DEF ReadPage, IInv, Readings
  <1>2. ReaderOK(f) /\ f \in ReaderRecord
    BY DEF IInv, Readings, ReaderOK
  <1>3. /\ h \in Channels /\ Placed(f)
        /\ f.pages \in Seq(Messages) /\ Len(f.pages) \in Nat /\ f.end \in Nat
        /\ Len(f.pages) <= f.end /\ f.end <= Len(l) /\ Len(l) \in Nat
        /\ IsRun(f.pages, l, f.end - Len(f.pages))
    <2>1. h \in Channels /\ Placed(f) /\ f.page = <<>>
      BY <1>1, <1>2 DEF ReaderOK
    <2>2. f.pages \in Seq(Messages) /\ Len(f.pages) \in Nat /\ f.end \in Nat
      <3>1. f.pages \in Seq(Messages) /\ f.end \in Nat
        BY <1>2 DEF ReaderRecord
      <3> QED
        BY <3>1, LenProperties
    <2>3. Len(l) \in Nat
      BY <2>1, Retained DEF IInv
    <2>4. Len(f.page) = 0
      BY <2>1, EmptySeq
    <2> HIDE DEF f
    <2> QED
      BY <2>1, <2>2, <2>3, <2>4 DEF Placed
  <1>4. /\ P \in Seq(Messages) /\ Len(P) \in Nat /\ Len(P) <= capped /\ E \in Nat
        /\ Len(f.pages) + Len(P) <= E /\ E <= Len(l)
        /\ IsRun(f.pages, l, E - Len(f.pages))
        /\ IsRun(P, l, E - Len(f.pages) - Len(P))
        /\ P = <<>> => Evicted(h) >= E - Len(f.pages)
    <2>1. CASE f.cursor = None
      <3>1. f.pages = <<>> /\ Len(f.pages) = 0
        BY <1>1, <1>2, <2>1, EmptySeq DEF ReaderOK
      <3>2. P = recent(h, capped) /\ E = Len(l)
        BY <2>1
      <3> DEFINE R == recent(h, capped)
      <3>3. /\ R \in Seq(Messages) /\ Len(R) \in Nat /\ Len(R) <= capped /\ Len(R) <= Len(l)
            /\ IsRun(R, l, Len(l) - Len(R))
            /\ R = <<>> => Evicted(h) >= Len(l)
        BY <1>3, RecentRun DEF IInv
      <3> HIDE DEF P, E, f, R
      <3> HIDE DEF l
      <3>4. /\ Len(f.pages) + Len(P) <= E /\ E <= Len(l) /\ E \in Nat
            /\ E - Len(f.pages) - Len(P) = Len(l) - Len(R) /\ E - Len(f.pages) = Len(l)
        BY <1>3, <3>1, <3>2, <3>3 DEF R
      <3>5. IsRun(f.pages, l, E - Len(f.pages))
        BY <3>1 DEF IsRun
      <3> QED
        BY <3>2, <3>3, <3>4, <3>5 DEF R
    <2>2. CASE f.cursor # None
      <3> DEFINE p == f.end - Len(f.pages) + 1
                 R == listBefore(h, l[p], capped)
      <3>1. f.pages # <<>> /\ f.cursor = f.pages[1]
        BY <1>1, <1>2, <2>2 DEF ReaderOK
      <3>2. 1 \in 1..Len(f.pages)
        <4>1. Len(f.pages) # 0
          BY <1>3, <3>1, EmptySeq
        <4> QED
          BY <1>3, <4>1
      <3>3. f.cursor = l[p]
        BY <1>3, <3>1, <3>2 DEF IsRun
      <3>4. p \in 1..Len(l) /\ p - 1 = f.end - Len(f.pages)
        <4> DEFINE e == f.end
                   n == Len(f.pages)
                   k == Len(l)
        <4>1. e \in Nat /\ n \in Nat /\ k \in Nat /\ 1 <= n /\ n <= e /\ e <= k
          BY <1>3, <3>2
        <4> HIDE DEF e, n, k
        <4>2. e - n + 1 \in 1..k /\ (e - n + 1) - 1 = e - n
          BY <4>1
        <4> QED
          BY <4>2 DEF e, n, k
      <3>5. P = R /\ E = f.end
        BY <2>2, <3>3
      <3>6. /\ R \in Seq(Messages) /\ Len(R) \in Nat /\ Len(R) <= capped /\ Len(R) <= p - 1
            /\ IsRun(R, l, p - 1 - Len(R))
            /\ R = <<>> => Evicted(h) >= p - 1
        BY <1>3, <3>4, CappedPositive, ListBeforeRun DEF IInv
      <3> HIDE DEF P, E, f, R, p
      <3>7. Len(f.pages) + Len(R) <= f.end
        BY <1>3, <3>4, <3>6
      <3> QED
        BY <1>3, <3>4, <3>5, <3>6, <3>7
    <2> QED
      BY <2>1, <2>2
  <1> HIDE DEF f, P, E
  <1>5. /\ g.pc = "more" /\ g.channel = h /\ g.cursor = f.cursor /\ g.page = P
        /\ g.pages = f.pages /\ g.end = E /\ g \in ReaderRecord
    BY <1>2, <1>4 DEF ReaderRecord
  <1> HIDE DEF g
  <1>6. ReaderOK(g)
    BY <1>3, <1>4, <1>5 DEF ReaderOK, Placed, Exhausted
  <1>7. /\ reader' \in [Readers -> ReaderRecord] /\ reader'[r] = g
        /\ \A q \in Readers : q # r => reader'[q] = reader[q]
    BY <1>1, <1>5 DEF IInv, Readings
  <1> QED
    BY <1>1, <1>6, <1>7, ReaderMoves

\* Two runs one after the other are one run.
LEMMA JoinRuns ==
    ASSUME NEW a \in Seq(Messages), NEW b \in Seq(Messages), NEW l, NEW e \in Nat,
           Len(b) + Len(a) <= e, IsRun(b, l, e - Len(b)), IsRun(a, l, e - Len(b) - Len(a))
    PROVE  /\ a \o b \in Seq(Messages) /\ Len(a \o b) = Len(a) + Len(b)
           /\ IsRun(a \o b, l, e - Len(a \o b))
  <1> DEFINE c == a \o b
             m == Len(a)
             n == Len(b)
  <1>1. /\ c \in Seq(Messages) /\ Len(c) = m + n /\ m \in Nat /\ n \in Nat
        /\ \A i \in 1..(m + n) : c[i] = IF i <= m THEN a[i] ELSE b[i - m]
    BY ConcatProperties, LenProperties
  <1>2. /\ \A i \in 1..n : b[i] = l[e - n + i]
        /\ \A i \in 1..m : a[i] = l[e - n - m + i]
    BY DEF IsRun
  <1> HIDE DEF c, m, n
  <1>3. ASSUME NEW i \in 1..Len(c) PROVE c[i] = l[e - Len(c) + i]
    <2>1. CASE i <= m
      <3>1. i \in 1..m /\ i \in 1..(m + n) /\ e - n - m + i = e - Len(c) + i
        BY <1>1, <2>1
      <3> QED
        BY <1>1, <1>2, <2>1, <3>1
    <2>2. CASE ~(i <= m)
      <3>1. /\ i - m \in 1..n /\ i \in 1..(m + n) /\ e - n + (i - m) = e - Len(c) + i
        BY <1>1, <2>2
      <3> QED
        BY <1>1, <1>2, <2>2, <3>1
    <2> QED
      BY <2>1, <2>2
  <1> QED
    BY <1>1, <1>3 DEF IsRun, c, m, n

\* The page joins the pages; the client goes on from its oldest message, or
\* stops when nothing older is retained.
LEMMA ReadMoreStep ==
    ASSUME IInv, NEW r \in Readers, ReadMore(r)
    PROVE  Readings'
  <1> DEFINE f == reader[r]
             h == f.channel
             l == log[h]
             more == HasMore(h, f.page) /\ f.page # <<>>
             c == f.page \o f.pages
             p == f.end - Len(f.pages) - Len(f.page) + 1
             g == [f EXCEPT !.pc = IF more THEN "page" ELSE "done",
                            !.cursor = IF more THEN f.page[1] ELSE f.cursor,
                            !.pages = c, !.page = <<>>]
  <1>1. /\ reader' = [reader EXCEPT ![r] = g] /\ UNCHANGED <<buffers, log, stamped, sender>>
        /\ f.pc = "more"
    BY DEF ReadMore, IInv, Readings
  <1>2. ReaderOK(f) /\ f \in ReaderRecord
    BY DEF IInv, Readings, ReaderOK
  <1>3. /\ h \in Channels /\ Placed(f) /\ (f.page = <<>> => Exhausted(f))
        /\ f.page \in Seq(Messages) /\ f.pages \in Seq(Messages) /\ f.end \in Nat
        /\ Len(f.page) \in Nat /\ Len(f.pages) \in Nat /\ Len(l) \in Nat
    <2>1. h \in Channels /\ Placed(f) /\ (f.page = <<>> => Exhausted(f))
      BY <1>1, <1>2 DEF ReaderOK
    <2>2. f.page \in Seq(Messages) /\ f.pages \in Seq(Messages) /\ f.end \in Nat
      BY <1>2 DEF ReaderRecord
    <2> QED
      BY <2>1, <2>2, LenProperties, Retained DEF IInv
  <1>4. /\ Len(f.pages) + Len(f.page) <= f.end /\ f.end <= Len(l)
        /\ IsRun(f.pages, l, f.end - Len(f.pages))
        /\ IsRun(f.page, l, f.end - Len(f.pages) - Len(f.page))
    BY <1>3 DEF Placed
  <1> DEFINE e == f.end
             n == Len(f.pages)
             m == Len(f.page)
             k == Len(l)
  <1>a. e \in Nat /\ n \in Nat /\ k \in Nat /\ m \in Nat /\ n + m <= e /\ e <= k
    <2>1. e \in Nat /\ n \in Nat /\ k \in Nat /\ m \in Nat
      BY <1>3
    <2>2. n + m <= e /\ e <= k
      BY <1>4
    <2> QED
      BY <2>1, <2>2
  <1> HIDE DEF e, n, m, k
  <1>5. /\ c \in Seq(Messages) /\ Len(c) = Len(f.page) + Len(f.pages)
        /\ IsRun(c, l, f.end - Len(c))
    <2> HIDE DEF f, l
    <2> QED
      BY <1>3, <1>4, JoinRuns
  <1>6. f.page # <<>> =>
           /\ 1 \in 1..Len(f.page) /\ p \in 1..Len(l) /\ f.page[1] = l[p]
           /\ c[1] = f.page[1] /\ f.page[1] \in Messages
    <2> SUFFICES ASSUME f.page # <<>>
                 PROVE  /\ 1 \in 1..Len(f.page) /\ p \in 1..Len(l) /\ f.page[1] = l[p]
                        /\ c[1] = f.page[1] /\ f.page[1] \in Messages
      OBVIOUS
    <2>1. 1 \in 1..Len(f.page)
      <3>1. Len(f.page) # 0
        BY <1>3, EmptySeq
      <3> QED
        BY <1>3, <3>1
    <2>2. f.page[1] = l[p]
      BY <1>4, <2>1 DEF IsRun
    <2>3. f.page[1] \in Messages
      BY <1>3, <2>1, ElementOfSeq
    <2>4. p \in 1..Len(l)
      <3>1. 1 \in 1..m
        BY <2>1 DEF m
      <3>2. e - n - m + 1 \in 1..k
        BY <1>a, <3>1
      <3> QED
        BY <3>2 DEF e, n, k, m
    <2>5. c[1] = f.page[1]
      <3>1. 1 \in 1..(Len(f.page) + Len(f.pages)) /\ 1 <= Len(f.page)
        <4>1. 1 \in 1..m
          BY <2>1 DEF m
        <4>2. 1 \in 1..(m + n) /\ 1 <= m
          BY <1>a, <4>1
        <4> QED
          BY <4>2 DEF m, n
      <3> HIDE DEF f
      <3> QED
        BY <1>3, <3>1, ConcatProperties
    <2> QED
      BY <2>1, <2>2, <2>3, <2>4, <2>5
  <1>7. ~more => Evicted(h) >= f.end - Len(c)
    <2>1. CASE f.page = <<>>
      <3>1. Len(f.page) = 0 /\ Evicted(h) >= f.end - Len(f.pages)
        BY <1>3, <2>1, EmptySeq DEF Exhausted
      <3> QED
        BY <1>3, <1>5, <3>1
    <2>2. CASE f.page # <<>> /\ ~HasMore(h, f.page)
      <3>1. listBefore(h, l[p], 1) = <<>>
        BY <1>6, <2>2 DEF HasMore
      <3> HIDE DEF p, f
      <3>2. p \in 1..Len(l) /\ 1 \in Nat \ {0}
        <4> HIDE DEF l
        <4>1. p \in 1..Len(l)
          BY <1>6, <2>2
        <4> QED
          BY <4>1
      <3>3. listBefore(h, l[p], 1) = <<>> => Evicted(h) >= p - 1
        BY <1>3, <3>2, ListBeforeRun DEF IInv
      <3>4. p - 1 = f.end - Len(c)
        <4>1. (e - n - m + 1) - 1 = e - (m + n)
          BY <1>a
        <4> QED
          BY <1>5, <4>1 DEF p, e, n, m
      <3> QED
        BY <3>1, <3>3, <3>4
    <2> QED
      BY <2>1, <2>2
  <1>8. <<>> \in Seq(Messages) /\ Len(<<>>) = 0 /\ capped \in Nat
    BY EmptySeq, CappedPositive
  <1> HIDE DEF f, c, p
  <1>9. /\ g \in ReaderRecord /\ g.channel = h /\ g.page = <<>> /\ g.pages = c /\ g.end = f.end
        /\ g.pc = IF more THEN "page" ELSE "done"
        /\ g.cursor = IF more THEN f.page[1] ELSE f.cursor
    BY <1>2, <1>5, <1>6, <1>8 DEF ReaderRecord
  <1> HIDE DEF g, more
  <1>10. Placed(g)
    <2>1. /\ Len(c) + 0 <= f.end /\ f.end <= Len(l)
      <3>1. (m + n) + 0 <= e /\ e <= k
        BY <1>a
      <3> QED
        BY <1>5, <3>1 DEF e, n, m, k
    <2>2. IsRun(<<>>, l, f.end - Len(c) - 0)
      BY <1>8 DEF IsRun
    <2> HIDE DEF l
    <2>3. /\ Len(g.pages) + Len(g.page) <= g.end /\ g.end <= Len(l)
          /\ IsRun(g.pages, l, g.end - Len(g.pages))
          /\ IsRun(g.page, l, g.end - Len(g.pages) - Len(g.page))
      BY <1>5, <1>8, <1>9, <2>1, <2>2
    <2> QED
      BY <1>9, <2>3 DEF Placed, l
  <1>11. ~more => Exhausted(g)
    BY <1>7, <1>9 DEF Exhausted
  <1>12. more => c # <<>> /\ f.page[1] # None /\ f.page[1] = c[1]
    <2> SUFFICES ASSUME more PROVE c # <<>> /\ f.page[1] # None /\ f.page[1] = c[1]
      OBVIOUS
    <2>1. f.page # <<>>
      BY DEF more
    <2>2. 1 \in 1..Len(f.page) /\ f.page[1] \in Messages /\ f.page[1] = c[1]
      BY <1>6, <2>1
    <2>3. Len(c) # 0
      <3>1. 1 \in 1..m
        BY <2>2 DEF m
      <3>2. m + n # 0
        BY <1>a, <3>1
      <3> QED
        BY <1>5, <3>2 DEF m, n
    <2> QED
      BY <2>2, <2>3, EmptySeq, HistoryAssumption
  <1>13. ReaderOK(g)
    BY <1>3, <1>8, <1>9, <1>10, <1>11, <1>12 DEF ReaderOK
  <1>14. /\ reader' \in [Readers -> ReaderRecord] /\ reader'[r] = g
         /\ \A q \in Readers : q # r => reader'[q] = reader[q]
    BY <1>1, <1>9 DEF IInv, Readings
  <1> QED
    BY <1>1, <1>13, <1>14, ReaderMoves

LEMMA InductiveInit == Init => IInv
  BY HistoryInit, ReadersInit DEF IInv

LEMMA InductiveStep == IInv /\ [Next]_vars => IInv'
  <1> SUFFICES ASSUME IInv, [Next]_vars PROVE IInv'
    OBVIOUS
  <1>1. HistoryInv' /\ Distinct'
    BY HistoryStep, DistinctStep DEF IInv
  <1>2. ASSUME reader' = reader, log' = log, buffers' = buffers PROVE Readings'
    <2>1. Readings
      BY DEF IInv
    <2> QED
      BY <1>2, <2>1 DEF Readings, ReaderOK, Placed, Exhausted, Evicted, IsRun
  <1>3. ASSUME NEW t \in Senders, NEW h \in Channels, Stamp(t, h) PROVE Readings'
    BY <1>2, <1>3 DEF Stamp
  <1>4. ASSUME UNCHANGED vars PROVE Readings'
    BY <1>2, <1>4 DEF vars
  <1>5. ASSUME NEW t \in Senders, Save(t) PROVE Readings'
    BY <1>5, SaveKeepsReaders
  <1>6. ASSUME NEW r \in Readers, Page(r) PROVE Readings'
    BY <1>6, RefusedStep, ReadPageStep, ReadMoreStep DEF Page
  <1>7. ASSUME NEW r \in Readers, NEW h \in Channels, Open(r, h) PROVE Readings'
    BY <1>7, OpenStep
  <1>8. Readings'
    BY <1>3, <1>4, <1>5, <1>6, <1>7 DEF Next, vars
  <1> QED
    BY <1>1, <1>8 DEF IInv

-----------------------------------------------------------------------------

\* The stores, the senders and the readers stay well typed, and no page is
\* longer than the client asked for or the server allows (ListMessages).
THEOREM TypeCorrect == Spec => []TypeOK
  <1>1. IInv => TypeOK
    <2> SUFFICES ASSUME IInv PROVE TypeOK
      OBVIOUS
    <2>1. ASSUME NEW r \in Readers
          PROVE  /\ reader[r].pc \in {"idle", "page", "more", "done", "failed"}
                 /\ reader[r].channel \in Channels \cup {None}
                 /\ reader[r].cursor \in Messages \cup {None}
                 /\ reader[r].page \in Seq(Messages)
                 /\ reader[r].pages \in Seq(Messages)
                 /\ reader[r].end \in Nat
      BY DEF IInv, Readings, ReaderRecord
    <2>2. ASSUME NEW r \in Readers
          PROVE  Len(reader[r].page) <= kServerMaxLimit /\ Len(reader[r].page) <= PageLimit
      <3>1. Len(reader[r].page) \in Nat /\ Len(reader[r].page) <= capped
        BY <2>1, LenProperties DEF IInv, Readings, ReaderOK
      <3> QED
        BY <3>1, CappedPositive, HistoryAssumption
    <2> QED
      BY <2>1, <2>2 DEF TypeOK, IInv, HistoryInv, StoreTypes
  <1> QED
    BY <1>1, InductiveInit, InductiveStep, PTL DEF Spec

\* However many messages are sent and evicted between two pages, and between
\* a page and its has_more flag, what a client has put together is one unbroken
\* run of the channel that ends where its first page ended (ListMessages,
\* useInfiniteQuery).
THEOREM PagesAreContiguousCorrect == Spec => []PagesAreContiguous
  <1>1. IInv => PagesAreContiguous
    <2> SUFFICES ASSUME IInv, NEW r \in Readers, reader[r].channel # None
                 PROVE  /\ Len(reader[r].pages) <= reader[r].end
                        /\ reader[r].pages = SubSeq(log[reader[r].channel],
                              reader[r].end - Len(reader[r].pages) + 1, reader[r].end)
      BY DEF PagesAreContiguous
    <2> DEFINE f == reader[r]
               l == log[f.channel]
               w == SubSeq(l, f.end - Len(f.pages) + 1, f.end)
    <2>1. ReaderOK(f) /\ f.channel \in Channels /\ Placed(f)
      BY DEF IInv, Readings, ReaderOK, ReaderRecord
    <2>2. /\ f.page \in Seq(Messages) /\ f.pages \in Seq(Messages) /\ f.end \in Nat
      BY <2>1 DEF ReaderOK, ReaderRecord
    <2>3. /\ l \in Seq(Messages) /\ Len(l) \in Nat
          /\ Len(f.page) \in Nat /\ Len(f.pages) \in Nat
      BY <2>1, <2>2, LenProperties, Retained DEF IInv
    <2>4. /\ Len(f.pages) + Len(f.page) <= f.end /\ f.end <= Len(l)
          /\ \A i \in 1..Len(f.pages) : f.pages[i] = l[f.end - Len(f.pages) + i]
      BY <2>1 DEF Placed, IsRun
    <2> HIDE DEF f, l
    <2>5. Len(f.pages) <= f.end
      <3> DEFINE a == Len(f.pages)
                 b == Len(f.page)
                 c == f.end
      <3>1. a \in Nat /\ b \in Nat /\ c \in Nat /\ a + b <= c
        BY <2>2, <2>3, <2>4
      <3> HIDE DEF a, b, c
      <3>2. a <= c
        BY <3>1
      <3> QED
        BY <3>2 DEF a, c
    <2> DEFINE e == f.end
               n == Len(f.pages)
    <2>6. e \in Nat /\ n \in Nat /\ n <= e /\ e <= Len(l)
      BY <2>2, <2>3, <2>4, <2>5
    <2> HIDE DEF e, n
    <2>7. \A i \in (e - n + 1)..e : l[i] \in Messages
      <3> SUFFICES ASSUME NEW i \in (e - n + 1)..e PROVE l[i] \in Messages
        OBVIOUS
      <3>1. i \in 1..Len(l)
        BY <2>3, <2>6
      <3> QED
        BY <2>3, <3>1, ElementOfSeq
    <2>8. LET s == SubSeq(l, e - n + 1, e)
          IN  /\ s \in Seq(Messages) /\ Len(s) = n
              /\ \A i \in 1..n : s[i] = l[e - n + i]
      <3>1. LET s == SubSeq(l, e - n + 1, e)
            IN  /\ s \in Seq(Messages)
                /\ Len(s) = IF e - n + 1 <= e THEN e - (e - n + 1) + 1 ELSE 0
                /\ \A i \in 1..(e - (e - n + 1) + 1) : s[i] = l[(e - n + 1) + i - 1]
        BY <2>6, <2>7, SubSeqProperties
      <3>2. e - (e - n + 1) + 1 = n /\ (e - n + 1 <= e \/ n = 0)
        BY <2>6
      <3>3. \A i \in 1..n : (e - n + 1) + i - 1 = e - n + i
        BY <2>6
      <3> QED
        BY <3>1, <3>2, <3>3
    <2>9. w \in Seq(Messages) /\ Len(w) = Len(f.pages) /\ \A i \in 1..Len(f.pages) : f.pages[i] = w[i]
      BY <2>4, <2>8 DEF e, n
    <2> HIDE DEF w
    <2>10. f.pages = w
      BY <2>2, <2>9, SeqEqual
    <2> QED
      BY <2>5, <2>10 DEF f, l, w
  <1> QED
    BY <1>1, InductiveInit, InductiveStep, PTL DEF Spec

\* When the client is told there is nothing more, it holds every message that
\* was there when it began and is still retained (ListMessages, has_more).
THEOREM PagingIsCompleteCorrect == Spec => []PagingIsComplete
  <1>1. IInv => PagingIsComplete
    <2> SUFFICES ASSUME IInv, NEW r \in Readers, reader[r].pc = "done",
                        NEW i \in 1..reader[r].end,
                        log[reader[r].channel][i] \in Ids(buffers[reader[r].channel])
                 PROVE  log[reader[r].channel][i] \in Ids(reader[r].pages)
      BY DEF PagingIsComplete
    <2> DEFINE f == reader[r]
               h == f.channel
               l == log[h]
               e == f.end
               n == Len(f.pages)
    <2>1. ReaderOK(f) /\ h \in Channels /\ Placed(f) /\ Exhausted(f)
      BY DEF IInv, Readings, ReaderOK
    <2>2. f.page \in Seq(Messages) /\ f.pages \in Seq(Messages) /\ e \in Nat
      BY <2>1 DEF ReaderOK, ReaderRecord
    <2>3. /\ l \in Seq(Messages) /\ Len(l) \in Nat /\ Evicted(h) \in Nat
          /\ Len(buffers[h]) \in Nat /\ DOMAIN buffers[h] = 1..Len(buffers[h])
          /\ Len(l) = Evicted(h) + Len(buffers[h])
          /\ \A k \in 1..Len(buffers[h]) : buffers[h][k] = l[Evicted(h) + k]
          /\ Len(f.page) \in Nat /\ n \in Nat /\ DOMAIN f.pages = 1..n
      <3>1. /\ l \in Seq(Messages) /\ Len(l) \in Nat /\ Evicted(h) \in Nat
            /\ buffers[h] \in Seq(Messages) /\ Len(buffers[h]) \in Nat
            /\ IsRun(buffers[h], l, Evicted(h))
        BY <2>1, Retained DEF IInv
      <3>2. Len(l) = Evicted(h) + Len(buffers[h])
        BY <3>1 DEF Evicted
      <3> QED
        BY <2>2, <3>1, <3>2, LenProperties DEF IsRun
    <2>4. /\ n + Len(f.page) <= e /\ e <= Len(l) /\ Evicted(h) >= e - n
          /\ \A k \in 1..n : f.pages[k] = l[e - n + k]
      BY <2>1 DEF Placed, IsRun, Exhausted
    <2>5. PICK k \in 1..Len(buffers[h]) : buffers[h][k] = l[i]
      BY <2>3 DEF Ids
    <2>6. \A a, b \in 1..Len(l) : l[a] = l[b] => a = b
      BY <2>1 DEF IInv, Distinct
    <2>7. i \in 1..e
      OBVIOUS
    <2> HIDE DEF f, h, l, e, n
    <2>8. Evicted(h) + k = i
      <3>1. Evicted(h) + k \in 1..Len(l) /\ l[Evicted(h) + k] = l[i]
        BY <2>3, <2>5
      <3>2. i \in 1..Len(l)
        BY <2>2, <2>3, <2>4, <2>7
      <3> QED
        BY <2>6, <3>1, <3>2
    <2>9. i - (e - n) \in 1..n /\ e - n + (i - (e - n)) = i
      BY <2>2, <2>3, <2>4, <2>5, <2>7, <2>8
    <2>10. f.pages[i - (e - n)] = l[i]
      BY <2>4, <2>9
    <2>11. l[i] \in Ids(f.pages)
      BY <2>3, <2>9, <2>10 DEF Ids
    <2> QED
      BY <2>11 DEF f, h, l
  <1> QED
    BY <1>1, InductiveInit, InductiveStep, PTL DEF Spec
=============================================================================
