--------------------------- MODULE ServerSinkProofs ---------------------------
(***************************************************************************)
(* Proofs about a ServerSink, for any number of items and streams and any  *)
(* capacity of a channel: what the client receives, and that the sink      *)
(* implements Mailbox.                                                     *)
(***************************************************************************)
EXTENDS ServerSink, SequenceTheorems, TLAPS

-----------------------------------------------------------------------------
(* Sequences by their positions and members *)

LEMMA Appended ==
    ASSUME NEW S, NEW s \in Seq(S), NEW m \in S
    PROVE  /\ Append(s, m) \in Seq(S) /\ Len(Append(s, m)) = Len(s) + 1
           /\ \A k \in 1..Len(s) : Append(s, m)[k] = s[k]
           /\ Append(s, m)[Len(s) + 1] = m
           /\ \A i : Contains(Append(s, m), i) <=> Contains(s, i) \/ i = m
<1>1. /\ Append(s, m) \in Seq(S) /\ Len(Append(s, m)) = Len(s) + 1 /\ Len(s) \in Nat
      /\ \A k \in 1..Len(s) : Append(s, m)[k] = s[k]
      /\ Append(s, m)[Len(s) + 1] = m
  BY AppendProperties, LenProperties
<1>2. ASSUME NEW i PROVE Contains(Append(s, m), i) <=> Contains(s, i) \/ i = m
  BY <1>1 DEF Contains
<1> QED BY <1>1, <1>2

LEMMA Joined ==
    ASSUME NEW S, NEW s \in Seq(S), NEW t \in Seq(S)
    PROVE  /\ s \o t \in Seq(S) /\ Len(s \o t) = Len(s) + Len(t)
           /\ \A k \in 1..Len(s) : (s \o t)[k] = s[k]
           /\ \A k \in 1..Len(t) : (s \o t)[Len(s) + k] = t[k]
           /\ \A k \in 1..(Len(s) + Len(t)) :
                 k \in 1..Len(s) \/ \E n \in 1..Len(t) : k = Len(s) + n
           /\ \A i : Contains(s \o t, i) <=> Contains(s, i) \/ Contains(t, i)
<1>1. /\ s \o t \in Seq(S) /\ Len(s \o t) = Len(s) + Len(t) /\ Len(s) \in Nat /\ Len(t) \in Nat
      /\ \A k \in 1..(Len(s) + Len(t)) :
            (s \o t)[k] = IF k <= Len(s) THEN s[k] ELSE t[k - Len(s)]
  BY ConcatProperties, LenProperties
<1>2. /\ \A k \in 1..Len(s) : (s \o t)[k] = s[k]
      /\ \A k \in 1..Len(t) : (s \o t)[Len(s) + k] = t[k]
  BY <1>1
<1>3. ASSUME NEW k \in 1..(Len(s) + Len(t))
      PROVE  k \in 1..Len(s) \/ \E n \in 1..Len(t) : k = Len(s) + n
  <2>1. CASE k <= Len(s)
    BY <1>1, <2>1
  <2>2. CASE k > Len(s)
    <3>1. k - Len(s) \in 1..Len(t) /\ k = Len(s) + (k - Len(s))
      BY <1>1, <2>2
    <3> QED BY <3>1
  <2> QED BY <1>1, <2>1, <2>2
<1>4. ASSUME NEW i PROVE Contains(s \o t, i) <=> Contains(s, i) \/ Contains(t, i)
  <2>1. ASSUME Contains(s \o t, i) PROVE Contains(s, i) \/ Contains(t, i)
    <3>1. PICK k \in 1..(Len(s) + Len(t)) : (s \o t)[k] = i
      BY <1>1, <2>1 DEF Contains
    <3> QED BY <1>2, <1>3, <3>1 DEF Contains
  <2>2. ASSUME Contains(s, i) \/ Contains(t, i) PROVE Contains(s \o t, i)
    <3>1. CASE Contains(s, i)
      BY <1>1, <1>2, <3>1 DEF Contains
    <3>2. CASE Contains(t, i)
      <4>1. PICK k \in 1..Len(t) : t[k] = i
        BY <3>2 DEF Contains
      <4>2. Len(s) + k \in 1..(Len(s) + Len(t)) /\ (s \o t)[Len(s) + k] = i
        BY <1>1, <1>2, <4>1
      <4> QED BY <1>1, <4>2 DEF Contains
    <3> QED BY <2>2, <3>1, <3>2
  <2> QED BY <2>1, <2>2
<1> QED BY <1>1, <1>2, <1>3, <1>4

LEMMA Headed ==
    ASSUME NEW S, NEW s \in Seq(S), s # <<>>
    PROVE  /\ Head(s) \in S /\ Head(s) = s[1] /\ Tail(s) \in Seq(S)
           /\ Len(s) \in Nat \ {0} /\ Len(Tail(s)) = Len(s) - 1
           /\ \A k \in 1..(Len(s) - 1) : Tail(s)[k] = s[k + 1]
           /\ \A i : Contains(s, i) <=> i = Head(s) \/ Contains(Tail(s), i)
<1>1. /\ Head(s) \in S /\ Tail(s) \in Seq(S)
      /\ Len(s) \in Nat \ {0} /\ Len(Tail(s)) = Len(s) - 1
      /\ \A k \in 1..(Len(s) - 1) : Tail(s)[k] = s[k + 1]
  BY HeadTailProperties, EmptySeq
<1>2. Head(s) = s[1]
  OBVIOUS
<1>3. ASSUME NEW i PROVE Contains(s, i) <=> i = Head(s) \/ Contains(Tail(s), i)
  <2>1. ASSUME NEW k \in 1..Len(s), s[k] = i PROVE i = Head(s) \/ Contains(Tail(s), i)
    <3>1. CASE k = 1
      BY <1>2, <2>1, <3>1
    <3>2. CASE k # 1
      <4>1. k - 1 \in 1..(Len(s) - 1) /\ Tail(s)[k - 1] = i
        BY <1>1, <2>1, <3>2
      <4> QED BY <1>1, <4>1 DEF Contains
    <3> QED BY <3>1, <3>2
  <2>2. ASSUME NEW k \in 1..(Len(s) - 1), Tail(s)[k] = i PROVE Contains(s, i)
    <3>1. k + 1 \in 1..Len(s) /\ s[k + 1] = i
      BY <1>1, <2>2
    <3> QED BY <3>1 DEF Contains
  <2>3. Contains(s, Head(s))
    BY <1>1, <1>2 DEF Contains
  <2> QED BY <1>1, <2>1, <2>2, <2>3 DEF Contains
<1> QED BY <1>1, <1>2, <1>3

(* The first n of a sequence, and the others *)
LEMMA Divided ==
    ASSUME NEW S, NEW s \in Seq(S), NEW n \in 0..Len(s)
    PROVE  /\ SubSeq(s, 1, n) \in Seq(S) /\ Len(SubSeq(s, 1, n)) = n
           /\ \A k \in 1..n : SubSeq(s, 1, n)[k] = s[k]
           /\ SubSeq(s, n + 1, Len(s)) \in Seq(S) /\ Len(SubSeq(s, n + 1, Len(s))) = Len(s) - n
           /\ \A k \in 1..(Len(s) - n) : SubSeq(s, n + 1, Len(s))[k] = s[n + k]
           /\ \A i : Contains(s, i) <=> \/ Contains(SubSeq(s, 1, n), i)
                                        \/ Contains(SubSeq(s, n + 1, Len(s)), i)
<1> DEFINE t == SubSeq(s, 1, n)
           u == SubSeq(s, n + 1, Len(s))
<1>1. Len(s) \in Nat /\ n \in Nat /\ n <= Len(s) /\ \A i \in 1..Len(s) : s[i] \in S
  BY LenProperties, ElementOfSeq
<1>2. t \in Seq(S) /\ Len(t) = n /\ \A k \in 1..n : t[k] = s[k]
  <2>1. \A i \in 1..n : s[i] \in S
    BY <1>1
  <2>2. /\ t \in Seq(S) /\ Len(t) = IF 1 <= n THEN n - 1 + 1 ELSE 0
        /\ \A i \in 1..(n - 1 + 1) : t[i] = s[1 + i - 1]
    BY <1>1, <2>1, SubSeqProperties
  <2> QED BY <1>1, <2>2
<1>3. u \in Seq(S) /\ Len(u) = Len(s) - n /\ \A k \in 1..(Len(s) - n) : u[k] = s[n + k]
  <2>1. \A i \in (n + 1)..Len(s) : s[i] \in S
    BY <1>1
  <2>2. /\ u \in Seq(S) /\ Len(u) = IF n + 1 <= Len(s) THEN Len(s) - (n + 1) + 1 ELSE 0
        /\ \A i \in 1..(Len(s) - (n + 1) + 1) : u[i] = s[(n + 1) + i - 1]
    BY <1>1, <2>1, SubSeqProperties
  <2>3. Len(u) = Len(s) - n
    BY <1>1, <2>2
  <2>4. ASSUME NEW k \in 1..(Len(s) - n) PROVE u[k] = s[n + k]
    <3>1. k \in 1..(Len(s) - (n + 1) + 1) /\ (n + 1) + k - 1 = n + k
      BY <1>1
    <3>2. u[k] = s[(n + 1) + k - 1]
      BY <2>2, <3>1
    <3> QED BY <3>1, <3>2
  <2> QED BY <2>2, <2>3, <2>4
<1> HIDE DEF t, u
<1>4. ASSUME NEW i PROVE Contains(s, i) <=> Contains(t, i) \/ Contains(u, i)
  <2>1. ASSUME NEW k \in 1..Len(s), s[k] = i PROVE Contains(t, i) \/ Contains(u, i)
    <3>1. CASE k <= n
      BY <1>1, <1>2, <2>1, <3>1 DEF Contains
    <3>2. CASE k > n
      <4>1. k - n \in 1..(Len(s) - n) /\ n + (k - n) = k
        BY <1>1, <3>2
      <4>2. u[k - n] = i
        BY <1>3, <2>1, <4>1
      <4> QED BY <1>3, <4>1, <4>2 DEF Contains
    <3> QED BY <1>1, <3>1, <3>2
  <2>2. ASSUME NEW k \in 1..n, t[k] = i PROVE Contains(s, i)
    BY <1>1, <1>2, <2>2 DEF Contains
  <2>3. ASSUME NEW k \in 1..(Len(s) - n), u[k] = i PROVE Contains(s, i)
    <3>1. n + k \in 1..Len(s) /\ s[n + k] = i
      BY <1>1, <1>3, <2>3
    <3> QED BY <3>1 DEF Contains
  <2> QED BY <1>2, <1>3, <2>1, <2>2, <2>3 DEF Contains
<1> QED BY <1>2, <1>3, <1>4 DEF t, u

-----------------------------------------------------------------------------
(* Sending to a channel *)

LEMMA Typing ==
    ASSUME SinkInv
    PROVE  /\ \A c \in Chans : /\ queue[c] \in Seq(Messages) /\ Len(queue[c]) \in Nat
                               /\ handover[c] \in Seq(Items) /\ Len(handover[c]) \in Nat
                               /\ inflight[c] \in Messages \cup {None}
           /\ received \in Seq(Items) /\ Len(received) \in Nat /\ Len(stream) \in Nat
           /\ pushed \in Nat /\ early \in Nat /\ early <= pushed /\ pushed <= MaxItems
           /\ refused \subseteq Items
           /\ Items \subseteq Nat \ {0} /\ Warning \notin Items /\ None \notin Items
           /\ 1..Len(stream) \subseteq Chans /\ MaxItems \in Nat
  BY SinkAssumption, LenProperties DEF SinkInv, TypeOK, Items, Chans

LEMMA Enqueued ==
    ASSUME SinkInv, NEW c \in Chans, NEW msgs \in Seq(Messages),
           NEW who \in {"handover", "clone"}, Send(c, msgs, who)
    PROVE  /\ queue' \in [Chans -> Seq(Messages)]
           /\ parked' \in [Chans -> Seq({"handover", "clone"})]
           /\ \A d \in Chans \ {c} : queue'[d] = queue[d]
           /\ Len(queue'[c]) = Len(queue[c]) + Len(msgs)
           /\ \A k \in 1..Len(queue[c]) : queue'[c][k] = queue[c][k]
           /\ \A k \in 1..Len(msgs) : queue'[c][Len(queue[c]) + k] = msgs[k]
           /\ \A k \in 1..(Len(queue[c]) + Len(msgs)) :
                 k \in 1..Len(queue[c]) \/ \E n \in 1..Len(msgs) : k = Len(queue[c]) + n
           /\ \A i : Contains(queue'[c], i) <=> Contains(queue[c], i) \/ Contains(msgs, i)
<1>1. /\ queue \in [Chans -> Seq(Messages)] /\ parked \in [Chans -> Seq({"handover", "clone"})]
      /\ queue[c] \in Seq(Messages) /\ parked[c] \in Seq({"handover", "clone"})
  BY DEF SinkInv, TypeOK
<1>2. queue' = [queue EXCEPT ![c] = queue[c] \o msgs]
  BY DEF Send
<1>3. queue[c] \o msgs \in Seq(Messages)
  BY <1>1, Joined
<1>4. /\ queue' \in [Chans -> Seq(Messages)] /\ queue'[c] = queue[c] \o msgs
      /\ \A d \in Chans \ {c} : queue'[d] = queue[d]
  BY <1>1, <1>2, <1>3
<1>5. parked' \in [Chans -> Seq({"handover", "clone"})]
  <2>1. Append(parked[c], who) \in Seq({"handover", "clone"})
    BY <1>1
  <2>2. parked' = parked \/ parked' = [parked EXCEPT ![c] = Append(parked[c], who)]
    BY DEF Send
  <2> QED BY <1>1, <2>1, <2>2
<1> QED BY <1>1, <1>4, <1>5, Joined

LEMMA DistinctQueue ==
    ASSUME SinkInv, NEW c \in Chans, NEW j \in 1..Len(queue[c]), NEW k \in 1..Len(queue[c]),
           queue[c][j] = queue[c][k]
    PROVE  j = k \/ queue[c][j] = Warning
  BY DEF SinkInv, InOnePlace

(* What InOnePlace says of an item under way *)
LEMMA OnePlace ==
    ASSUME SinkInv
    PROVE  \A d \in Chans, x \in Items : ~(inflight[d] = x /\ Contains(queue[d], x))
  BY DEF SinkInv, InOnePlace

(* What the invariant says of the handover of channel c *)
LEMMA HandedOver ==
    ASSUME SinkInv, NEW c \in Chans
    PROVE  /\ handover[c] # <<>> => c = 1 /\ stream # <<>>
           /\ Len(handover[c]) <= early
           /\ \A n \in 1..Len(handover[c]) : handover[c][n] = early - Len(handover[c]) + n
<1>1. HandingOver
  BY DEF SinkInv
<1> QED BY <1>1 DEF HandingOver

(* New messages at the end of an open channel are in one place. *)
LEMMA SendKeepsPlaces ==
    ASSUME SinkInv, NEW c \in Chans, NEW msgs \in Seq(Messages),
           NEW who \in {"handover", "clone"}, Send(c, msgs, who),
           UNCHANGED <<stream, inflight, received>>, c <= Len(stream), stream[c] = "open",
           \A j, k \in 1..Len(msgs) : msgs[j] = msgs[k] => j = k \/ msgs[j] = Warning,
           \A i \in Items : Contains(msgs, i) =>
              ~Contains(received, i) /\ \A d \in Chans : ~Transit(d, i)
    PROVE  /\ OnlyInOpen' /\ InOnePlace'
           /\ \A d \in Chans, i \in Items :
                 Transit(d, i)' <=> Transit(d, i) \/ (d = c /\ Contains(msgs, i))
<1> DEFINE q == queue[c]
<1>1. /\ \A d \in Chans \ {c} : queue'[d] = queue[d]
      /\ Len(queue'[c]) = Len(q) + Len(msgs)
      /\ \A k \in 1..Len(q) : queue'[c][k] = q[k]
      /\ \A k \in 1..Len(msgs) : queue'[c][Len(q) + k] = msgs[k]
      /\ \A k \in 1..(Len(q) + Len(msgs)) :
            k \in 1..Len(q) \/ \E n \in 1..Len(msgs) : k = Len(q) + n
      /\ \A i : Contains(queue'[c], i) <=> Contains(q, i) \/ Contains(msgs, i)
  BY Enqueued
<1>2. \A d \in Chans, i \in Items :
         Transit(d, i)' <=> Transit(d, i) \/ (d = c /\ Contains(msgs, i))
  BY <1>1 DEF Transit
<1>3. OnlyInOpen'
  BY <1>1 DEF OnlyInOpen, SinkInv
<1>4. ASSUME NEW j \in 1..Len(queue'[c]), NEW k \in 1..Len(queue'[c]),
             queue'[c][j] = queue'[c][k]
      PROVE  j = k \/ queue'[c][j] = Warning
  <2>1. Len(q) \in Nat /\ Len(msgs) \in Nat /\ \A n \in 1..Len(q) : q[n] \in Messages
    BY Typing, LenProperties, ElementOfSeq
  <2>2. CASE j \in 1..Len(q) /\ k \in 1..Len(q)
    <3>1. \A m, n \in 1..Len(q) : q[m] = q[n] => m = n \/ q[m] = Warning
      BY DEF SinkInv, InOnePlace
    <3> QED BY <1>1, <1>4, <2>2, <3>1
  <2>3. ASSUME NEW m \in 1..Len(q), NEW n \in 1..Len(msgs), q[m] = msgs[n]
        PROVE  q[m] = Warning
    <3>1. Contains(q, q[m]) /\ Contains(msgs, q[m])
      BY <2>3 DEF Contains
    <3> QED BY <2>1, <3>1 DEF Messages, Transit
  <2>4. ASSUME j \in 1..Len(q), NEW n \in 1..Len(msgs), k = Len(q) + n
        PROVE  queue'[c][j] = Warning
    BY <1>1, <1>4, <2>3, <2>4
  <2>5. ASSUME k \in 1..Len(q), NEW n \in 1..Len(msgs), j = Len(q) + n
        PROVE  queue'[c][j] = Warning
    BY <1>1, <1>4, <2>3, <2>5
  <2>6. CASE \E n, m \in 1..Len(msgs) : j = Len(q) + n /\ k = Len(q) + m
    <3>1. PICK n, m \in 1..Len(msgs) : j = Len(q) + n /\ k = Len(q) + m
      BY <2>6
    <3>2. msgs[n] = msgs[m] /\ queue'[c][j] = msgs[n]
      BY <1>1, <1>4, <3>1
    <3> QED BY <3>1, <3>2
  <2> QED BY <1>1, <2>2, <2>4, <2>5, <2>6
<1>5. \A d \in Chans : \A j, k \in 1..Len(queue'[d]) :
         queue'[d][j] = queue'[d][k] => j = k \/ queue'[d][j] = Warning
  <2>1. ASSUME NEW d \in Chans \ {c}, NEW j \in 1..Len(queue'[d]), NEW k \in 1..Len(queue'[d]),
               queue'[d][j] = queue'[d][k]
        PROVE  j = k \/ queue'[d][j] = Warning
    <3>1. queue'[d] = queue[d] /\ d \in Chans
      BY <1>1
    <3> QED BY <2>1, <3>1, DistinctQueue
  <2> QED BY <1>4, <2>1
<1>6. \A d \in Chans, i \in Items : ~(inflight'[d] = i /\ Contains(queue'[d], i))
  BY <1>1 DEF SinkInv, InOnePlace, Transit
<1>7. \A d, e \in Chans, i \in Items : Transit(d, i)' /\ Transit(e, i)' => d = e
  BY <1>2 DEF SinkInv, InOnePlace
<1>8. \A d \in Chans, i \in Items : ~(Transit(d, i)' /\ Contains(received', i))
  BY <1>2 DEF SinkInv, InOnePlace
<1>9. \A j, k \in 1..Len(received') : received'[j] = received'[k] => j = k
  BY DEF SinkInv, InOnePlace
<1>10. InOnePlace'
  BY <1>5, <1>6, <1>7, <1>8, <1>9 DEF InOnePlace
<1> QED BY <1>2, <1>3, <1>10

LEMMA OrderedQueue ==
    ASSUME SinkInv, NEW c \in Chans, NEW k \in 1..Len(queue[c]), NEW e \in 1..early,
           queue[c][k] = e, NEW i \in 1..(e - 1)
    PROVE  Contains(received, i) \/ inflight[c] = i \/ \E j \in 1..(k - 1) : queue[c][j] = i
  BY DEF SinkInv, EarlyInOrder

LEMMA OrderedInflight ==
    ASSUME SinkInv, NEW c \in Chans, NEW e \in 1..early, inflight[c] = e, NEW i \in 1..(e - 1)
    PROVE  Contains(received, i)
  BY DEF SinkInv, EarlyInOrder

LEMMA OrderFrame ==
    ASSUME HandoverInOrder, UNCHANGED <<early, received>>
    PROVE  HandoverInOrder'
  BY DEF HandoverInOrder

(* Early items at the end of the channel go on where it ended. *)
LEMMA SendKeepsOrder ==
    ASSUME SinkInv, NEW c \in Chans, NEW msgs \in Seq(Messages),
           NEW who \in {"handover", "clone"}, Send(c, msgs, who),
           UNCHANGED <<early, inflight, received>>,
           \A d \in Chans, i \in Items :
              Transit(d, i)' <=> Transit(d, i) \/ (d = c /\ Contains(msgs, i)),
           \A n \in 1..Len(msgs), e \in 1..early : msgs[n] = e =>
              /\ c = 1
              /\ \A i \in 1..(e - 1) :
                    Contains(received, i) \/ Transit(c, i) \/ \E m \in 1..(n - 1) : msgs[m] = i,
           \A d \in Chans : handover'[d] # <<>> /\ stream'[d] = "open" =>
              \A i \in 1..(early - Len(handover'[d])) : Contains(received, i) \/ Transit(d, i)'
    PROVE  EarlyInOrder' /\ HandoverInOrder'
<1> DEFINE q == queue[c]
<1>1. /\ \A d \in Chans \ {c} : queue'[d] = queue[d]
      /\ Len(queue'[c]) = Len(q) + Len(msgs)
      /\ \A k \in 1..Len(q) : queue'[c][k] = q[k]
      /\ \A k \in 1..Len(msgs) : queue'[c][Len(q) + k] = msgs[k]
      /\ \A k \in 1..(Len(q) + Len(msgs)) :
            k \in 1..Len(q) \/ \E n \in 1..Len(msgs) : k = Len(q) + n
  BY Enqueued
<1>2. Len(q) \in Nat /\ Len(msgs) \in Nat /\ 1..early \subseteq Items /\ early \in Nat
  BY Typing, LenProperties DEF Items
<1>3. ASSUME NEW d \in Chans, NEW i \in 1..early, Transit(d, i)' PROVE d = 1
  <2>1. CASE Transit(d, i)
    BY <2>1 DEF SinkInv, EarlyInOrder
  <2>2. CASE d = c /\ Contains(msgs, i)
    BY <2>2 DEF Contains
  <2> QED BY <1>2, <1>3, <2>1, <2>2
<1>4. ASSUME NEW k \in 1..Len(queue'[c]), NEW e \in 1..early, queue'[c][k] = e,
             NEW i \in 1..(e - 1)
      PROVE  Contains(received, i) \/ inflight[c] = i \/ \E j \in 1..(k - 1) : queue'[c][j] = i
  <2>1. CASE k \in 1..Len(q)
    <3>1. Contains(received, i) \/ inflight[c] = i \/ \E j \in 1..(k - 1) : q[j] = i
      <4>1. q[k] = e
        BY <1>1, <1>4, <2>1
      <4> QED BY <2>1, <4>1, OrderedQueue
    <3>2. \A j \in 1..(k - 1) : queue'[c][j] = q[j]
      BY <1>1, <1>2, <2>1
    <3> QED BY <3>1, <3>2
  <2>2. ASSUME NEW n \in 1..Len(msgs), k = Len(q) + n
        PROVE  Contains(received, i) \/ inflight[c] = i \/ \E j \in 1..(k - 1) : queue'[c][j] = i
    <3>1. queue'[c][k] = msgs[n]
      BY <1>1, <2>2
    <3>2. Contains(received, i) \/ Transit(c, i) \/ \E m \in 1..(n - 1) : msgs[m] = i
      BY <1>4, <3>1
    <3>3. CASE Contains(q, i)
      <4>1. PICK j \in 1..Len(q) : q[j] = i
        BY <3>3 DEF Contains
      <4>2. j \in 1..(k - 1) /\ queue'[c][j] = i
        BY <1>1, <1>2, <2>2, <4>1
      <4> QED BY <4>2
    <3>4. CASE \E m \in 1..(n - 1) : msgs[m] = i
      <4>1. PICK m \in 1..(n - 1) : msgs[m] = i
        BY <3>4
      <4>2. m \in 1..Len(msgs) /\ Len(q) + m \in 1..(k - 1)
        BY <1>2, <2>2
      <4>3. queue'[c][Len(q) + m] = i
        BY <1>1, <4>1, <4>2
      <4> QED BY <4>2, <4>3
    <3> QED BY <3>2, <3>3, <3>4 DEF Transit
  <2> QED BY <1>1, <2>1, <2>2
<1>5. ASSUME NEW d \in Chans, NEW k \in 1..Len(queue'[d]), NEW e \in 1..early,
             queue'[d][k] = e, NEW i \in 1..(e - 1)
      PROVE  Contains(received, i) \/ inflight[d] = i \/ \E j \in 1..(k - 1) : queue'[d][j] = i
  <2>1. CASE d = c
    BY <1>4, <1>5, <2>1
  <2>2. CASE d # c
    <3>1. queue'[d] = queue[d]
      BY <1>1, <2>2
    <3> QED BY <1>5, <3>1, OrderedQueue
  <2> QED BY <2>1, <2>2
<1>6. \A d \in Chans, e \in 1..early : inflight[d] = e => \A i \in 1..(e - 1) : Contains(received, i)
  BY DEF SinkInv, EarlyInOrder
<1>7. EarlyInOrder'
  BY <1>3, <1>5, <1>6 DEF EarlyInOrder
<1>8. HandoverInOrder'
  BY OrderFrame DEF SinkInv
<1> QED BY <1>7, <1>8

-----------------------------------------------------------------------------
(* Every step keeps the invariant *)

LEMMA InitialInv == Init => SinkInv
<1> SUFFICES ASSUME Init PROVE SinkInv
  OBVIOUS
<1>1. \A c \in Chans : \A i : ~Transit(c, i) \/ i = None
  BY DEF Init, Transit, Contains
<1>2. TypeOK
  BY SinkAssumption DEF Init, TypeOK, Messages
<1>3. Buffering /\ HandingOver /\ OnlyInOpen /\ HandoverInOrder
  BY SinkAssumption DEF Init, Buffering, HandingOver, OnlyInOpen, HandoverInOrder
<1>4. \A i \in Items : i # None /\ ~Contains(received, i) /\ \A c \in Chans : ~Transit(c, i)
  BY <1>1, SinkAssumption DEF Init, Items, Contains
<1>5. SentIsPushed /\ InOnePlace
  BY <1>4 DEF Init, SentIsPushed, InOnePlace
<1>6. EarlyInOrder
  BY SinkAssumption DEF Init, EarlyInOrder, Items
<1> QED BY <1>2, <1>3, <1>5, <1>6 DEF SinkInv

(* What concerns the channels alone *)
LEMMA ChannelFrame ==
    ASSUME SinkInv, UNCHANGED <<stream, queue, inflight, received, handover, early>>
    PROVE  HandingOver' /\ OnlyInOpen' /\ InOnePlace' /\ EarlyInOrder' /\ HandoverInOrder'
  BY DEF SinkInv, HandingOver, OnlyInOpen, InOnePlace, EarlyInOrder, HandoverInOrder, Transit, Contains

LEMMA EarlyFrame ==
    ASSUME SinkInv, UNCHANGED <<queue, inflight, received, early>>,
           \A d \in Chans : handover'[d] # <<>> /\ stream'[d] = "open" =>
              handover'[d] = handover[d] /\ stream[d] = "open"
    PROVE  EarlyInOrder'
<1> SUFFICES ASSUME NEW d \in Chans
             PROVE  /\ \A i \in 1..early : Transit(d, i)' => d = 1
                    /\ \A k \in 1..Len(queue[d]), e \in 1..early : queue[d][k] = e =>
                          \A i \in 1..(e - 1) : \/ Contains(received, i) \/ inflight[d] = i
                                               \/ \E j \in 1..(k - 1) : queue[d][j] = i
                    /\ \A e \in 1..early : inflight[d] = e =>
                          \A i \in 1..(e - 1) : Contains(received, i)
                    /\ handover'[d] # <<>> /\ stream'[d] = "open" =>
                          \A i \in 1..(early - Len(handover'[d])) :
                             Contains(received, i) \/ Transit(d, i)'
  BY DEF EarlyInOrder
<1>1. \A x : Transit(d, x)' <=> Transit(d, x)
  BY DEF Transit
<1>2. ASSUME handover'[d] # <<>>, stream'[d] = "open"
      PROVE  \A i \in 1..(early - Len(handover'[d])) : Contains(received, i) \/ Transit(d, i)
  <2>1. handover'[d] = handover[d] /\ stream[d] = "open"
    BY <1>2
  <2> QED BY <1>2, <2>1 DEF SinkInv, EarlyInOrder
<1>3. \A i \in 1..early : Transit(d, i) => d = 1
  BY DEF SinkInv, EarlyInOrder
<1>4. \A e \in 1..early : inflight[d] = e => \A i \in 1..(e - 1) : Contains(received, i)
  BY DEF SinkInv, EarlyInOrder
<1> QED BY <1>1, <1>2, <1>3, <1>4, OrderedQueue

(* A new item is nowhere yet. *)
LEMMA PushedIsNew ==
    ASSUME SinkInv, NEW i \in Items, i > pushed
    PROVE  ~Contains(received, i) /\ i \notin refused /\ \A d \in Chans : ~Transit(d, i)
  BY Typing DEF SinkInv, SentIsPushed

LEMMA PushKeeps ==
    ASSUME SinkInv, Push PROVE SinkInv'
<1> DEFINE i == pushed + 1
<1>1. /\ session = "live" /\ pushed < MaxItems /\ pushed' = i
      /\ UNCHANGED <<session, stream, handover, warning, inflight, early, received>>
  BY DEF Push
<1>2. i \in Items /\ pushed' \in 0..MaxItems /\ early \in 0..pushed'
  BY <1>1, Typing DEF Items
<1>3. CASE Current = 0
  <2>1. buffer' = Append(buffer, i) /\ UNCHANGED <<queue, parked, refused>>
    BY <1>3, Typing DEF Push
  <2>2. buffer \in Seq(Items) /\ stream = <<>> /\ Len(buffer) = pushed /\ pushed \in Nat
    BY <1>1, <1>3, Typing, EmptySeq DEF SinkInv, Buffering, TypeOK, Current
  <2>3. /\ buffer' \in Seq(Items) /\ Len(buffer') = i
        /\ \A n \in 1..pushed : buffer'[n] = buffer[n]
        /\ buffer'[i] = i
    BY <1>2, <2>1, <2>2, Appended
  <2>4. TypeOK'
    BY <1>1, <1>2, <2>1, <2>3 DEF SinkInv, TypeOK
  <2>5. Buffering'
    <3>1. ASSUME NEW n \in 1..i PROVE buffer'[n] = n
      BY <2>2, <2>3 DEF SinkInv, Buffering
    <3> QED BY <1>1, <2>1, <2>2, <2>3, <3>1 DEF SinkInv, Buffering
  <2>6. SentIsPushed'
    <3>1. \A d \in Chans, x \in Items : Transit(d, x)' <=> Transit(d, x)
      BY <1>1, <2>1 DEF Transit
    <3>2. \A x \in Items : x <= pushed => x <= pushed'
      BY <1>1, Typing
    <3> QED BY <1>1, <2>1, <3>1, <3>2, Typing DEF SinkInv, SentIsPushed
  <2> QED BY <1>1, <2>1, <2>4, <2>5, <2>6, ChannelFrame DEF SinkInv
<1>4. CASE Current # 0 /\ stream[Current] = "open"
  <2> DEFINE c == Current
  <2>1. c \in Chans /\ c <= Len(stream) /\ stream # <<>>
    <3>1. Len(stream) \in Nat /\ Len(stream) # 0 /\ Len(stream) \in 1..Len(stream)
      BY <1>4, Typing DEF Current
    <3> QED BY <3>1, Typing DEF Current
  <2>2. Send(c, <<i>>, "clone") /\ UNCHANGED <<buffer, refused>>
    BY <1>4 DEF Push
  <2>3. <<i>> \in Seq(Messages) /\ Len(<<i>>) = 1 /\ <<i>>[1] = i
    BY <1>2 DEF Messages
  <2>4. \A x : Contains(<<i>>, x) <=> x = i
    BY <2>3 DEF Contains
  <2> HIDE DEF c, i
  <2>5. ~Contains(received, i) /\ i \notin refused /\ \A d \in Chans : ~Transit(d, i)
    BY <1>1, <1>2, Typing, PushedIsNew DEF i
  <2>6. queue' \in [Chans -> Seq(Messages)] /\ parked' \in [Chans -> Seq({"handover", "clone"})]
    BY <2>1, <2>2, <2>3, Enqueued
  <2>7. /\ OnlyInOpen' /\ InOnePlace'
        /\ \A d \in Chans, x \in Items :
              Transit(d, x)' <=> Transit(d, x) \/ (d = c /\ Contains(<<i>>, x))
    BY <1>1, <1>4, <2>1, <2>2, <2>3, <2>4, <2>5, SendKeepsPlaces DEF c
  <2>8. EarlyInOrder' /\ HandoverInOrder'
    <3>1. \A n \in 1..Len(<<i>>), e \in 1..early : <<i>>[n] # e
      BY <2>3, Typing DEF i
    <3>2. \A d \in Chans : handover'[d] # <<>> /\ stream'[d] = "open" =>
             \A x \in 1..(early - Len(handover'[d])) : Contains(received, x) \/ Transit(d, x)'
      <4>1. ASSUME NEW d \in Chans, handover[d] # <<>>, stream[d] = "open",
                   NEW x \in 1..(early - Len(handover[d]))
            PROVE  x \in Items /\ (Contains(received, x) \/ Transit(d, x))
        BY <4>1, Typing DEF SinkInv, EarlyInOrder, Items
      <4> QED BY <1>1, <2>7, <4>1
    <3> QED BY <1>1, <2>1, <2>2, <2>3, <2>7, <3>1, <3>2, SendKeepsOrder
  <2>9. TypeOK'
    BY <1>1, <1>2, <2>2, <2>6 DEF SinkInv, TypeOK
  <2>10. Buffering' /\ HandingOver'
    BY <1>1, <2>1, <2>2, Typing DEF SinkInv, Buffering, HandingOver, i
  <2>11. SentIsPushed'
    <3>1. ASSUME NEW x \in Items, Contains(received', x) \/ \E d \in Chans : Transit(d, x)'
          PROVE  /\ x <= pushed' /\ x \notin refused'
                 /\ \A d \in Chans : early' < x \/ x <= early' - Len(handover'[d])
      <4>1. CASE x = i
        BY <1>1, <2>2, <2>5, <4>1, Typing DEF i
      <4>2. CASE x # i
        <5>1. Contains(received, x) \/ \E d \in Chans : Transit(d, x)
          BY <1>1, <2>4, <2>7, <3>1, <4>2
        <5>2. /\ x <= pushed /\ x \notin refused
              /\ \A d \in Chans : early < x \/ x <= early - Len(handover[d])
          BY <5>1 DEF SinkInv, SentIsPushed
        <5> QED BY <1>1, <2>2, <5>2, Typing DEF i
      <4> QED BY <4>1, <4>2
    <3>2. \A x \in refused' : early' < x /\ x <= pushed'
      BY <1>1, <2>2, Typing DEF SinkInv, SentIsPushed, i
    <3> QED BY <3>1, <3>2 DEF SentIsPushed
  <2> QED BY <2>7, <2>8, <2>9, <2>10, <2>11 DEF SinkInv
<1>5. CASE Current # 0 /\ stream[Current] = "closed"
  <2>1. refused' = refused \cup {i} /\ UNCHANGED <<queue, parked, buffer>> /\ stream # <<>>
    BY <1>5, EmptySeq DEF Push, Current
  <2>2. TypeOK'
    BY <1>1, <1>2, <2>1 DEF SinkInv, TypeOK
  <2>3. Buffering'
    BY <1>1, <2>1, Typing DEF SinkInv, Buffering
  <2>4. SentIsPushed'
    <3>1. \A x \in Items : Contains(received, x) \/ (\E d \in Chans : Transit(d, x)) => x # i
      BY <1>2, Typing, PushedIsNew
    <3>2. \A d \in Chans, x \in Items : Transit(d, x)' <=> Transit(d, x)
      BY <1>1, <2>1 DEF Transit
    <3>3. \A x \in Items : x <= pushed => x <= pushed'
      BY <1>1, Typing
    <3>4. \A x \in refused' : early' < x /\ x <= pushed'
      BY <1>1, <2>1, <3>3, Typing DEF SinkInv, SentIsPushed
    <3> QED BY <1>1, <2>1, <3>1, <3>2, <3>3, <3>4, Typing DEF SinkInv, SentIsPushed
  <2> QED BY <1>1, <2>1, <2>2, <2>3, <2>4, ChannelFrame DEF SinkInv
<1> QED BY <1>3, <1>4, <1>5 DEF Push

LEMMA OpenKeeps ==
    ASSUME SinkInv, OpenStream PROVE SinkInv'
<1>1. /\ session = "live" /\ Current < MaxStreams /\ stream' = Append(stream, "open")
      /\ UNCHANGED <<session, pushed, refused, queue, parked, inflight, received>>
  BY DEF OpenStream
<1>2. /\ stream' \in Seq({"open", "closed"}) /\ Len(stream') = Len(stream) + 1
      /\ \A k \in 1..Len(stream) : stream'[k] = stream[k]
      /\ Len(stream') <= MaxStreams /\ Len(stream') \in Nat \ {0}
  BY <1>1, Typing, SinkAssumption, Appended DEF SinkInv, TypeOK, Current
<1>3. stream' # <<>>
  BY <1>2
<1>4. \A d \in Chans : \A x : Transit(d, x)' <=> Transit(d, x)
  BY <1>1 DEF Transit
<1>5. OnlyInOpen' /\ InOnePlace'
  <2>1. OnlyInOpen'
    BY <1>1, <1>2, Typing DEF SinkInv, OnlyInOpen, Chans
  <2>2. InOnePlace'
    BY <1>1, <1>4 DEF SinkInv, InOnePlace
  <2> QED BY <2>1, <2>2
<1>6. CASE Current = 0
  <2>1. /\ handover' = [handover EXCEPT ![1] = buffer] /\ buffer' = <<>> /\ early' = pushed
        /\ UNCHANGED warning
    BY <1>6 DEF OpenStream
  <2>2. /\ stream = <<>> /\ 1 \in Chans /\ buffer \in Seq(Items) /\ Len(buffer) = pushed
        /\ early = 0 /\ refused = {} /\ received = <<>>
        /\ \A n \in 1..Len(buffer) : buffer[n] = n
    BY <1>1, <1>6, SinkAssumption, EmptySeq DEF SinkInv, TypeOK, Buffering, Current, Chans
  <2>3. \A d \in Chans : queue[d] = <<>> /\ inflight[d] = None /\ handover[d] = <<>>
    BY <2>2 DEF SinkInv, OnlyInOpen, HandingOver, Chans
  <2>4. /\ handover' \in [Chans -> Seq(Items)] /\ handover'[1] = buffer
        /\ \A d \in Chans \ {1} : handover'[d] = <<>>
    BY <2>1, <2>2, <2>3 DEF SinkInv, TypeOK
  <2>5. TypeOK'
    BY <1>1, <1>2, <2>1, <2>2, <2>4, Typing DEF SinkInv, TypeOK
  <2>6. Buffering' /\ HandingOver'
    <3>1. Buffering'
      BY <1>3, <2>1, Typing, <1>1 DEF Buffering
    <3>2. ASSUME NEW d \in Chans
          PROVE  /\ handover'[d] # <<>> => d = 1 /\ stream' # <<>>
                 /\ Len(handover'[d]) <= early'
                 /\ \A n \in 1..Len(handover'[d]) : handover'[d][n] = early' - Len(handover'[d]) + n
      BY <1>3, <2>1, <2>2, <2>4, Typing
    <3> QED BY <3>1, <3>2 DEF HandingOver
  <2>7. \A x \in Items : ~Contains(received, x) /\ \A d \in Chans : ~Transit(d, x)
    BY <2>2, <2>3, Typing DEF Contains, Transit
  <2>8. SentIsPushed'
    BY <1>1, <1>4, <2>2, <2>7 DEF SentIsPushed
  <2>9. EarlyInOrder'
    <3>1. 1..early' \subseteq Items
      BY <2>1, Typing DEF Items
    <3>2. \A d \in Chans : 1..Len(queue'[d]) = {} /\ \A e \in 1..early' : inflight'[d] # e
      <4>1. Len(<<>>) = 0 /\ 1..0 = {}
        OBVIOUS
      <4>2. \A d \in Chans : queue'[d] = <<>> /\ inflight'[d] = None
        BY <1>1, <2>3
      <4>3. \A e \in 1..early' : e # None
        BY <3>1, Typing
      <4> QED BY <4>1, <4>2, <4>3
    <3>3. \A d \in Chans : handover'[d] # <<>> => early' - Len(handover'[d]) = 0
      BY <2>1, <2>2, <2>4, Typing
    <3> QED BY <1>4, <2>7, <3>1, <3>2, <3>3 DEF EarlyInOrder
  <2>10. HandoverInOrder'
    BY <1>1, <2>2 DEF HandoverInOrder
  <2> QED BY <1>5, <2>5, <2>6, <2>8, <2>9, <2>10 DEF SinkInv
<1>7. CASE Current # 0
  <2>1. warning' = warning \cup {Current} /\ UNCHANGED <<handover, buffer, early>>
    BY <1>7 DEF OpenStream
  <2>2. stream # <<>> /\ Current \in Chans /\ 1 \in 1..Len(stream)
    <3>1. Len(stream) \in Nat /\ Len(stream) # 0 /\ Len(stream) \in 1..Len(stream)
      BY <1>7, Typing DEF Current
    <3> QED BY <3>1, Typing DEF Current
  <2>3. TypeOK'
    BY <1>1, <1>2, <2>1, <2>2 DEF SinkInv, TypeOK
  <2>4. Buffering' /\ HandingOver' /\ SentIsPushed' /\ HandoverInOrder'
    BY <1>1, <1>3, <1>4, <2>1, <2>2
       DEF SinkInv, Buffering, HandingOver, SentIsPushed, HandoverInOrder
  <2>5. EarlyInOrder'
    <3>1. \A d \in Chans : handover[d] # <<>> => stream'[d] = stream[d]
      BY <1>2, <2>2 DEF SinkInv, HandingOver
    <3> QED BY <1>1, <2>1, <3>1, EarlyFrame
  <2> QED BY <1>5, <2>3, <2>4, <2>5 DEF SinkInv
<1> QED BY <1>6, <1>7

(* How the handover goes on *)
LEMMA BatchSize ==
    ASSUME SinkInv, NEW c \in Chans, handover[c] # <<>>
    PROVE  Batch(c) \in 1..Len(handover[c])
<1>1. Len(handover[c]) \in Nat \ {0} /\ Len(queue[c]) \in Nat /\ Capacity \in Nat
  BY Typing, EmptySeq, SinkAssumption
<1> DEFINE room == IF Len(queue[c]) >= Capacity THEN 1 ELSE Capacity + 1 - Len(queue[c])
<1>2. room \in Nat \ {0}
  BY <1>1
<1>3. Batch(c) = IF room < Len(handover[c]) THEN room ELSE Len(handover[c])
  BY DEF Batch
<1> HIDE DEF room
<1> QED BY <1>1, <1>2, <1>3

LEMMA HandoverKeeps ==
    ASSUME SinkInv, NEW c \in 1..Len(stream), PollHandover(c) PROVE SinkInv'
<1> DEFINE h == handover[c]
           n == Batch(c)
           msgs == Chunk(c)
           rest == SubSeq(h, n + 1, Len(h))
           base == early - Len(h)
<1>1. /\ c \in Chans /\ h # <<>>
      /\ UNCHANGED <<session, pushed, refused, buffer, stream, warning, inflight, early, received>>
  BY Typing DEF PollHandover
<1>2. /\ h \in Seq(Items) /\ Len(h) \in Nat /\ n \in 1..Len(h) /\ c = 1 /\ base \in Nat
      /\ base + Len(h) = early /\ \A k \in 1..Len(h) : h[k] = base + k
  <2>1. h \in Seq(Items) /\ Len(h) \in Nat /\ n \in 1..Len(h)
    BY <1>1, Typing, BatchSize
  <2>2. c = 1 /\ Len(h) <= early /\ \A k \in 1..Len(h) : h[k] = early - Len(h) + k
    BY <1>1, HandedOver
  <2>3. early \in Nat
    BY Typing
  <2> HIDE DEF h, n
  <2>4. base \in Nat /\ base + Len(h) = early
    BY <2>1, <2>2, <2>3
  <2>5. ASSUME NEW k \in 1..Len(h) PROVE h[k] = base + k
    BY <2>2
  <2> QED BY <2>1, <2>2, <2>4, <2>5
<1>3. \A d \in Chans \ {c} : handover[d] = <<>>
  BY <1>1, <1>2 DEF SinkInv, HandingOver
<1>4. stream # <<>> /\ early \in Nat /\ stream[c] \in {"open", "closed"}
  BY <1>1, Typing DEF SinkInv, HandingOver, TypeOK
<1>5. CASE stream[c] = "open"
  <2>1. /\ Send(c, msgs, "handover")
        /\ handover' = [handover EXCEPT ![c] = rest]
    BY <1>5 DEF PollHandover
  <2>2. /\ msgs \in Seq(Items) /\ Len(msgs) = n /\ \A k \in 1..n : msgs[k] = base + k
        /\ rest \in Seq(Items) /\ Len(rest) = Len(h) - n
        /\ \A k \in 1..(Len(h) - n) : rest[k] = h[n + k]
    <3>1. n \in 0..Len(h) /\ msgs = SubSeq(h, 1, n) /\ rest = SubSeq(h, n + 1, Len(h))
      BY <1>2 DEF Chunk
    <3> HIDE DEF h, n, msgs, rest, base
    <3>2. /\ msgs \in Seq(Items) /\ Len(msgs) = n /\ \A k \in 1..n : msgs[k] = h[k]
          /\ rest \in Seq(Items) /\ Len(rest) = Len(h) - n
          /\ \A k \in 1..(Len(h) - n) : rest[k] = h[n + k]
      <4>1. h \in Seq(Items)
        BY <1>2
      <4> QED BY <3>1, <4>1, Divided
    <3>3. ASSUME NEW k \in 1..n PROVE msgs[k] = base + k
      <4>1. k \in 1..Len(h)
        BY <1>2
      <4> QED BY <1>2, <3>2, <4>1
    <3> QED BY <3>2, <3>3
  <2>3. /\ handover' \in [Chans -> Seq(Items)] /\ handover'[c] = rest
        /\ \A d \in Chans \ {c} : handover'[d] = <<>>
    BY <1>1, <1>3, <2>1, <2>2 DEF SinkInv, TypeOK
  <2>4. msgs \in Seq(Messages)
    BY <2>2, SeqMonotonic DEF Messages
  <2> HIDE DEF h, n, msgs, rest, base
  <2>5. \A x \in Nat : Contains(msgs, x) <=> base < x /\ x <= base + n
    <3>1. ASSUME NEW x \in Nat, Contains(msgs, x) PROVE base < x /\ x <= base + n
      BY <1>2, <2>2, <3>1 DEF Contains
    <3>2. ASSUME NEW x \in Nat, base < x, x <= base + n PROVE Contains(msgs, x)
      <4>1. x - base \in 1..n /\ base + (x - base) = x
        BY <1>2, <3>2
      <4> QED BY <2>2, <4>1 DEF Contains
    <3> QED BY <3>1, <3>2
  <2>6. ASSUME NEW x \in Items, Contains(msgs, x)
        PROVE  /\ ~Contains(received, x) /\ \A d \in Chans : ~Transit(d, x)
               /\ x <= early /\ x <= early - Len(rest) /\ x <= pushed /\ x \notin refused
    <3>1. x \in Nat /\ base < x /\ x <= base + n /\ ~(early < x \/ x <= early - Len(h))
      <4>1. x \in Nat
        BY Typing
      <4>2. base < x /\ x <= base + n
        BY <2>5, <2>6, <4>1
      <4>3. base = early - Len(h)
        BY DEF base
      <4>4. base \in Nat /\ early \in Nat /\ Len(h) \in Nat /\ n \in 1..Len(h) /\ base + Len(h) = early
        BY <1>2, <1>4
      <4>5. x <= early /\ ~(x <= base)
        BY <4>1, <4>2, <4>4
      <4>6. ~(early < x)
        BY <4>1, <4>4, <4>5
      <4> QED BY <4>1, <4>2, <4>3, <4>5, <4>6
    <3>2. ~(Contains(received, x) \/ \E d \in Chans : Transit(d, x))
      BY <1>1, <3>1 DEF SinkInv, SentIsPushed, h
    <3>3. x <= early /\ x <= early - Len(rest) /\ x <= pushed
      <4>1. /\ early \in Nat /\ pushed \in Nat /\ early <= pushed /\ base \in Nat /\ n \in Nat
            /\ Len(h) \in Nat /\ early = base + Len(h) /\ Len(rest) = Len(h) - n
        BY <1>2, <2>2, Typing
      <4> QED BY <3>1, <4>1
    <3> QED BY <3>2, <3>3, <3>1 DEF SinkInv, SentIsPushed
  <2>7. /\ OnlyInOpen' /\ InOnePlace'
        /\ \A d \in Chans, x \in Items :
              Transit(d, x)' <=> Transit(d, x) \/ (d = c /\ Contains(msgs, x))
    <3>1. \A j, k \in 1..Len(msgs) : msgs[j] = msgs[k] => j = k
      BY <1>2, <2>2
    <3> QED BY <1>1, <1>5, <2>1, <2>4, <2>6, <3>1, SendKeepsPlaces
  <2>8. ASSUME NEW x \in 1..base PROVE x \in Items /\ (Contains(received, x) \/ Transit(c, x))
    <3>1. x \in 1..(early - Len(handover[c]))
      BY DEF base, h
    <3>2. Contains(received, x) \/ Transit(c, x)
      BY <1>1, <1>5, <3>1 DEF SinkInv, EarlyInOrder, h
    <3>3. x \in Items
      BY <1>2, <1>4, Typing DEF Items
    <3> QED BY <3>2, <3>3
  <2>9. EarlyInOrder' /\ HandoverInOrder'
    <3>1. ASSUME NEW m \in 1..Len(msgs), NEW e \in 1..early, msgs[m] = e
          PROVE  /\ c = 1
                 /\ \A x \in 1..(e - 1) :
                       Contains(received, x) \/ Transit(c, x) \/ \E j \in 1..(m - 1) : msgs[j] = x
      <4>1. e = base + m
        BY <2>2, <3>1
      <4>2. ASSUME NEW x \in 1..(e - 1), x > base PROVE \E j \in 1..(m - 1) : msgs[j] = x
        <5>1. x - base \in 1..(m - 1) /\ x - base \in 1..n /\ base + (x - base) = x
          BY <1>2, <2>2, <4>1, <4>2
        <5> QED BY <2>2, <5>1
      <4>3. \A x \in 1..(e - 1) : x \in 1..base \/ x > base
        BY <1>2
      <4> QED BY <1>2, <2>8, <4>2, <4>3
    <3>2. ASSUME NEW d \in Chans, handover'[d] # <<>>,
                 NEW x \in 1..(early - Len(handover'[d]))
          PROVE  Contains(received, x) \/ Transit(d, x)'
      <4>1. d = c /\ x \in Nat \ {0} /\ x <= base + n /\ x \in Items
        <5>1. d = c /\ handover'[d] = rest
          BY <2>3, <3>2
        <5>2. early - Len(rest) = base + n
          <6>1. /\ base \in Nat /\ Len(h) \in Nat /\ n \in Nat
                /\ early = base + Len(h) /\ Len(rest) = Len(h) - n
            BY <1>2, <2>2
          <6> QED BY <6>1
        <5>3. x \in 1..(base + n) /\ base + n <= early
          BY <1>2, <1>4, <5>1, <5>2
        <5>4. base \in Nat /\ n \in Nat /\ early <= MaxItems /\ early \in Nat /\ MaxItems \in Nat
          BY <1>2, Typing
        <5>5. x \in Nat \ {0} /\ x <= base + n /\ x \in 1..MaxItems
          BY <5>3, <5>4
        <5> QED BY <5>1, <5>5 DEF Items
      <4>2. x \in 1..base \/ Contains(msgs, x)
        BY <1>2, <2>5, <4>1
      <4> QED BY <2>7, <2>8, <4>1, <4>2
    <3> QED BY <1>1, <2>1, <2>4, <2>7, <3>1, <3>2, SendKeepsOrder
  <2>10. TypeOK'
    <3>1. queue' \in [Chans -> Seq(Messages)] /\ parked' \in [Chans -> Seq({"handover", "clone"})]
      BY <1>1, <2>1, <2>4, Enqueued
    <3> QED BY <1>1, <2>3, <3>1 DEF SinkInv, TypeOK
  <2>11. Buffering'
    BY <1>1 DEF SinkInv, Buffering
  <2>12. HandingOver'
    <3>1. /\ Len(rest) <= early
          /\ \A k \in 1..Len(rest) : rest[k] = early - Len(rest) + k
      <4>1. ASSUME NEW k \in 1..Len(rest) PROVE rest[k] = early - Len(rest) + k
        <5>1. k \in 1..(Len(h) - n) /\ n + k \in 1..Len(h)
          BY <1>2, <2>2
        <5>2. rest[k] = base + (n + k)
          BY <1>2, <2>2, <5>1
        <5> QED BY <1>2, <2>2, <5>1, <5>2
      <4> QED BY <1>2, <2>2, <4>1
    <3>2. Len(<<>>) = 0 /\ 1..0 = {}
      OBVIOUS
    <3>3. ASSUME NEW d \in Chans
          PROVE  /\ handover'[d] # <<>> => d = 1 /\ stream' # <<>>
                 /\ Len(handover'[d]) <= early
                 /\ \A k \in 1..Len(handover'[d]) : handover'[d][k] = early - Len(handover'[d]) + k
      <4>1. CASE d = c
        BY <1>1, <1>2, <1>4, <2>3, <3>1, <4>1
      <4>2. CASE d # c
        BY <1>4, <2>3, <3>2, <4>2
      <4> QED BY <4>1, <4>2
    <3> QED BY <1>1, <3>3 DEF HandingOver
  <2>13. SentIsPushed'
    <3>1. ASSUME NEW x \in Items, Contains(received', x) \/ \E d \in Chans : Transit(d, x)'
          PROVE  /\ x <= pushed' /\ x \notin refused'
                 /\ early' < x \/ x <= early' - Len(rest)
      <4>1. CASE Contains(msgs, x)
        BY <1>1, <2>6, <4>1
      <4>2. CASE ~Contains(msgs, x)
        <5>1. Contains(received, x) \/ \E d \in Chans : Transit(d, x)
          BY <1>1, <2>7, <3>1, <4>2
        <5>2. x <= pushed /\ x \notin refused /\ (early < x \/ x <= early - Len(h))
          BY <1>1, <5>1 DEF SinkInv, SentIsPushed, h
        <5>3. Len(rest) \in Nat /\ Len(rest) <= Len(h) /\ x \in Nat
          BY <1>2, <2>2, Typing
        <5> QED BY <1>1, <1>2, <1>4, <5>2, <5>3
      <4> QED BY <4>1, <4>2
    <3>2. \A x \in Items : early' < x \/ x <= early' - Len(<<>>)
      BY <1>1, <1>4, Typing
    <3>3. \A x \in refused' : early' < x /\ x <= pushed'
      BY <1>1 DEF SinkInv, SentIsPushed
    <3> QED BY <2>3, <3>1, <3>2, <3>3 DEF SentIsPushed
  <2> QED BY <2>7, <2>9, <2>10, <2>11, <2>12, <2>13 DEF SinkInv
<1>6. CASE stream[c] = "closed"
  <2>1. handover' = [handover EXCEPT ![c] = <<>>] /\ UNCHANGED <<queue, parked>>
    BY <1>6 DEF PollHandover
  <2>2. handover' \in [Chans -> Seq(Items)] /\ \A d \in Chans : handover'[d] = <<>>
    BY <1>1, <1>3, <2>1 DEF SinkInv, TypeOK
  <2>3. TypeOK'
    BY <1>1, <2>1, <2>2 DEF SinkInv, TypeOK
  <2>4. \A d \in Chans : \A x : Transit(d, x)' <=> Transit(d, x)
    BY <1>1, <2>1 DEF Transit
  <2>5. Buffering' /\ OnlyInOpen' /\ InOnePlace' /\ HandoverInOrder'
    BY <1>1, <2>1, <2>4 DEF SinkInv, Buffering, OnlyInOpen, InOnePlace, HandoverInOrder
  <2>6. HandingOver' /\ EarlyInOrder'
    <3>1. HandingOver'
      BY <1>1, <1>4, <2>2 DEF HandingOver
    <3> QED BY <1>1, <2>1, <2>2, <3>1, EarlyFrame
  <2>7. SentIsPushed'
    <3>1. \A d \in Chans, x \in Items : early' < x \/ x <= early' - Len(handover'[d])
      BY <1>1, <1>4, <2>2, Typing
    <3> QED BY <1>1, <2>4, <3>1 DEF SinkInv, SentIsPushed
  <2> QED BY <2>3, <2>5, <2>6, <2>7 DEF SinkInv
<1> QED BY <1>4, <1>5, <1>6

(* The warning is no item. *)
LEMMA WarningKeeps ==
    ASSUME SinkInv, NEW c \in 1..Len(stream), PollWarning(c) PROVE SinkInv'
<1>1. /\ c \in Chans /\ warning' = warning \ {c}
      /\ UNCHANGED <<session, pushed, refused, buffer, stream, handover, inflight, early, received>>
  BY Typing DEF PollWarning
<1>2. CASE stream[c] = "open"
  <2>1. Send(c, <<Warning>>, "clone")
    BY <1>2 DEF PollWarning
  <2>2. <<Warning>> \in Seq(Messages) /\ Len(<<Warning>>) = 1 /\ <<Warning>>[1] = Warning
    BY DEF Messages
  <2>3. \A x \in Items : ~Contains(<<Warning>>, x)
    BY <2>2, Typing DEF Contains
  <2>4. /\ OnlyInOpen' /\ InOnePlace'
        /\ \A d \in Chans, x \in Items :
              Transit(d, x)' <=> Transit(d, x) \/ (d = c /\ Contains(<<Warning>>, x))
    <3> DEFINE msgs == <<Warning>>
    <3>1. \A j, k \in 1..Len(msgs) : msgs[j] = msgs[k] => j = k \/ msgs[j] = Warning
      BY <2>2
    <3>2. \A i \in Items : Contains(msgs, i) =>
             ~Contains(received, i) /\ \A d \in Chans : ~Transit(d, i)
      BY <2>3
    <3>3. msgs \in Seq(Messages) /\ Send(c, msgs, "clone") /\ c <= Len(stream)
      BY <2>1, <2>2
    <3> HIDE DEF msgs
    <3>4. /\ OnlyInOpen' /\ InOnePlace'
          /\ \A d \in Chans, x \in Items :
                Transit(d, x)' <=> Transit(d, x) \/ (d = c /\ Contains(msgs, x))
      BY <1>1, <1>2, <3>1, <3>2, <3>3, SendKeepsPlaces
    <3> QED BY <3>4 DEF msgs
  <2>5. \A d \in Chans, x \in Items : Transit(d, x)' <=> Transit(d, x)
    BY <2>3, <2>4
  <2>6. EarlyInOrder' /\ HandoverInOrder'
    <3>1. 1..early \subseteq Items
      BY Typing DEF Items
    <3>2. \A n \in 1..Len(<<Warning>>), e \in 1..early : <<Warning>>[n] # e
      BY <2>2, <3>1, Typing
    <3>3. ASSUME NEW d \in Chans, handover[d] # <<>>, stream[d] = "open",
                 NEW x \in 1..(early - Len(handover[d]))
          PROVE  Contains(received, x) \/ Transit(d, x)'
      <4>1. x \in Items
        BY <3>3, Typing DEF Items
      <4>2. Contains(received, x) \/ Transit(d, x)
        BY <3>3 DEF SinkInv, EarlyInOrder
      <4> QED BY <2>5, <4>1, <4>2
    <3> QED BY <1>1, <2>1, <2>2, <2>4, <3>2, <3>3, SendKeepsOrder
  <2>7. TypeOK'
    <3>1. queue' \in [Chans -> Seq(Messages)] /\ parked' \in [Chans -> Seq({"handover", "clone"})]
      BY <1>1, <2>1, <2>2, Enqueued
    <3> QED BY <1>1, <3>1 DEF SinkInv, TypeOK
  <2>8. Buffering' /\ HandingOver' /\ SentIsPushed'
    BY <1>1, <2>5 DEF SinkInv, Buffering, HandingOver, SentIsPushed
  <2> QED BY <2>4, <2>6, <2>7, <2>8 DEF SinkInv
<1>3. CASE stream[c] # "open"
  <2>1. UNCHANGED <<queue, parked>>
    BY <1>3 DEF PollWarning
  <2>2. TypeOK'
    BY <1>1, <2>1 DEF SinkInv, TypeOK
  <2>3. Buffering' /\ SentIsPushed'
    BY <1>1, <2>1 DEF SinkInv, Buffering, SentIsPushed, Transit
  <2> QED BY <1>1, <2>1, <2>2, <2>3, ChannelFrame DEF SinkInv
<1> QED BY <1>2, <1>3

(* The head of the queue goes to the client, no other item may be it. *)
LEMMA TakeKeeps ==
    ASSUME SinkInv, NEW c \in 1..Len(stream), Take(c) PROVE SinkInv'
<1> DEFINE q == queue[c]
<1>1. /\ c \in Chans /\ stream[c] = "open" /\ inflight[c] = None /\ q # <<>>
      /\ inflight' = [inflight EXCEPT ![c] = Head(q)]
      /\ queue' = [queue EXCEPT ![c] = Tail(q)]
      /\ UNCHANGED <<session, pushed, refused, buffer, stream, handover, warning, early, received>>
  BY Typing DEF Take
<1>2. /\ Head(q) \in Messages /\ Head(q) = q[1] /\ Tail(q) \in Seq(Messages)
      /\ Len(q) \in Nat \ {0} /\ Len(Tail(q)) = Len(q) - 1
      /\ \A k \in 1..(Len(q) - 1) : Tail(q)[k] = q[k + 1]
      /\ \A x : Contains(q, x) <=> x = Head(q) \/ Contains(Tail(q), x)
  BY <1>1, Typing, Headed
<1>3. /\ queue' \in [Chans -> Seq(Messages)] /\ queue'[c] = Tail(q)
      /\ inflight' \in [Chans -> Messages \cup {None}] /\ inflight'[c] = Head(q)
      /\ \A d \in Chans \ {c} : queue'[d] = queue[d] /\ inflight'[d] = inflight[d]
  BY <1>1, <1>2 DEF SinkInv, TypeOK
<1>4. parked' \in [Chans -> Seq({"handover", "clone"})]
  <2>1. parked \in [Chans -> Seq({"handover", "clone"})] /\ parked[c] \in Seq({"handover", "clone"})
    BY <1>1 DEF SinkInv, TypeOK
  <2>2. parked' = parked \/ (parked[c] # <<>> /\ parked' = [parked EXCEPT ![c] = Tail(parked[c])])
    BY DEF Take, Unpark
  <2>3. parked[c] # <<>> => Tail(parked[c]) \in Seq({"handover", "clone"})
    BY <2>1, Headed
  <2> QED BY <2>1, <2>2, <2>3
<1>5. TypeOK'
  BY <1>1, <1>3, <1>4 DEF SinkInv, TypeOK
<1> HIDE DEF q
<1>6. \A d \in Chans, x \in Items : Transit(d, x)' <=> Transit(d, x)
  <2>1. \A x \in Items : Transit(c, x)' <=> Transit(c, x)
    BY <1>1, <1>2, <1>3, Typing DEF Transit, q
  <2> QED BY <1>3, <2>1 DEF Transit
<1>7. Buffering' /\ HandingOver' /\ SentIsPushed' /\ HandoverInOrder'
  BY <1>1, <1>6, OrderFrame DEF SinkInv, Buffering, HandingOver, SentIsPushed
<1>8. OnlyInOpen'
  BY <1>1, <1>3 DEF SinkInv, OnlyInOpen, q
<1>9. InOnePlace'
  <2>1. ASSUME NEW j \in 1..Len(Tail(q)), NEW k \in 1..Len(Tail(q)), Tail(q)[j] = Tail(q)[k]
        PROVE  j = k \/ Tail(q)[j] = Warning
    <3>1. j + 1 \in 1..Len(q) /\ k + 1 \in 1..Len(q) /\ q[j + 1] = q[k + 1] /\ Tail(q)[j] = q[j + 1]
      BY <1>2, <2>1
    <3>2. j + 1 = k + 1 \/ q[j + 1] = Warning
      BY <1>1, <3>1 DEF SinkInv, InOnePlace, q
    <3> QED BY <1>2, <3>1, <3>2
  <2>2. ASSUME NEW d \in Chans, NEW j \in 1..Len(queue'[d]), NEW k \in 1..Len(queue'[d]),
               queue'[d][j] = queue'[d][k]
        PROVE  j = k \/ queue'[d][j] = Warning
    <3>1. CASE d = c
      BY <1>3, <2>1, <2>2, <3>1
    <3>2. CASE d # c
      BY <1>3, <2>2, <3>2, DistinctQueue
    <3> QED BY <3>1, <3>2
  <2>3. ASSUME NEW x \in Items, Head(q) = x, Contains(Tail(q), x) PROVE FALSE
    <3>1. PICK k \in 1..Len(Tail(q)) : Tail(q)[k] = x
      BY <2>3 DEF Contains
    <3>2. k + 1 \in 1..Len(q) /\ 1 \in 1..Len(q) /\ q[k + 1] = q[1] /\ q[1] # Warning /\ k + 1 # 1
      BY <1>2, <2>3, <3>1, Typing
    <3> QED BY <1>1, <3>2 DEF SinkInv, InOnePlace, q
  <2>4. \A d \in Chans, x \in Items : ~(inflight'[d] = x /\ Contains(queue'[d], x))
    <3>1. ASSUME NEW d \in Chans \ {c}, NEW x \in Items, inflight'[d] = x, Contains(queue'[d], x)
          PROVE  FALSE
      BY <1>3, <3>1, OnePlace
    <3>2. ASSUME NEW x \in Items, inflight'[c] = x, Contains(queue'[c], x) PROVE FALSE
      BY <1>3, <2>3, <3>2
    <3> QED BY <3>1, <3>2
  <2>5. /\ \A d, e \in Chans, x \in Items : Transit(d, x)' /\ Transit(e, x)' => d = e
        /\ \A d \in Chans, x \in Items : ~(Transit(d, x)' /\ Contains(received', x))
        /\ \A j, k \in 1..Len(received') : received'[j] = received'[k] => j = k
    BY <1>1, <1>6 DEF SinkInv, InOnePlace
  <2> QED BY <2>2, <2>4, <2>5 DEF InOnePlace
<1>10. EarlyInOrder'
  <2>1. 1..early \subseteq Items /\ \A d \in Chans : 1..(early - Len(handover[d])) \subseteq Items
    BY Typing DEF Items
  <2>2. ASSUME NEW k \in 1..Len(Tail(q)), NEW e \in 1..early, Tail(q)[k] = e, NEW i \in 1..(e - 1)
        PROVE  Contains(received, i) \/ Head(q) = i \/ \E j \in 1..(k - 1) : Tail(q)[j] = i
    <3>1. k + 1 \in 1..Len(q) /\ q[k + 1] = e
      BY <1>2, <2>2
    <3>2. i \in Items /\ (Contains(received, i) \/ \E j \in 1..((k + 1) - 1) : q[j] = i)
      <4>1. i \in Items /\ i # None
        <5>1. i \in 1..early
          BY Typing
        <5> QED BY <2>1, <5>1, Typing
      <4>2. Contains(received, i) \/ inflight[c] = i \/ \E j \in 1..((k + 1) - 1) : q[j] = i
        BY <1>1, <3>1, OrderedQueue DEF q
      <4> QED BY <1>1, <4>1, <4>2
    <3>3. ASSUME NEW j \in 1..((k + 1) - 1), q[j] = i, j # 1
          PROVE  \E m \in 1..(k - 1) : Tail(q)[m] = i
      <4>1. j - 1 \in 1..(k - 1) /\ j - 1 \in 1..(Len(q) - 1) /\ (j - 1) + 1 = j
        BY <1>2, <3>1, <3>3
      <4>2. Tail(q)[j - 1] = i
        BY <1>2, <3>3, <4>1
      <4> QED BY <4>1, <4>2
    <3> QED BY <1>2, <3>2, <3>3
  <2>3. ASSUME NEW e \in 1..early, Head(q) = e, NEW i \in 1..(e - 1) PROVE Contains(received, i)
    <3>1. 1 \in 1..Len(q) /\ q[1] = e
      BY <1>2, <2>3
    <3>2. Contains(received, i) \/ inflight[c] = i \/ \E j \in 1..(1 - 1) : q[j] = i
      BY <1>1, <3>1, OrderedQueue DEF q
    <3>3. i \in 1..early /\ 1..(1 - 1) = {}
      BY Typing
    <3>4. i # None
      BY <2>1, <3>3, Typing
    <3> QED BY <1>1, <3>2, <3>3, <3>4
  <2>4. ASSUME NEW d \in Chans
        PROVE  /\ \A i \in 1..early : Transit(d, i) => d = 1
               /\ handover[d] # <<>> /\ stream[d] = "open" =>
                     \A i \in 1..(early - Len(handover[d])) : Contains(received, i) \/ Transit(d, i)
    BY DEF SinkInv, EarlyInOrder
  <2>5. ASSUME NEW d \in Chans
        PROVE  /\ \A i \in 1..early : Transit(d, i)' => d = 1
               /\ handover[d] # <<>> /\ stream[d] = "open" =>
                     \A i \in 1..(early - Len(handover[d])) : Contains(received, i) \/ Transit(d, i)'
    BY <1>6, <2>1, <2>4
  <2>6. ASSUME NEW d \in Chans, NEW k \in 1..Len(queue'[d]), NEW e \in 1..early,
               queue'[d][k] = e, NEW i \in 1..(e - 1)
        PROVE  \/ Contains(received, i) \/ inflight'[d] = i
               \/ \E j \in 1..(k - 1) : queue'[d][j] = i
    <3>1. CASE d = c
      <4>1. queue'[d] = Tail(q) /\ inflight'[d] = Head(q)
        BY <1>3, <3>1
      <4>2. k \in 1..Len(Tail(q)) /\ Tail(q)[k] = e
        BY <2>6, <4>1
      <4>3. Contains(received, i) \/ Head(q) = i \/ \E j \in 1..(k - 1) : Tail(q)[j] = i
        BY <2>2, <4>2
      <4> QED BY <4>1, <4>3
    <3>2. CASE d # c
      <4>1. queue'[d] = queue[d] /\ inflight'[d] = inflight[d]
        BY <1>3, <3>2
      <4> QED BY <2>6, <4>1, OrderedQueue
    <3> QED BY <3>1, <3>2
  <2>7. ASSUME NEW d \in Chans, NEW e \in 1..early, inflight'[d] = e, NEW i \in 1..(e - 1)
        PROVE  Contains(received, i)
    <3>1. CASE d = c
      BY <1>3, <2>3, <2>7, <3>1
    <3>2. CASE d # c
      <4>1. inflight[d] = e
        BY <1>3, <2>7, <3>2
      <4> QED BY <4>1, OrderedInflight
    <3> QED BY <3>1, <3>2
  <2>8. stream' = stream /\ handover' = handover /\ early' = early /\ received' = received
    BY <1>1
  <2> SUFFICES ASSUME NEW d \in Chans
               PROVE  /\ \A i \in 1..early : Transit(d, i)' => d = 1
                      /\ \A k \in 1..Len(queue'[d]), e \in 1..early : queue'[d][k] = e =>
                            \A i \in 1..(e - 1) : \/ Contains(received, i) \/ inflight'[d] = i
                                                  \/ \E j \in 1..(k - 1) : queue'[d][j] = i
                      /\ \A e \in 1..early : inflight'[d] = e =>
                            \A i \in 1..(e - 1) : Contains(received, i)
                      /\ handover[d] # <<>> /\ stream[d] = "open" =>
                            \A i \in 1..(early - Len(handover[d])) :
                               Contains(received, i) \/ Transit(d, i)'
    BY <2>8 DEF EarlyInOrder
  <2> QED BY <2>5, <2>6, <2>7
<1> QED BY <1>5, <1>7, <1>8, <1>9, <1>10 DEF SinkInv

(* The client's answer moves the item from the channel to those received. *)
LEMMA AcknowledgeKeeps ==
    ASSUME SinkInv, NEW c \in 1..Len(stream), Acknowledge(c) PROVE SinkInv'
<1> DEFINE m == inflight[c]
<1>1. /\ c \in Chans /\ m # None /\ inflight' = [inflight EXCEPT ![c] = None]
      /\ received' = IF m = Warning THEN received ELSE Append(received, m)
      /\ UNCHANGED <<session, pushed, refused, buffer, stream, queue, parked, handover, warning, early>>
  BY Typing DEF Acknowledge, Deliver, Answered
<1>2. /\ inflight' \in [Chans -> Messages \cup {None}] /\ inflight'[c] = None
      /\ \A d \in Chans \ {c} : inflight'[d] = inflight[d]
  BY <1>1 DEF SinkInv, TypeOK
<1> HIDE DEF m
<1>3. OnlyInOpen'
  BY <1>1, <1>2 DEF SinkInv, OnlyInOpen
<1>4. HandingOver'
  BY <1>1 DEF SinkInv, HandingOver
<1>5. 1..early \subseteq Items /\ early \in Nat /\ \A d \in Chans : 1..(early - Len(handover[d])) \subseteq Items
  BY Typing DEF Items
<1>6. CASE m = Warning
  <2>1. received' = received
    BY <1>1, <1>6
  <2>2. \A d \in Chans, x \in Items : inflight'[d] = x <=> inflight[d] = x
    BY <1>1, <1>2, <1>6, Typing DEF m
  <2>3. \A d \in Chans, x \in Items : Transit(d, x)' <=> Transit(d, x)
    BY <1>1, <2>2 DEF Transit
  <2>4. TypeOK' /\ Buffering' /\ SentIsPushed' /\ HandoverInOrder'
    <3>1. TypeOK' /\ Buffering' /\ HandoverInOrder'
      BY <1>1, <1>2, <2>1, OrderFrame DEF SinkInv, TypeOK, Buffering
    <3> QED BY <1>1, <2>1, <2>3, <3>1 DEF SinkInv, SentIsPushed
  <2>5. InOnePlace'
    <3>1. queue' = queue
      BY <1>1
    <3>2. \A d \in Chans, x \in Items : ~(inflight'[d] = x /\ Contains(queue'[d], x))
      BY <2>2, <3>1 DEF SinkInv, InOnePlace
    <3>3. /\ \A d, e \in Chans, x \in Items : Transit(d, x)' /\ Transit(e, x)' => d = e
          /\ \A d \in Chans, x \in Items : ~(Transit(d, x)' /\ Contains(received', x))
      BY <2>1, <2>3 DEF SinkInv, InOnePlace
    <3> QED BY <2>1, <3>1, <3>2, <3>3 DEF SinkInv, InOnePlace
  <2>6. EarlyInOrder'
    <3>1. ASSUME NEW d \in Chans
          PROVE  /\ \A i \in 1..early : Transit(d, i) => d = 1
                 /\ handover[d] # <<>> /\ stream[d] = "open" =>
                       \A i \in 1..(early - Len(handover[d])) : Contains(received, i) \/ Transit(d, i)
      BY DEF SinkInv, EarlyInOrder
    <3>2. ASSUME NEW d \in Chans
          PROVE  /\ \A i \in 1..early : Transit(d, i)' => d = 1
                 /\ handover[d] # <<>> /\ stream[d] = "open" =>
                       \A i \in 1..(early - Len(handover[d])) : Contains(received, i) \/ Transit(d, i)'
      BY <1>5, <2>3, <3>1
    <3>3. ASSUME NEW d \in Chans, NEW k \in 1..Len(queue[d]), NEW e \in 1..early,
                 queue[d][k] = e, NEW i \in 1..(e - 1)
          PROVE  \/ Contains(received, i) \/ inflight'[d] = i
                 \/ \E j \in 1..(k - 1) : queue[d][j] = i
      <4>1. Contains(received, i) \/ inflight[d] = i \/ \E j \in 1..(k - 1) : queue[d][j] = i
        BY <3>3, OrderedQueue
      <4>2. i \in 1..early
        BY <1>5
      <4>3. inflight'[d] = i <=> inflight[d] = i
        BY <1>5, <2>2, <4>2
      <4> QED BY <4>1, <4>3
    <3>4. ASSUME NEW d \in Chans, NEW e \in 1..early, inflight'[d] = e, NEW i \in 1..(e - 1)
          PROVE  Contains(received, i)
      <4>1. inflight[d] = e
        BY <1>5, <2>2, <3>4
      <4> QED BY <4>1, OrderedInflight
    <3> QED BY <1>1, <2>1, <3>2, <3>3, <3>4 DEF EarlyInOrder
  <2> QED BY <1>3, <1>4, <2>4, <2>5, <2>6 DEF SinkInv
<1>7. CASE m # Warning
  <2>1. m \in Items /\ Transit(c, m)
    BY <1>1, <1>7, Typing DEF m, Messages, Transit
  <2>2. received' = Append(received, m)
    BY <1>1, <1>7
  <2>3. /\ received' \in Seq(Items) /\ Len(received') = Len(received) + 1
        /\ \A k \in 1..Len(received) : received'[k] = received[k]
        /\ received'[Len(received) + 1] = m
        /\ \A x : Contains(received', x) <=> Contains(received, x) \/ x = m
    BY <2>1, <2>2, Typing, Appended
  <2>4. ~Contains(received, m) /\ ~Contains(queue[c], m) /\ \A d \in Chans \ {c} : ~Transit(d, m)
    BY <1>1, <2>1 DEF SinkInv, InOnePlace, m
  <2>5. \A d \in Chans, x \in Items : Transit(d, x)' <=> Transit(d, x) /\ x # m
    <3>1. \A x \in Items : Transit(c, x)' <=> Transit(c, x) /\ x # m
      BY <1>1, <1>2, <2>4, Typing DEF Transit, m
    <3>2. ASSUME NEW d \in Chans, d # c, NEW x \in Items
          PROVE  Transit(d, x)' <=> Transit(d, x) /\ x # m
      <4>1. Transit(d, x)' <=> Transit(d, x)
        BY <1>1, <1>2, <3>2 DEF Transit
      <4> QED BY <2>4, <3>2, <4>1
    <3> QED BY <3>1, <3>2
  <2>6. \A x \in Items : Contains(received', x) \/ (\E d \in Chans : Transit(d, x)')
                          => Contains(received, x) \/ (\E d \in Chans : Transit(d, x))
    BY <1>1, <2>1, <2>3, <2>5
  <2>7. TypeOK'
    BY <1>1, <1>2, <2>3 DEF SinkInv, TypeOK
  <2>8. Buffering'
    <3>1. stream # <<>>
      <4>1. Len(stream) \in Nat /\ Len(stream) # 0
        BY Typing
      <4> QED BY <4>1
    <3> QED BY <1>1, <3>1 DEF SinkInv, Buffering
  <2>9. SentIsPushed'
    BY <1>1, <2>6 DEF SinkInv, SentIsPushed
  <2>10. InOnePlace'
    <3>1. \A d \in Chans : \A j, k \in 1..Len(queue'[d]) :
             queue'[d][j] = queue'[d][k] => j = k \/ queue'[d][j] = Warning
      BY <1>1 DEF SinkInv, InOnePlace
    <3>2. ASSUME NEW d \in Chans, NEW x \in Items
          PROVE  ~(inflight'[d] = x /\ Contains(queue'[d], x))
      <4>1. ~(inflight[d] = x /\ Contains(queue[d], x))
        BY DEF SinkInv, InOnePlace
      <4>2. inflight'[d] = x => inflight[d] = x
        BY <1>1, <1>2, Typing
      <4> QED BY <1>1, <4>1, <4>2
    <3>3. \A d, e \in Chans, x \in Items : Transit(d, x)' /\ Transit(e, x)' => d = e
      BY <2>5 DEF SinkInv, InOnePlace
    <3>4. \A d \in Chans, x \in Items : ~(Transit(d, x)' /\ Contains(received', x))
      BY <2>3, <2>5 DEF SinkInv, InOnePlace
    <3>5. ASSUME NEW j \in 1..Len(received'), NEW k \in 1..Len(received'),
                 received'[j] = received'[k]
          PROVE  j = k
      <4>1. Len(received) \in Nat
        BY Typing
      <4>2. \A n \in 1..Len(received) : received[n] # m
        BY <2>4 DEF Contains
      <4>3. \A n \in 1..Len(received') : n \in 1..Len(received) \/ n = Len(received) + 1
        BY <2>3, <4>1
      <4>4. \A n, l \in 1..Len(received) : received[n] = received[l] => n = l
        BY DEF SinkInv, InOnePlace
      <4> QED BY <2>3, <3>5, <4>2, <4>3, <4>4
    <3> QED BY <3>1, <3>2, <3>3, <3>4, <3>5 DEF InOnePlace
  <2>11. EarlyInOrder'
    <3>1. ASSUME NEW d \in Chans
          PROVE  /\ \A i \in 1..early : Transit(d, i) => d = 1
                 /\ handover[d] # <<>> /\ stream[d] = "open" =>
                       \A i \in 1..(early - Len(handover[d])) : Contains(received, i) \/ Transit(d, i)
      BY DEF SinkInv, EarlyInOrder
    <3>2. ASSUME NEW d \in Chans
          PROVE  /\ \A i \in 1..early : Transit(d, i)' => d = 1
                 /\ handover[d] # <<>> /\ stream[d] = "open" =>
                       \A i \in 1..(early - Len(handover[d])) : Contains(received', i) \/ Transit(d, i)'
      BY <1>5, <2>3, <2>5, <3>1
    <3>3. ASSUME NEW d \in Chans, NEW k \in 1..Len(queue[d]), NEW e \in 1..early,
                 queue[d][k] = e, NEW i \in 1..(e - 1)
          PROVE  \/ Contains(received', i) \/ inflight'[d] = i
                 \/ \E j \in 1..(k - 1) : queue[d][j] = i
      <4>1. Contains(received, i) \/ inflight[d] = i \/ \E j \in 1..(k - 1) : queue[d][j] = i
        BY <3>3, OrderedQueue
      <4>2. inflight[d] = i => inflight'[d] = i \/ i = m
        BY <1>2 DEF m
      <4> QED BY <2>3, <4>1, <4>2
    <3>4. ASSUME NEW d \in Chans, NEW e \in 1..early, inflight'[d] = e, NEW i \in 1..(e - 1)
          PROVE  Contains(received', i)
      <4>1. e \in Items
        BY <1>5
      <4>2. inflight[d] = e
        BY <1>2, <3>4, <4>1, Typing
      <4>3. Contains(received, i)
        BY <4>2, OrderedInflight
      <4> QED BY <2>3, <4>3
    <3> QED BY <1>1, <3>2, <3>3, <3>4 DEF EarlyInOrder
  <2>12. HandoverInOrder'
    <3>1. ASSUME NEW k \in 1..Len(received'), NEW e \in 1..early, received'[k] = e,
                 NEW i \in 1..(e - 1)
          PROVE  \E j \in 1..(k - 1) : received'[j] = i
      <4>1. Len(received) \in Nat
        BY Typing
      <4>2. CASE k \in 1..Len(received)
        <5>1. received[k] = e
          BY <2>3, <3>1, <4>2
        <5>2. \E j \in 1..(k - 1) : received[j] = i
          BY <4>2, <5>1 DEF SinkInv, HandoverInOrder
        <5>3. \A j \in 1..(k - 1) : j \in 1..Len(received)
          BY <4>1, <4>2
        <5> QED BY <2>3, <5>2, <5>3
      <4>3. CASE k = Len(received) + 1
        <5>1. inflight[c] = e
          BY <2>3, <3>1, <4>3 DEF m
        <5>2. Contains(received, i)
          BY <1>1, <5>1, OrderedInflight
        <5>3. PICK j \in 1..Len(received) : received[j] = i
          BY <5>2 DEF Contains
        <5>4. j \in 1..(k - 1)
          BY <4>1, <4>3
        <5> QED BY <2>3, <5>3, <5>4
      <4> QED BY <2>3, <4>1, <4>2, <4>3
    <3> QED BY <1>1, <3>1 DEF HandoverInOrder
  <2> QED BY <1>3, <1>4, <2>7, <2>8, <2>9, <2>10, <2>11, <2>12 DEF SinkInv
<1> QED BY <1>6, <1>7

(* A closed channel loses what is in it. *)
LEMMA CloseKeeps ==
    ASSUME SinkInv, NEW c \in 1..Len(stream),
           stream' = [stream EXCEPT ![c] = "closed"],
           queue' = [queue EXCEPT ![c] = <<>>],
           inflight' = [inflight EXCEPT ![c] = None],
           parked' \in [Chans -> Seq({"handover", "clone"})],
           UNCHANGED <<session, pushed, refused, buffer, handover, warning, early, received>>
    PROVE  SinkInv'
<1>1. /\ c \in Chans /\ stream \in Seq({"open", "closed"})
      /\ queue' \in [Chans -> Seq(Messages)] /\ queue'[c] = <<>>
      /\ inflight' \in [Chans -> Messages \cup {None}] /\ inflight'[c] = None
      /\ \A d \in Chans \ {c} : queue'[d] = queue[d] /\ inflight'[d] = inflight[d]
  <2>1. /\ stream \in Seq({"open", "closed"}) /\ queue \in [Chans -> Seq(Messages)]
        /\ inflight \in [Chans -> Messages \cup {None}]
    BY DEF SinkInv, TypeOK
  <2>2. c \in Chans /\ <<>> \in Seq(Messages)
    BY Typing
  <2> QED BY <2>1, <2>2
<1>2. /\ stream' \in Seq({"open", "closed"}) /\ Len(stream') = Len(stream)
      /\ stream'[c] = "closed" /\ \A d \in 1..Len(stream) : d # c => stream'[d] = stream[d]
  <2>1. Len(stream) \in Nat /\ stream \in [1..Len(stream) -> {"open", "closed"}]
    BY <1>1, LenProperties
  <2>2. stream' \in [1..Len(stream) -> {"open", "closed"}]
    BY <2>1
  <2> QED BY <2>1, <2>2, SeqDef
<1>3. stream # <<>> /\ stream' # <<>>
  <2>1. Len(stream) \in Nat /\ Len(stream) # 0 /\ Len(stream') # 0
    BY <1>2, Typing
  <2> QED BY <2>1
<1>4. TypeOK'
  BY <1>1, <1>2 DEF SinkInv, TypeOK
<1>5. Buffering' /\ HandingOver' /\ HandoverInOrder'
  BY <1>3 DEF SinkInv, Buffering, HandingOver, HandoverInOrder
<1>6. OnlyInOpen'
  <2>1. ASSUME NEW d \in Chans, queue'[d] # <<>> \/ inflight'[d] # None
        PROVE  d <= Len(stream') /\ stream'[d] = "open"
    <3>1. d # c /\ (queue[d] # <<>> \/ inflight[d] # None)
      BY <1>1, <2>1
    <3>2. d <= Len(stream) /\ stream[d] = "open" /\ d \in Nat \ {0}
      BY <3>1, SinkAssumption DEF SinkInv, OnlyInOpen, Chans
    <3>3. d \in 1..Len(stream)
      BY <3>2, Typing
    <3> QED BY <1>2, <3>1, <3>2, <3>3
  <2> QED BY <2>1 DEF OnlyInOpen
<1>7. \A d \in Chans, x \in Items : Transit(d, x)' <=> d # c /\ Transit(d, x)
  BY <1>1, Typing DEF Transit, Contains
<1>8. SentIsPushed'
  <2>1. \A x \in Items : Contains(received, x) \/ (\E d \in Chans : Transit(d, x)')
                          => Contains(received, x) \/ (\E d \in Chans : Transit(d, x))
    BY <1>7
  <2> QED BY <2>1 DEF SinkInv, SentIsPushed
<1>9. InOnePlace'
  <2>1. ASSUME NEW d \in Chans, NEW j \in 1..Len(queue'[d]), NEW k \in 1..Len(queue'[d]),
               queue'[d][j] = queue'[d][k]
        PROVE  j = k \/ queue'[d][j] = Warning
    <3>1. d # c
      BY <1>1
    <3>2. queue'[d] = queue[d]
      BY <1>1, <3>1
    <3> QED BY <2>1, <3>2, DistinctQueue
  <2>2. \A d \in Chans, x \in Items : ~(inflight'[d] = x /\ Contains(queue'[d], x))
    BY <1>1, Typing DEF SinkInv, InOnePlace
  <2>3. /\ \A d, e \in Chans, x \in Items : Transit(d, x)' /\ Transit(e, x)' => d = e
        /\ \A d \in Chans, x \in Items : ~(Transit(d, x)' /\ Contains(received', x))
        /\ \A j, k \in 1..Len(received') : received'[j] = received'[k] => j = k
    BY <1>7 DEF SinkInv, InOnePlace
  <2> QED BY <2>1, <2>2, <2>3 DEF InOnePlace
<1>10. EarlyInOrder'
  <2>1. 1..early \subseteq Items /\ \A d \in Chans : 1..(early - Len(handover[d])) \subseteq Items
    BY Typing DEF Items
  <2>2. ASSUME NEW d \in Chans
        PROVE  /\ \A i \in 1..early : Transit(d, i) => d = 1
               /\ handover[d] # <<>> /\ stream[d] = "open" =>
                     \A i \in 1..(early - Len(handover[d])) : Contains(received, i) \/ Transit(d, i)
    BY DEF SinkInv, EarlyInOrder
  <2>3. ASSUME NEW d \in Chans, handover[d] # <<>>, stream'[d] = "open"
        PROVE  d # c /\ stream[d] = "open"
    <3>1. d \in 1..Len(stream)
      <4>1. d = 1 /\ Len(stream) \in Nat /\ Len(stream) # 0
        BY <1>3, <2>3, Typing DEF SinkInv, HandingOver
      <4> QED BY <4>1
    <3> QED BY <1>2, <2>3, <3>1
  <2>4. ASSUME NEW d \in Chans
        PROVE  /\ \A i \in 1..early : Transit(d, i)' => d = 1
               /\ handover[d] # <<>> /\ stream'[d] = "open" =>
                     \A i \in 1..(early - Len(handover[d])) : Contains(received, i) \/ Transit(d, i)'
    BY <1>7, <2>1, <2>2, <2>3
  <2>5. ASSUME NEW d \in Chans, NEW k \in 1..Len(queue'[d]), NEW e \in 1..early,
               queue'[d][k] = e, NEW i \in 1..(e - 1)
        PROVE  \/ Contains(received, i) \/ inflight'[d] = i
               \/ \E j \in 1..(k - 1) : queue'[d][j] = i
    <3>1. d # c
      BY <1>1
    <3>2. queue'[d] = queue[d] /\ inflight'[d] = inflight[d]
      BY <1>1, <3>1
    <3> QED BY <2>5, <3>2, OrderedQueue
  <2>6. ASSUME NEW d \in Chans, NEW e \in 1..early, inflight'[d] = e, NEW i \in 1..(e - 1)
        PROVE  Contains(received, i)
    <3>1. inflight[d] = e
      BY <1>1, <2>1, <2>6, Typing
    <3> QED BY <3>1, OrderedInflight
  <2> QED BY <2>4, <2>5, <2>6 DEF EarlyInOrder
<1> QED BY <1>4, <1>5, <1>6, <1>8, <1>9, <1>10 DEF SinkInv

LEMMA CloseStreamKeeps ==
    ASSUME SinkInv, NEW c \in 1..Len(stream), CloseStream(c) PROVE SinkInv'
<1>1. /\ parked \in [Chans -> Seq({"handover", "clone"})] /\ parked' = [parked EXCEPT ![c] = <<>>]
      /\ <<>> \in Seq({"handover", "clone"})
  BY DEF CloseStream, SinkInv, TypeOK
<1> DEFINE Senders == Seq({"handover", "clone"})
<1> HIDE DEF Senders
<1>2. parked' \in [Chans -> Senders]
  BY <1>1 DEF Senders
<1> QED BY <1>2, CloseKeeps DEF CloseStream, Senders

(* A drained channel has nothing to lose. *)
LEMMA EndStreamKeeps ==
    ASSUME SinkInv, NEW c \in 1..Len(stream), EndStream(c) PROVE SinkInv'
<1>1. /\ queue \in [Chans -> Seq(Messages)] /\ inflight \in [Chans -> Messages \cup {None}]
      /\ queue[c] = <<>> /\ inflight[c] = None /\ c \in Chans
      /\ UNCHANGED <<queue, inflight, parked>> /\ parked \in [Chans -> Seq({"handover", "clone"})]
  BY Typing DEF EndStream, SinkInv, TypeOK
<1>2. queue' = [queue EXCEPT ![c] = <<>>] /\ inflight' = [inflight EXCEPT ![c] = None]
  BY <1>1
<1> QED BY <1>1, <1>2, CloseKeeps DEF EndStream

LEMMA DropKeeps ==
    ASSUME SinkInv, DropSink PROVE SinkInv'
<1>1. /\ session' = "dropped" /\ buffer' = <<>>
      /\ UNCHANGED <<pushed, refused, stream, queue, parked, handover, warning, inflight, early, received>>
  BY DEF DropSink, chanVars
<1>2. TypeOK'
  BY <1>1 DEF SinkInv, TypeOK
<1>3. Buffering'
  BY <1>1, Typing DEF SinkInv, Buffering
<1>4. SentIsPushed'
  BY <1>1 DEF SinkInv, SentIsPushed, Transit
<1> QED BY <1>1, <1>2, <1>3, <1>4, ChannelFrame DEF SinkInv

LEMMA StutterKeeps ==
    ASSUME SinkInv, UNCHANGED vars PROVE SinkInv'
<1>1. UNCHANGED <<session, pushed, refused, buffer, stream, queue, parked, handover, warning,
                  inflight, early, received>>
  BY DEF vars, chanVars
<1>2. TypeOK' /\ Buffering' /\ SentIsPushed'
  BY <1>1 DEF SinkInv, TypeOK, Buffering, SentIsPushed, Transit
<1> QED BY <1>1, <1>2, ChannelFrame DEF SinkInv

LEMMA StepKeepsInv ==
    SinkInv /\ [Next]_vars => SinkInv'
<1> SUFFICES ASSUME SinkInv, [Next]_vars PROVE SinkInv'
  OBVIOUS
<1>1. DOMAIN stream = 1..Len(stream)
  BY DEF SinkInv, TypeOK
<1>2. ASSUME NEW c \in 1..Len(stream),
             \/ PollHandover(c) \/ PollWarning(c) \/ Take(c)
             \/ Acknowledge(c) \/ CloseStream(c) \/ EndStream(c)
      PROVE  SinkInv'
  BY <1>2, HandoverKeeps, WarningKeeps, TakeKeeps, AcknowledgeKeeps, CloseStreamKeeps, EndStreamKeeps
<1> QED BY <1>1, <1>2, PushKeeps, OpenKeeps, DropKeeps, StutterKeeps DEF Next

(***************************************************************************)
(* The items of a sink stay in order and in one place, in every reachable  *)
(* state.                                                                  *)
(***************************************************************************)
THEOREM SinkInvCorrect == Spec => []SinkInv
  BY InitialInv, StepKeepsInv, PTL DEF Spec

(***************************************************************************)
(* ServerSink::push_event and push_call, the handover of the Vec, repeated *)
(* events() calls and the dispatcher's for_each never give the client an   *)
(* item twice.                                                             *)
(***************************************************************************)
THEOREM ReceivedOnceCorrect == Spec => []ReceivedOnce
<1>1. SinkInv => ReceivedOnce
  <2> SUFFICES ASSUME SinkInv PROVE ReceivedOnce
    OBVIOUS
  <2>1. received \in Seq(Items) /\ DOMAIN received = 1..Len(received)
    BY Typing, LenProperties
  <2>2. ToSet(received) \subseteq Items
    BY <2>1 DEF ToSet
  <2>3. IsInjective(received)
    BY <2>1 DEF IsInjective, SinkInv, InOnePlace
  <2> QED BY <2>2, <2>3 DEF ReceivedOnce
<1> QED BY <1>1, SinkInvCorrect, PTL

(***************************************************************************)
(* What was in the Vec when events() was first called reaches the client   *)
(* in push order and without gaps.                                         *)
(***************************************************************************)
THEOREM HandoverInOrderCorrect == Spec => []HandoverInOrder
<1>1. SinkInv => HandoverInOrder
  BY DEF SinkInv
<1> QED BY <1>1, SinkInvCorrect, PTL

-----------------------------------------------------------------------------
(* The sink implements Mailbox *)

(* The item waits in the Vec, or in an open stream, to be received. *)
Held(i) ==
    \/ Contains(buffer, i)
    \/ \E c \in 1..Len(stream) : stream[c] = "open" /\ (Transit(c, i) \/ Contains(handover[c], i))

StatusByPlace ==
    \A i \in Items :
       StatusOf(i) = IF i > pushed THEN "new"
                     ELSE IF i \in refused THEN "refused"
                     ELSE IF Contains(received, i) THEN "received"
                     ELSE IF Held(i) THEN "pending" ELSE "lost"

LEMMA PlaceTellsStatus == SinkInv => StatusByPlace
<1> SUFFICES ASSUME SinkInv, NEW i \in Items
             PROVE  (\/ Contains(buffer, i)
                     \/ \E c \in DOMAIN stream : stream[c] = "open" /\ i \in InChannel(c)) <=> Held(i)
  BY DEF StatusOf, StatusByPlace
<1>1. DOMAIN stream = 1..Len(stream)
  BY DEF SinkInv, TypeOK
<1>2. ASSUME NEW c \in 1..Len(stream)
      PROVE  i \in InChannel(c) <=> Transit(c, i) \/ Contains(handover[c], i)
  <2>1. c \in Chans
    BY Typing
  <2>2. DOMAIN queue[c] = 1..Len(queue[c]) /\ DOMAIN handover[c] = 1..Len(handover[c])
    BY <2>1, Typing, LenProperties
  <2>3. i \in ToSet(queue[c]) <=> Contains(queue[c], i)
    BY <2>2 DEF ToSet, Contains
  <2>4. i \in ToSet(handover[c]) <=> Contains(handover[c], i)
    BY <2>2 DEF ToSet, Contains
  <2> QED BY <2>3, <2>4 DEF InChannel, Transit
<1> QED BY <1>1, <1>2 DEF Held

LEMMA PlaceTellsStatusNext == SinkInv' => StatusByPlace'
  BY PlaceTellsStatus, PTL

(* A step that only moves items within the sink leaves their status. *)
LEMMA StatusStays ==
    ASSUME SinkInv, SinkInv', UNCHANGED <<pushed, refused, received>>, NEW i \in Items,
           Held(i)' <=> Held(i)
    PROVE  StatusOf(i)' = StatusOf(i)
  BY PlaceTellsStatus, PlaceTellsStatusNext DEF StatusByPlace

(* A step that lets go of items loses them, if they were pending. *)
LEMMA StatusLost ==
    ASSUME SinkInv, SinkInv', UNCHANGED <<pushed, refused, received>>, NEW i \in Items,
           Held(i)' => Held(i)
    PROVE  StatusOf(i)' = IF StatusOf(i) = "pending" /\ ~Held(i)' THEN "lost" ELSE StatusOf(i)
  BY PlaceTellsStatus, PlaceTellsStatusNext DEF StatusByPlace

(* Where an item is held, in terms of what the steps change *)
LEMMA HeldFrame ==
    ASSUME UNCHANGED <<buffer, stream>>, NEW i,
           \A d \in 1..Len(stream) : stream[d] = "open" =>
              (Transit(d, i)' \/ Contains(handover'[d], i) <=> Transit(d, i) \/ Contains(handover[d], i))
    PROVE  Held(i)' <=> Held(i)
  BY DEF Held

MailStep == [MB!MailNext]_(MB!mailVars)

LEMMA StutterRefines ==
    ASSUME UNCHANGED <<stream, session>>, \A i \in Items : StatusOf(i)' = StatusOf(i)
    PROVE  MailStep
<1>1. [i \in Items |-> StatusOf(i)]' = [i \in Items |-> StatusOf(i)]
  OBVIOUS
<1> QED BY <1>1 DEF MailStep, MB!mailVars

LEMMA PushRefines ==
    ASSUME SinkInv, SinkInv', Push PROVE MailStep
<1> DEFINE n == pushed + 1
<1>1. /\ session = "live" /\ pushed < MaxItems /\ pushed' = n /\ n \in Items /\ pushed \in Nat
      /\ UNCHANGED <<session, stream, handover, warning, inflight, early, received>>
  BY Typing DEF Push, Items
<1>2. /\ StatusOf(n) = "new" /\ ~Contains(received, n) /\ n \notin refused
      /\ \A d \in Chans : ~Transit(d, n)
  BY <1>1, PlaceTellsStatus, PushedIsNew DEF StatusByPlace
<1>3. \A x \in Items : x > pushed' <=> x > pushed /\ x # n
  BY <1>1, Typing
<1> HIDE DEF n
<1>4. ASSUME refused' = refused, \A x \in Items : Held(x)' <=> Held(x) \/ x = n
      PROVE  MB!Become({n}, "pending")
  <2>1. \A x \in Items : StatusOf(x)' = IF x = n THEN "pending" ELSE StatusOf(x)
    BY <1>1, <1>2, <1>3, <1>4, PlaceTellsStatus, PlaceTellsStatusNext DEF StatusByPlace
  <2> QED BY <2>1 DEF MB!Become
<1>5. Len(stream) \in Nat /\ (Len(stream) = 0 <=> stream = <<>>)
  BY Typing, EmptySeq DEF SinkInv, TypeOK
<1>6. CASE Current = 0
  <2>1. buffer' = Append(buffer, n) /\ UNCHANGED <<queue, parked, refused>> /\ stream = <<>>
    BY <1>5, <1>6 DEF Push, Current, n
  <2>2. \A x : Contains(buffer', x) <=> Contains(buffer, x) \/ x = n
    <3>1. buffer \in Seq(Items)
      BY DEF SinkInv, TypeOK
    <3> QED BY <1>1, <2>1, <3>1, Appended
  <2>3. \A x \in Items : Held(x)' <=> Held(x) \/ x = n
    BY <1>1, <2>1, <2>2 DEF Held
  <2>4. MB!Accept(n)
    BY <1>1, <1>2, <1>4, <2>1, <2>3 DEF MB!Accept, MB!Accepting
  <2> QED BY <1>1, <2>4 DEF MailStep, MB!MailNext
<1>7. CASE Current # 0 /\ stream[Current] = "open"
  <2> DEFINE c == Current
  <2>1. Send(c, <<n>>, "clone") /\ UNCHANGED <<buffer, refused>>
    BY <1>7 DEF Push, n
  <2>2. c \in 1..Len(stream) /\ c \in Chans /\ stream # <<>>
    BY <1>5, <1>7, Typing DEF Current
  <2>3. <<n>> \in Seq(Messages) /\ \A x : Contains(<<n>>, x) <=> x = n
    BY <1>1 DEF Messages, Contains
  <2>4. /\ \A d \in Chans \ {c} : queue'[d] = queue[d]
        /\ \A x : Contains(queue'[c], x) <=> Contains(queue[c], x) \/ Contains(<<n>>, x)
    BY <2>1, <2>2, <2>3, Enqueued
  <2>5. \A d \in Chans, x \in Items : Transit(d, x)' <=> Transit(d, x) \/ (d = c /\ x = n)
    BY <1>1, <2>3, <2>4 DEF Transit
  <2>6. ASSUME NEW x \in Items PROVE Held(x)' <=> Held(x) \/ x = n
    <3>1. CASE x = n
      BY <1>1, <1>7, <2>2, <2>5, <3>1 DEF Held
    <3>2. CASE x # n
      <4>1. \A d \in 1..Len(stream) : Transit(d, x)' <=> Transit(d, x)
        BY <2>5, <3>2, Typing
      <4> QED BY <1>1, <2>1, <3>2, <4>1, HeldFrame
    <3> QED BY <3>1, <3>2
  <2>7. MB!Accept(n)
    BY <1>1, <1>2, <1>4, <1>7, <2>1, <2>6 DEF MB!Accept, MB!Accepting, Current
  <2> QED BY <1>1, <2>7 DEF MailStep, MB!MailNext
<1>8. CASE Current # 0 /\ stream[Current] = "closed"
  <2>1. refused' = refused \cup {n} /\ UNCHANGED <<queue, parked, buffer>> /\ stream # <<>>
    BY <1>5, <1>8 DEF Push, Current, n
  <2>2. ASSUME NEW x \in Items PROVE Held(x)' <=> Held(x)
    <3>1. \A d \in 1..Len(stream) : Transit(d, x)' <=> Transit(d, x)
      BY <1>1, <2>1 DEF Transit
    <3> QED BY <1>1, <2>1, <3>1, HeldFrame
  <2>3. \A x \in Items : StatusOf(x)' = IF x = n THEN "refused" ELSE StatusOf(x)
    BY <1>1, <1>2, <1>3, <2>1, <2>2, PlaceTellsStatus, PlaceTellsStatusNext DEF StatusByPlace
  <2>4. MB!Become({n}, "refused")
    BY <2>3 DEF MB!Become
  <2>5. MB!Refuse(n)
    BY <1>1, <1>2, <1>8, <2>1, <2>4 DEF MB!Refuse, MB!Accepting, Current
  <2> QED BY <1>1, <2>5 DEF MailStep, MB!MailNext
<1> QED BY <1>6, <1>7, <1>8 DEF Push

LEMMA OpenRefines ==
    ASSUME SinkInv, SinkInv', OpenStream PROVE MailStep
<1>1. /\ session = "live" /\ Len(stream) < MaxStreams /\ stream' = Append(stream, "open")
      /\ UNCHANGED <<session, pushed, refused, queue, parked, inflight, received>>
  BY DEF OpenStream, Current
<1>2. /\ stream \in Seq({"open", "closed"}) /\ Len(stream) \in Nat
      /\ Len(stream') = Len(stream) + 1 /\ (Len(stream) = 0 <=> stream = <<>>)
      /\ \A d \in 1..Len(stream) : stream'[d] = stream[d]
      /\ stream'[Len(stream) + 1] = "open"
  BY <1>1, Typing, Appended, EmptySeq DEF SinkInv, TypeOK
<1>3. /\ \A d \in 1..Len(stream') : d \in 1..Len(stream) \/ d = Len(stream) + 1
      /\ \A d \in 1..Len(stream) : d \in 1..Len(stream')
      /\ Len(stream) + 1 \in 1..Len(stream') /\ Len(stream) + 1 \in Chans
  BY <1>1, <1>2, SinkAssumption DEF Chans
<1>4. \A d, x : Transit(d, x)' <=> Transit(d, x)
  BY <1>1 DEF Transit
<1>5. \A x \in Items : ~Transit(Len(stream) + 1, x)
  <2>1. ~(Len(stream) + 1 <= Len(stream))
    BY <1>2
  <2>2. queue[Len(stream) + 1] = <<>> /\ inflight[Len(stream) + 1] = None
    BY <1>3, <2>1 DEF SinkInv, OnlyInOpen
  <2> QED BY <2>2, Typing DEF Transit, Contains
<1>6. ASSUME NEW x \in Items PROVE Held(x)' <=> Held(x)
  <2>1. CASE Current = 0
    <3>1. /\ handover' = [handover EXCEPT ![1] = buffer] /\ buffer' = <<>>
          /\ stream = <<>> /\ Len(stream) = 0
      BY <1>2, <2>1 DEF OpenStream, Current
    <3>2. handover'[1] = buffer
      BY <1>3, <3>1 DEF SinkInv, TypeOK
    <3>3. Held(x) <=> Contains(buffer, x)
      BY <3>1 DEF Held
    <3>4. Held(x)' <=> Transit(1, x) \/ Contains(buffer, x)
      <4>1. /\ ~Contains(buffer', x) /\ stream'[1] = "open" /\ 1 \in 1..Len(stream')
            /\ \A d \in 1..Len(stream') : d = 1
        BY <1>2, <1>3, <3>1 DEF Contains
      <4> QED BY <1>4, <3>2, <4>1 DEF Held
    <3> QED BY <1>5, <3>1, <3>3, <3>4
  <2>2. CASE Current # 0
    <3>1. UNCHANGED <<handover, buffer>> /\ stream # <<>>
      BY <1>2, <2>2 DEF OpenStream, Current
    <3>2. ~Contains(handover[Len(stream) + 1], x)
      <4>1. Len(stream) + 1 # 1
        BY <1>2, <3>1
      <4>2. handover[Len(stream) + 1] = <<>>
        BY <1>3, <4>1 DEF SinkInv, HandingOver
      <4> QED BY <4>2 DEF Contains
    <3>3. ASSUME Held(x) PROVE Held(x)'
      BY <1>2, <1>3, <1>4, <3>1, <3>3 DEF Held
    <3>4. ASSUME Held(x)' PROVE Held(x)
      BY <1>2, <1>3, <1>4, <1>5, <3>1, <3>2, <3>4 DEF Held
    <3> QED BY <3>3, <3>4
  <2> QED BY <2>1, <2>2
<1>7. \A x \in Items : StatusOf(x)' = StatusOf(x)
  BY <1>1, <1>6, StatusStays
<1>8. [i \in Items |-> StatusOf(i)]' = [i \in Items |-> StatusOf(i)]
  BY <1>7
<1> QED BY <1>1, <1>8 DEF MailStep, MB!MailNext, MB!Open

LEMMA HandoverRefines ==
    ASSUME SinkInv, SinkInv', NEW c \in 1..Len(stream), PollHandover(c) PROVE MailStep
<1> DEFINE h == handover[c]
           n == Batch(c)
           rest == SubSeq(h, n + 1, Len(h))
<1>1. /\ c \in Chans /\ h # <<>> /\ handover \in [Chans -> Seq(Items)] /\ h \in Seq(Items)
      /\ UNCHANGED <<session, pushed, refused, buffer, stream, warning, inflight, early, received>>
  BY Typing DEF PollHandover, SinkInv, TypeOK
<1>2. CASE stream[c] = "open"
  <2>1. Send(c, Chunk(c), "handover") /\ handover' = [handover EXCEPT ![c] = rest]
    BY <1>2 DEF PollHandover
  <2>2. n \in 0..Len(h) /\ Chunk(c) = SubSeq(h, 1, n)
    BY <1>1, BatchSize DEF Chunk
  <2>3. handover'[c] = rest /\ \A d \in Chans \ {c} : handover'[d] = handover[d]
    BY <1>1, <2>1
  <2> HIDE DEF h, n, rest
  <2>4. /\ Chunk(c) \in Seq(Items)
        /\ \A x : Contains(h, x) <=> Contains(Chunk(c), x) \/ Contains(rest, x)
    BY <1>1, <2>2, Divided DEF rest
  <2>5. Chunk(c) \in Seq(Messages)
    BY <2>4, SeqMonotonic DEF Messages
  <2>6. /\ \A d \in Chans \ {c} : queue'[d] = queue[d]
        /\ \A x : Contains(queue'[c], x) <=> Contains(queue[c], x) \/ Contains(Chunk(c), x)
    BY <1>1, <2>1, <2>5, Enqueued
  <2>7. ASSUME NEW x \in Items, NEW d \in 1..Len(stream)
        PROVE  Transit(d, x)' \/ Contains(handover'[d], x) <=> Transit(d, x) \/ Contains(handover[d], x)
    <3>1. d \in Chans
      BY Typing
    <3>2. CASE d = c
      BY <1>1, <2>3, <2>4, <2>6, <3>2 DEF Transit, h
    <3>3. CASE d # c
      BY <1>1, <2>3, <2>6, <3>1, <3>3 DEF Transit
    <3> QED BY <3>2, <3>3
  <2>8. \A x \in Items : Held(x)' <=> Held(x)
    BY <1>1, <2>7, HeldFrame
  <2> QED BY <1>1, <2>8, StatusStays, StutterRefines
<1>3. CASE stream[c] = "closed"
  <2>1. handover' = [handover EXCEPT ![c] = <<>>] /\ UNCHANGED queue
    BY <1>3 DEF PollHandover
  <2>2. ASSUME NEW d \in 1..Len(stream), stream[d] = "open"
        PROVE  handover'[d] = handover[d] /\ queue'[d] = queue[d]
    <3>1. d \in Chans /\ d # c
      BY <1>3, <2>2, Typing
    <3> QED BY <1>1, <2>1, <3>1
  <2>3. \A x \in Items : Held(x)' <=> Held(x)
    BY <1>1, <2>2, HeldFrame DEF Transit
  <2> QED BY <1>1, <2>3, StatusStays, StutterRefines
<1> QED BY <1>2, <1>3 DEF PollHandover

LEMMA WarningRefines ==
    ASSUME SinkInv, SinkInv', NEW c \in 1..Len(stream), PollWarning(c) PROVE MailStep
<1>1. /\ c \in Chans
      /\ UNCHANGED <<session, pushed, refused, buffer, stream, handover, inflight, early, received>>
  BY Typing DEF PollWarning
<1>2. \A d \in Chans, x \in Items : Contains(queue'[d], x) <=> Contains(queue[d], x)
  <2>1. CASE stream[c] = "open"
    <3>1. Send(c, <<Warning>>, "clone")
      BY <2>1 DEF PollWarning
    <3>2. <<Warning>> \in Seq(Messages) /\ \A x \in Items : ~Contains(<<Warning>>, x)
      BY Typing DEF Messages, Contains
    <3>3. /\ \A d \in Chans \ {c} : queue'[d] = queue[d]
          /\ \A x : Contains(queue'[c], x) <=> Contains(queue[c], x) \/ Contains(<<Warning>>, x)
      BY <1>1, <3>1, <3>2, Enqueued
    <3> QED BY <3>2, <3>3
  <2>2. CASE stream[c] # "open"
    BY <2>2 DEF PollWarning
  <2> QED BY <2>1, <2>2
<1>3. \A d \in 1..Len(stream), x \in Items : Transit(d, x)' <=> Transit(d, x)
  BY <1>1, <1>2, Typing DEF Transit
<1>4. \A x \in Items : Held(x)' <=> Held(x)
  BY <1>1, <1>3, HeldFrame
<1> QED BY <1>1, <1>4, StatusStays, StutterRefines

LEMMA TakeRefines ==
    ASSUME SinkInv, SinkInv', NEW c \in 1..Len(stream), Take(c) PROVE MailStep
<1> DEFINE q == queue[c]
<1>1. /\ c \in Chans /\ inflight[c] = None /\ q # <<>>
      /\ inflight' = [inflight EXCEPT ![c] = Head(q)]
      /\ queue' = [queue EXCEPT ![c] = Tail(q)]
      /\ UNCHANGED <<session, pushed, refused, buffer, stream, handover, warning, early, received>>
  BY Typing DEF Take
<1>2. \A x : Contains(q, x) <=> x = Head(q) \/ Contains(Tail(q), x)
  BY <1>1, Typing, Headed
<1>3. /\ queue'[c] = Tail(q) /\ inflight'[c] = Head(q)
      /\ \A d \in Chans \ {c} : queue'[d] = queue[d] /\ inflight'[d] = inflight[d]
  BY <1>1 DEF SinkInv, TypeOK
<1> HIDE DEF q
<1>4. ASSUME NEW d \in 1..Len(stream), NEW x \in Items
      PROVE  Transit(d, x)' <=> Transit(d, x)
  <2>1. CASE d = c
    BY <1>1, <1>2, <1>3, <2>1, Typing DEF Transit, q
  <2>2. CASE d # c
    BY <1>3, <2>2, Typing DEF Transit
  <2> QED BY <2>1, <2>2
<1>5. \A x \in Items : Held(x)' <=> Held(x)
  BY <1>1, <1>4, HeldFrame
<1> QED BY <1>1, <1>5, StatusStays, StutterRefines

LEMMA AcknowledgeRefines ==
    ASSUME SinkInv, SinkInv', NEW c \in 1..Len(stream), Acknowledge(c) PROVE MailStep
<1> DEFINE m == inflight[c]
<1>1. /\ c \in Chans /\ m # None /\ inflight' = [inflight EXCEPT ![c] = None]
      /\ received' = IF m = Warning THEN received ELSE Append(received, m)
      /\ UNCHANGED <<session, pushed, refused, buffer, stream, queue, parked, handover, warning, early>>
  BY Typing DEF Acknowledge, Deliver, Answered
<1>2. inflight'[c] = None /\ \A d \in Chans \ {c} : inflight'[d] = inflight[d]
  BY <1>1 DEF SinkInv, TypeOK
<1>3. stream[c] = "open"
  BY <1>1 DEF SinkInv, OnlyInOpen
<1>4. \A d \in 1..Len(stream), x \in Items : x # m => (Transit(d, x)' <=> Transit(d, x))
  BY <1>1, <1>2, Typing DEF Transit
<1>5. ASSUME NEW x \in Items, x # m PROVE Held(x)' <=> Held(x)
  BY <1>1, <1>4, <1>5, HeldFrame
<1>6. CASE m = Warning
  <2>1. received' = received /\ \A x \in Items : x # m
    BY <1>1, <1>6, Typing
  <2> QED BY <1>1, <1>5, <2>1, StatusStays, StutterRefines
<1>7. CASE m # Warning
  <2>1. m \in Items /\ Transit(c, m) /\ received' = Append(received, m)
    BY <1>1, <1>7, Typing DEF Messages, Transit
  <2> HIDE DEF m
  <2>2. \A x : Contains(received', x) <=> Contains(received, x) \/ x = m
    BY <2>1, Typing, Appended
  <2>3. ~Contains(received, m) /\ m <= pushed /\ m \notin refused /\ Held(m)
    BY <1>1, <1>3, <2>1 DEF SinkInv, InOnePlace, SentIsPushed, Held
  <2>4. ~(m > pushed)
    BY <2>1, <2>3, Typing
  <2>5. StatusOf(m) = "pending"
    BY <2>1, <2>3, <2>4, PlaceTellsStatus DEF StatusByPlace
  <2>6. \A x \in Items : StatusOf(x)' = IF x = m THEN "received" ELSE StatusOf(x)
    BY <1>1, <1>5, <2>2, <2>3, <2>4, PlaceTellsStatus, PlaceTellsStatusNext DEF StatusByPlace
  <2>7. MB!Become({m}, "received")
    BY <2>6 DEF MB!Become
  <2>8. c \in DOMAIN stream
    BY DEF SinkInv, TypeOK
  <2>9. MB!Receive(m)
    BY <1>1, <1>3, <2>1, <2>5, <2>7, <2>8 DEF MB!Receive
  <2> QED BY <2>1, <2>9 DEF MailStep, MB!MailNext
<1> QED BY <1>6, <1>7

LEMMA CloseRefines ==
    ASSUME SinkInv, SinkInv', NEW c \in 1..Len(stream), stream[c] = "open",
           stream' = [stream EXCEPT ![c] = "closed"],
           \A d \in Chans \ {c} : queue'[d] = queue[d] /\ inflight'[d] = inflight[d],
           UNCHANGED <<session, pushed, refused, buffer, handover, received>>
    PROVE  MailStep
<1>1. DOMAIN stream = 1..Len(stream) /\ 1..Len(stream) \subseteq Chans
  BY Typing DEF SinkInv, TypeOK
<1>2. /\ DOMAIN stream' = DOMAIN stream /\ stream'[c] = "closed"
      /\ \A d \in DOMAIN stream : d # c => stream'[d] = stream[d]
  BY <1>1
<1>3. Len(stream') = Len(stream)
  <2>1. stream' \in Seq({"open", "closed"}) /\ stream \in Seq({"open", "closed"})
    BY DEF SinkInv, TypeOK
  <2> QED BY <1>2, <2>1, LenProperties
<1>4. ASSUME NEW x \in Items, Held(x)' PROVE Held(x)
  <2>1. CASE Contains(buffer, x)
    BY <2>1 DEF Held
  <2>2. CASE ~Contains(buffer, x)
    <3>1. PICK d \in 1..Len(stream) :
             stream'[d] = "open" /\ (Transit(d, x)' \/ Contains(handover[d], x))
      BY <1>3, <1>4, <2>2 DEF Held
    <3>2. d # c /\ stream[d] = "open"
      BY <1>1, <1>2, <3>1
    <3>3. Transit(d, x)' <=> Transit(d, x)
      BY <1>1, <3>2 DEF Transit
    <3> QED BY <3>1, <3>2, <3>3 DEF Held
  <2> QED BY <2>1, <2>2
<1> DEFINE S == {x \in Items : StatusOf(x) = "pending" /\ ~Held(x)'}
<1>5. \A x \in Items : StatusOf(x)' = IF x \in S THEN "lost" ELSE StatusOf(x)
  BY <1>4, StatusLost
<1>6. S \in SUBSET MB!Pending
  BY DEF MB!Pending
<1> HIDE DEF S
<1>7. MB!Become(S, "lost")
  BY <1>5 DEF MB!Become
<1>8. MB!Close(c)
  BY <1>6, <1>7 DEF MB!Close
<1> QED BY <1>1, <1>8 DEF MailStep, MB!MailNext

LEMMA CloseStreamRefines ==
    ASSUME SinkInv, SinkInv', NEW c \in 1..Len(stream), CloseStream(c) \/ EndStream(c)
    PROVE  MailStep
<1>1. c \in Chans /\ queue \in [Chans -> Seq(Messages)] /\ inflight \in [Chans -> Messages \cup {None}]
  BY Typing DEF SinkInv, TypeOK
<1>2. /\ stream[c] = "open" /\ stream' = [stream EXCEPT ![c] = "closed"]
      /\ UNCHANGED <<session, pushed, refused, buffer, handover, received>>
      /\ queue' = queue \/ queue' = [queue EXCEPT ![c] = <<>>]
      /\ inflight' = inflight \/ inflight' = [inflight EXCEPT ![c] = None]
  BY DEF CloseStream, EndStream
<1>3. \A d \in Chans \ {c} : queue'[d] = queue[d] /\ inflight'[d] = inflight[d]
  BY <1>1, <1>2
<1> QED BY <1>2, <1>3, CloseRefines

LEMMA DropRefines ==
    ASSUME SinkInv, SinkInv', DropSink PROVE MailStep
<1>1. /\ session = "live" /\ session' = "dropped" /\ buffer' = <<>>
      /\ UNCHANGED <<pushed, refused, stream, queue, parked, handover, warning, inflight, early, received>>
  BY DEF DropSink, chanVars
<1>2. \A x : ~Contains(buffer', x)
  BY <1>1 DEF Contains
<1>3. \A d, x : Transit(d, x)' <=> Transit(d, x)
  BY <1>1 DEF Transit
<1>4. CASE stream = <<>>
  <2>1. \A x \in Items : ~Held(x)'
    BY <1>1, <1>2, <1>4 DEF Held
  <2>2. \A x \in Items : StatusOf(x)' = IF x \in MB!Pending THEN "lost" ELSE StatusOf(x)
    BY <1>1, <2>1, StatusLost DEF MB!Pending
  <2>3. MB!Become(MB!Pending, "lost")
    BY <2>2 DEF MB!Become
  <2>4. MB!Drop
    BY <1>1, <1>4, <2>3 DEF MB!Drop
  <2> QED BY <2>4 DEF MailStep, MB!MailNext
<1>5. CASE stream # <<>>
  <2>1. buffer = <<>>
    BY <1>5 DEF SinkInv, Buffering
  <2>2. \A x \in Items : Held(x)' <=> Held(x)
    BY <1>1, <1>3, <2>1 DEF Held
  <2>3. \A x \in Items : StatusOf(x)' = StatusOf(x)
    BY <1>1, <2>2, StatusStays
  <2>4. MB!Become({}, "lost")
    BY <2>3 DEF MB!Become
  <2>5. MB!Drop
    BY <1>1, <1>5, <2>4 DEF MB!Drop
  <2> QED BY <2>5 DEF MailStep, MB!MailNext
<1> QED BY <1>4, <1>5

LEMMA StepRefines ==
    SinkInv /\ SinkInv' /\ [Next]_vars => [MB!MailNext]_(MB!mailVars)
<1> SUFFICES ASSUME SinkInv, SinkInv', [Next]_vars PROVE MailStep
  BY DEF MailStep
<1>1. DOMAIN stream = 1..Len(stream)
  BY DEF SinkInv, TypeOK
<1>2. ASSUME NEW c \in 1..Len(stream),
             \/ PollHandover(c) \/ PollWarning(c) \/ Take(c)
             \/ Acknowledge(c) \/ CloseStream(c) \/ EndStream(c)
      PROVE  MailStep
  BY <1>2, HandoverRefines, WarningRefines, TakeRefines, AcknowledgeRefines, CloseStreamRefines
<1>3. CASE UNCHANGED vars
  <2>1. /\ UNCHANGED <<session, stream, pushed, refused, received, buffer>>
        /\ queue' = queue /\ inflight' = inflight /\ handover' = handover
    BY <1>3 DEF vars, chanVars
  <2>2. \A x \in Items : Held(x)' <=> Held(x)
    BY <2>1, HeldFrame DEF Transit
  <2> QED BY <2>1, <2>2, StatusStays, StutterRefines
<1> QED BY <1>1, <1>2, <1>3, PushRefines, OpenRefines, DropRefines DEF Next

LEMMA InitRefines ==
    Init => MB!MailInit
<1> SUFFICES ASSUME Init PROVE MB!MailInit
  OBVIOUS
<1>1. \A i \in Items : StatusOf(i) = "new"
  BY SinkAssumption DEF Init, StatusOf, Items
<1> QED BY <1>1 DEF Init, MB!MailInit

(***************************************************************************)
(* A ServerSink is a Mailbox: what push_event and push_call accept is      *)
(* received at most once and is lost only by closing a stream or dropping  *)
(* a session, never by the handover of the Vec or a repeated events().     *)
(***************************************************************************)
THEOREM MailboxCorrect == Spec => MailboxSpec
<1>1. Spec => []SinkInv
  BY SinkInvCorrect
<1>2. []SinkInv /\ [][Next]_vars => [][MB!MailNext]_(MB!mailVars)
  BY StepRefines, PTL
<1> QED BY <1>1, <1>2, InitRefines, PTL DEF Spec, MailboxSpec, MB!MailSpec

=============================================================================
