-------------------------- MODULE AppMessagesProofs --------------------------
(***************************************************************************)
(* Proofs about the messages of a call, for any number of links between    *)
(* the applications and whichever of them are cut.                         *)
(***************************************************************************)
EXTENDS AppMessages, SequenceTheorems, TLAPS

-----------------------------------------------------------------------------
(* Parts of a sequence *)

LEMMA SliceEmpty ==
    ASSUME NEW S, NEW s \in Seq(S), NEW e \in Nat, e <= Len(s)
    PROVE  IsSlice(<<>>, e, s)
  BY DEF IsSlice

LEMMA SliceTail ==
    ASSUME NEW S, NEW s \in Seq(S), NEW q \in Seq(S), NEW e \in Nat, IsSlice(q, e, s), q # <<>>
    PROVE  /\ IsSlice(Tail(q), e, s) /\ Len(Tail(q)) = Len(q) - 1 /\ Len(q) \in Nat \ {0}
           /\ Tail(q) \in Seq(S) /\ Head(q) \in S
           /\ e - Len(q) < Len(s) /\ Head(q) = s[(e - Len(q)) + 1]
<1>1. /\ Head(q) \in S /\ Tail(q) \in Seq(S) /\ Len(q) \in Nat \ {0} /\ Len(Tail(q)) = Len(q) - 1
      /\ \A k \in 1..(Len(q) - 1) : Tail(q)[k] = q[k + 1]
  BY HeadTailProperties, EmptySeq
<1>2. e <= Len(s) /\ Len(q) <= e /\ Len(s) \in Nat /\ \A k \in 1..Len(q) : q[k] = s[e - Len(q) + k]
  BY LenProperties DEF IsSlice
<1>3. Head(q) = q[1]
  OBVIOUS
<1>4. Head(q) = s[(e - Len(q)) + 1]
  BY <1>1, <1>2, <1>3
<1>5. ASSUME NEW k \in 1..Len(Tail(q)) PROVE Tail(q)[k] = s[e - Len(Tail(q)) + k]
  <2>1. k \in 1..(Len(q) - 1) /\ k + 1 \in 1..Len(q)
    BY <1>1
  <2>2. Tail(q)[k] = s[e - Len(q) + (k + 1)]
    BY <1>1, <1>2, <2>1
  <2>3. e - Len(q) + (k + 1) = e - Len(Tail(q)) + k
    BY <1>1, <2>1
  <2> QED BY <2>2, <2>3
<1>6. Len(Tail(q)) <= e
  BY <1>1, <1>2
<1>7. IsSlice(Tail(q), e, s)
  BY <1>2, <1>5, <1>6 DEF IsSlice
<1> QED BY <1>1, <1>2, <1>4, <1>7

LEMMA SliceAppend ==
    ASSUME NEW S, NEW s \in Seq(S), NEW q \in Seq(S), NEW e \in Nat, IsSlice(q, e, s),
           e < Len(s), NEW m \in S, m = s[e + 1]
    PROVE  /\ IsSlice(Append(q, m), e + 1, s) /\ Len(Append(q, m)) = Len(q) + 1
           /\ Append(q, m) \in Seq(S)
<1> DEFINE t == Append(q, m)
<1>1. /\ t \in Seq(S) /\ Len(t) = Len(q) + 1 /\ Len(q) \in Nat /\ Len(s) \in Nat
      /\ \A k \in 1..Len(q) : t[k] = q[k]
      /\ t[Len(q) + 1] = m
  BY AppendProperties, LenProperties
<1>2. Len(q) <= e /\ \A k \in 1..Len(q) : q[k] = s[e - Len(q) + k]
  BY DEF IsSlice
<1> HIDE DEF t
<1>3. ASSUME NEW k \in 1..Len(t) PROVE t[k] = s[(e + 1) - Len(t) + k]
  <2>1. (e + 1) - Len(t) + k = e - Len(q) + k
    BY <1>1
  <2>2. CASE k \in 1..Len(q)
    BY <1>1, <1>2, <2>1, <2>2
  <2>3. CASE k = Len(q) + 1
    <3>1. e - Len(q) + k = e + 1
      BY <1>1, <2>3
    <3> QED BY <1>1, <2>1, <2>3, <3>1
  <2> QED BY <1>1, <2>2, <2>3
<1>4. e + 1 <= Len(s) /\ Len(t) <= e + 1
  BY <1>1, <1>2
<1> QED BY <1>1, <1>3, <1>4 DEF IsSlice, t

LEMMA SliceExtends ==
    ASSUME NEW S, NEW s \in Seq(S), NEW q \in Seq(S), NEW e \in Nat, IsSlice(q, e, s), NEW m \in S
    PROVE  IsSlice(q, e, Append(s, m))
<1>1. /\ Append(s, m) \in Seq(S) /\ Len(Append(s, m)) = Len(s) + 1 /\ Len(s) \in Nat /\ Len(q) \in Nat
      /\ \A k \in 1..Len(s) : Append(s, m)[k] = s[k]
  BY AppendProperties, LenProperties
<1>2. e <= Len(s) /\ Len(q) <= e /\ \A k \in 1..Len(q) : q[k] = s[e - Len(q) + k]
  BY DEF IsSlice
<1>3. ASSUME NEW k \in 1..Len(q) PROVE q[k] = Append(s, m)[e - Len(q) + k]
  <2>1. e - Len(q) + k \in 1..Len(s)
    BY <1>1, <1>2
  <2> QED BY <1>1, <1>2, <2>1
<1>4. e <= Len(s) + 1
  BY <1>1, <1>2
<1> QED BY <1>1, <1>2, <1>3, <1>4 DEF IsSlice

(* The part that ends where it is long is the beginning. *)
LEMMA SliceIsPrefix ==
    ASSUME NEW S, NEW s \in Seq(S), NEW q \in Seq(S), IsSlice(q, Len(q), s)
    PROVE  IsPrefix(q, s) /\ (Len(q) = Len(s) => q = s)
<1>1. Len(q) \in Nat /\ Len(s) \in Nat /\ Len(q) <= Len(s)
  BY LenProperties DEF IsSlice
<1>2. \A k \in 1..Len(q) : q[k] = s[k]
  BY <1>1 DEF IsSlice
<1>3. Len(q) = Len(s) => q = s
  BY <1>2, SeqEqual
<1> DEFINE t == SubSeq(q, 1, Len(q))
           u == SubSeq(s, 1, Len(q))
<1>4. /\ t \in Seq(S) /\ Len(t) = IF 1 <= Len(q) THEN Len(q) - 1 + 1 ELSE 0
      /\ \A i \in 1..(Len(q) - 1 + 1) : t[i] = q[1 + i - 1]
  <2>1. \A i \in 1..Len(q) : q[i] \in S
    BY ElementOfSeq
  <2> QED BY <1>1, <2>1, SubSeqProperties
<1>5. /\ u \in Seq(S) /\ Len(u) = IF 1 <= Len(q) THEN Len(q) - 1 + 1 ELSE 0
      /\ \A i \in 1..(Len(q) - 1 + 1) : u[i] = s[1 + i - 1]
  <2>1. \A i \in 1..Len(q) : s[i] \in S
    BY <1>1, ElementOfSeq
  <2> QED BY <1>1, <2>1, SubSeqProperties
<1> HIDE DEF t, u
<1>6. \A k \in 1..Len(q) : k \in 1..(Len(q) - 1 + 1) /\ 1 + k - 1 = k
  BY <1>1
<1>7. Len(t) = Len(q) /\ Len(u) = Len(q)
  BY <1>1, <1>4, <1>5
<1>8. \A k \in 1..Len(q) : t[k] = u[k]
  BY <1>2, <1>4, <1>5, <1>6
<1>9. t = u
  BY <1>4, <1>5, <1>7, <1>8, SeqEqual
<1> QED BY <1>1, <1>3, <1>9 DEF IsPrefix, t, u

-----------------------------------------------------------------------------
(* The chain of channels and links *)

LEMMA ChainShape ==
    /\ 1 \in Channels /\ Final \in Channels /\ Final \notin Links
    /\ \A i \in Links : /\ i \in Channels /\ i + 1 \in Channels /\ i + 1 # i /\ i + 1 # 1
                        /\ i # Final /\ (i + 1 = Final \/ i + 1 \in Links)
    /\ \A i, j \in Links : i + 1 = j + 1 => i = j
    /\ \A c \in Channels : c = 1 \/ \E i \in Links : c = i + 1
    /\ Hops \in Links /\ Final = Hops + 1
<1>1. \A c \in Channels : c # 1 => c - 1 \in Links /\ c = (c - 1) + 1
  BY AppMessagesAssumption DEF Channels, Links
<1> QED BY <1>1, AppMessagesAssumption DEF Channels, Links, Final

LEMMA WireKinds ==
    ASSUME TypeOK, NEW i \in Links
    PROVE  /\ wire[i].kind \in {"nothing", "request", "taken", "done", "failed"}
           /\ wire[i].kind = "request" => wire[i].message \in Messages
           /\ wire[i].kind = "nothing" <=> wire[i] = Nothing
           /\ \A k \in {"taken", "done", "failed"} : wire[i].kind = k <=> wire[i] = Reply(k)
<1>1. wire[i] \in Wires
  BY DEF TypeOK
<1>2. CASE wire[i] = Nothing
  BY <1>2 DEF Nothing, Reply
<1>3. ASSUME NEW m \in Messages, wire[i] = Request(m)
      PROVE  wire[i].kind = "request" /\ wire[i].message = m
  BY <1>3 DEF Request
<1>4. CASE \E m \in Messages : wire[i] = Request(m)
  <2>1. PICK m \in Messages : wire[i] = Request(m)
    BY <1>4
  <2>2. wire[i].kind = "request" /\ wire[i].message = m
    BY <1>3, <2>1
  <2>3. wire[i] # Nothing /\ \A k \in {"taken", "done", "failed"} : wire[i] # Reply(k)
    BY <2>2 DEF Nothing, Reply
  <2> QED BY <2>2, <2>3
<1>5. CASE \E k \in {"taken", "done", "failed"} : wire[i] = Reply(k)
  BY <1>5 DEF Nothing, Reply
<1> QED BY <1>1, <1>2, <1>4, <1>5 DEF Wires

LEMMA Kinds ==
    /\ Nothing.kind = "nothing" /\ \A k : Reply(k).kind = k
    /\ \A m : Request(m).kind = "request" /\ Request(m).message = m
    /\ Nothing \in Wires /\ \A m \in Messages : Request(m) \in Wires
    /\ \A k \in {"taken", "done", "failed"} : Reply(k) \in Wires
  BY DEF Nothing, Reply, Request, Wires

LEMMA Counts ==
    ASSUME TypeOK, NEW n \in [Channels -> 0..MaxMessages], Chain(n)
    PROVE  /\ Len(sent) \in Nat /\ Len(received) \in Nat /\ Len(sent) = n[1] /\ Len(sent) <= MaxMessages
           /\ \A c \in Channels :
                 /\ n[c] \in Nat /\ n[c] <= Len(sent) /\ queue[c] \in Seq(Messages)
                 /\ Len(queue[c]) \in Nat /\ Len(queue[c]) <= n[c]
                 /\ Gone(n, c) \in Nat /\ IsSlice(queue[c], n[c], sent)
<1>1. /\ Len(sent) \in Nat /\ Len(received) \in Nat /\ Len(sent) = n[1] /\ MaxMessages \in Nat
      /\ \A c \in Channels : n[c] \in Nat /\ queue[c] \in Seq(Messages) /\ n[c] \in 0..MaxMessages
  BY LenProperties, AppMessagesAssumption DEF TypeOK, Chain, Slices
<1>2. Len(sent) <= MaxMessages
  BY <1>1, ChainShape
<1>3. \A c \in Channels : Len(queue[c]) \in Nat /\ IsSlice(queue[c], n[c], sent)
  BY <1>1, LenProperties DEF Chain, Slices
<1>4. \A c \in Channels : n[c] <= Len(sent) /\ Len(queue[c]) <= n[c]
  BY <1>3 DEF IsSlice
<1>5. \A c \in Channels : Gone(n, c) \in Nat
  BY <1>1, <1>3, <1>4 DEF Gone
<1> QED BY <1>1, <1>2, <1>3, <1>4, <1>5

-----------------------------------------------------------------------------
(* Every step keeps the invariant *)

LEMMA InitialInv == Init => CallInv
<1> SUFFICES ASSUME Init PROVE CallInv
  OBVIOUS
<1>1. TypeOK
  <2>1. wire \in [Links -> Wires]
    BY Kinds DEF Init
  <2>2. <<>> \in Seq(Messages) /\ queue \in [Channels -> Seq(Messages)]
    BY DEF Init
  <2>3. task \in [Links -> {"waiting", "asking", "ended"}]
    BY DEF Init
  <2> QED BY <2>1, <2>2, <2>3 DEF Init, TypeOK
<1>2. Readers
  BY ChainShape DEF Init, Readers
<1> DEFINE n == [c \in Channels |-> 0]
<1>3. n \in [Channels -> 0..MaxMessages] /\ \A c \in Channels : n[c] = 0
  BY AppMessagesAssumption
<1>4. /\ sent = <<>> /\ received = <<>> /\ Len(sent) = 0 /\ sender = Channels /\ reader = Channels
      /\ \A c \in Channels : queue[c] = <<>> /\ Len(queue[c]) = 0
      /\ \A i \in Links : wire[i].kind = "nothing" /\ task[i] = "waiting"
      /\ endSeen = FALSE
  BY Kinds DEF Init
<1> HIDE DEF n
<1>5. Slices(n)
  BY <1>3, <1>4, ChainShape DEF Slices, IsSlice
<1>6. Passing(n)
  <2>1. \A c \in Channels : Gone(n, c) = 0
    BY <1>3, <1>4 DEF Gone
  <2> QED BY <1>3, <1>4, <2>1, ChainShape DEF Passing
<1>7. Reading(n)
  BY <1>3, <1>4, ChainShape DEF Reading, Gone, IsSlice
<1>8. Endings(n)
  BY <1>4, ChainShape DEF Endings
<1> QED BY <1>1, <1>2, <1>3, <1>5, <1>6, <1>7, <1>8 DEF CallInv, Chain

(* What is known of each part, wherever it is used *)
LEMMA PassingAt ==
    ASSUME NEW n, Passing(n), NEW i \in Links
    PROVE  /\ task[i] = "waiting" => wire[i].kind = "nothing" /\ Gone(n, i) = n[i + 1]
           /\ task[i] = "asking" =>
                 Gone(n, i) = IF wire[i].kind \in {"taken", "done"} THEN n[i + 1] ELSE n[i + 1] + 1
           /\ wire[i].kind = "request" =>
                 n[i + 1] < Len(sent) /\ wire[i].message = sent[n[i + 1] + 1]
  BY DEF Passing

LEMMA EndingsAt ==
    ASSUME NEW n, Endings(n), cut = {}, NEW i \in Links
    PROVE  /\ i + 1 \notin sender => task[i] = "ended"
           /\ call # "over" => wire[i].kind # "failed"
           /\ call # "over" /\ task[i] = "ended" =>
                 1 \notin sender /\ i \notin sender /\ n[i + 1] = Len(sent) /\ wire[i].kind = "nothing"
  BY DEF Endings

(* Without a change of the channels, only the links count. *)
LEMMA ChannelsStay ==
    ASSUME NEW n, Slices(n), UNCHANGED <<queue, reader, sent>>
    PROVE  Slices(n)' /\ \A c : Gone(n, c)' = Gone(n, c)
  BY DEF Slices, Gone

LEMMA ReadingStays ==
    ASSUME NEW n, Reading(n), UNCHANGED <<queue, sent, received>>, call' # "over" => call # "over"
    PROVE  Reading(n)'
  BY DEF Reading, Gone

LEMMA EndingsStay ==
    ASSUME NEW n, Endings(n), UNCHANGED <<sender, cut, call, sent, received, endSeen>>,
           queue'[Final] = queue[Final],
           \A j \in Links : (wire'[j].kind = "failed" => wire[j].kind = "failed"),
           \A j \in Links : (task'[j] = "ended" <=> task[j] = "ended"),
           \A j \in Links : (task[j] = "ended" /\ wire[j].kind = "nothing" => wire'[j].kind = "nothing")
    PROVE  Endings(n)'
<1>1. ASSUME cut = {}, NEW i \in Links PROVE i + 1 \notin sender => task'[i] = "ended"
  BY <1>1, EndingsAt
<1>2. ASSUME cut = {}, call # "over", NEW i \in Links
      PROVE  /\ wire'[i].kind # "failed"
             /\ task'[i] = "ended" =>
                   1 \notin sender /\ i \notin sender /\ n[i + 1] = Len(sent) /\ wire'[i].kind = "nothing"
  BY <1>2, EndingsAt
<1>3. /\ endSeen => Final \notin sender /\ queue'[Final] = <<>>
      /\ endSeen /\ cut = {} => 1 \notin sender /\ received = sent
  BY DEF Endings
<1> QED BY <1>1, <1>2, <1>3 DEF Endings

LEMMA AppSendKeeps ==
    ASSUME CallInv, NEW m \in Messages, AppSend(m) PROVE CallInv'
<1>1. PICK n \in [Channels -> 0..MaxMessages] : Chain(n)
  BY DEF CallInv
<1>2. TypeOK /\ Readers /\ Slices(n) /\ Passing(n) /\ Reading(n) /\ Endings(n)
  BY <1>1 DEF CallInv, Chain
<1> DEFINE p == [n EXCEPT ![1] = n[1] + 1]
<1>3. /\ 1 \in sender /\ 1 \in reader /\ Len(sent) < MaxMessages
      /\ queue' = [queue EXCEPT ![1] = Append(queue[1], m)]
      /\ sent' = Append(sent, m)
      /\ UNCHANGED <<sender, reader, task, wire, cut, call, received, endSeen>>
  BY DEF AppSend, Accepted
<1>4. /\ sent \in Seq(Messages) /\ sent' \in Seq(Messages) /\ Len(sent') = Len(sent) + 1
      /\ \A k \in 1..Len(sent) : sent'[k] = sent[k]
      /\ sent'[Len(sent) + 1] = m /\ Len(sent) \in Nat
  BY <1>2, <1>3, AppendProperties, LenProperties DEF TypeOK
<1>5. /\ p \in [Channels -> 0..MaxMessages] /\ p[1] = Len(sent) + 1 /\ n[1] = Len(sent)
      /\ \A c \in Channels : c # 1 => p[c] = n[c]
  <2>1. n[1] = Len(sent) /\ Len(sent) + 1 \in 0..MaxMessages /\ 1 \in Channels
    BY <1>2, <1>3, <1>4, ChainShape, AppMessagesAssumption DEF Slices
  <2> QED BY <1>1, <2>1
<1>6. /\ queue \in [Channels -> Seq(Messages)] /\ queue[1] \in Seq(Messages)
      /\ queue'[1] = Append(queue[1], m)
      /\ \A c \in Channels : c # 1 => queue'[c] = queue[c]
  BY <1>2, <1>3, ChainShape DEF TypeOK
<1> HIDE DEF p
<1>7. \A c \in Channels : IsSlice(queue[c], n[c], sent')
  BY <1>1, <1>2, <1>3, <1>4, Counts, SliceExtends
<1>8. /\ IsSlice(queue'[1], p[1], sent') /\ Len(queue'[1]) = Len(queue[1]) + 1
      /\ queue'[1] \in Seq(Messages)
  <2>1. IsSlice(queue[1], Len(sent), sent')
    BY <1>5, <1>7, ChainShape
  <2>2. Len(sent) < Len(sent') /\ m = sent'[Len(sent) + 1]
    BY <1>4
  <2>3. /\ IsSlice(Append(queue[1], m), Len(sent) + 1, sent')
        /\ Len(Append(queue[1], m)) = Len(queue[1]) + 1 /\ Append(queue[1], m) \in Seq(Messages)
    <3>1. sent' \in Seq(Messages) /\ queue[1] \in Seq(Messages) /\ Len(sent) \in Nat
      BY <1>4, <1>6
    <3> QED BY <2>1, <2>2, <3>1, SliceAppend
  <2> QED BY <1>5, <1>6, <2>3
<1>9. TypeOK'
  <2>1. queue' \in [Channels -> Seq(Messages)]
    BY <1>3, <1>6, <1>8
  <2> QED BY <1>2, <1>3, <1>4, <2>1 DEF TypeOK
<1>10. Slices(p)'
  <2>1. \A c \in Channels : IsSlice(queue'[c], p[c], sent')
    BY <1>5, <1>6, <1>7, <1>8
  <2>2. \A c \in Channels \ reader' : queue'[c] = <<>>
    BY <1>2, <1>3, <1>6 DEF Slices
  <2> QED BY <1>4, <1>5, <2>1, <2>2 DEF Slices
<1>11. \A c \in Channels : Gone(p, c)' = Gone(n, c)
  <2>1. Gone(p, 1)' = Gone(n, 1)
    <3>1. Len(queue[1]) \in Nat
      BY <1>6, LenProperties
    <3> QED BY <1>4, <1>5, <1>8, <3>1 DEF Gone
  <2> QED BY <1>5, <1>6, <2>1 DEF Gone
<1>12. Passing(p)'
  <2> SUFFICES ASSUME NEW i \in Links
               PROVE  /\ task[i] = "waiting" => wire[i].kind = "nothing" /\ Gone(n, i) = n[i + 1]
                      /\ task[i] = "asking" =>
                            Gone(n, i) = IF wire[i].kind \in {"taken", "done"} THEN n[i + 1] ELSE n[i + 1] + 1
                      /\ wire[i].kind = "request" =>
                            n[i + 1] < Len(sent') /\ wire[i].message = sent'[n[i + 1] + 1]
    <3>1. \A i \in Links : Gone(p, i)' = Gone(n, i) /\ p[i + 1] = n[i + 1]
      BY <1>5, <1>11, ChainShape
    <3>2. task' = task /\ wire' = wire
      BY <1>3
    <3> QED BY <3>1, <3>2 DEF Passing
  <2>1. i + 1 \in Channels /\ n[i + 1] \in Nat
    BY <1>1, <1>2, ChainShape, Counts
  <2>2. ASSUME wire[i].kind = "request"
        PROVE  n[i + 1] < Len(sent') /\ wire[i].message = sent'[n[i + 1] + 1]
    <3>1. n[i + 1] < Len(sent) /\ wire[i].message = sent[n[i + 1] + 1]
      BY <1>2, <2>2, PassingAt
    <3>2. n[i + 1] + 1 \in 1..Len(sent)
      BY <1>4, <2>1, <3>1
    <3> QED BY <1>4, <2>1, <3>1, <3>2
  <2> QED BY <1>2, <2>2, PassingAt
<1>13. Reading(p)'
  <2>1. IsSlice(received, Len(received), sent')
    <3>1. received \in Seq(Messages) /\ Len(received) \in Nat /\ IsSlice(received, Len(received), sent)
      BY <1>2, LenProperties DEF Reading, TypeOK
    <3> QED BY <1>3, <1>4, <3>1, SliceExtends
  <2> QED BY <1>2, <1>3, <1>11, <2>1, ChainShape DEF Reading
<1>14. Endings(p)'
  <2>1. queue'[Final] = queue[Final]
    BY <1>6, ChainShape
  <2>2. cut = {} /\ call # "over" => \A i \in Links : wire[i].kind # "failed" /\ task[i] # "ended"
    BY <1>2, <1>3, EndingsAt
  <2>3. /\ cut = {} => \A i \in Links : i + 1 \notin sender => task[i] = "ended"
        /\ endSeen => Final \notin sender /\ queue[Final] = <<>> /\ cut # {}
    BY <1>2, <1>3 DEF Endings
  <2> QED BY <1>3, <2>1, <2>2, <2>3 DEF Endings
<1>15. Readers'
  BY <1>2, <1>3 DEF Readers
<1> QED BY <1>5, <1>9, <1>10, <1>12, <1>13, <1>14, <1>15 DEF CallInv, Chain

LEMMA AppClosesKeeps ==
    ASSUME CallInv, AppCloses PROVE CallInv'
<1>1. PICK n \in [Channels -> 0..MaxMessages] : Chain(n)
  BY DEF CallInv
<1>2. TypeOK /\ Readers /\ Slices(n) /\ Passing(n) /\ Reading(n) /\ Endings(n)
  BY <1>1 DEF CallInv, Chain
<1>3. /\ sender' = sender \ {1}
      /\ UNCHANGED <<queue, reader, task, wire, cut, call, sent, received, endSeen>>
  BY DEF AppCloses, appVars
<1>4. TypeOK' /\ Readers'
  BY <1>2, <1>3 DEF TypeOK, Readers
<1>5. Slices(n)' /\ Passing(n)' /\ Reading(n)'
  BY <1>2, <1>3, ChannelsStay, ReadingStays DEF Passing
<1>6. Endings(n)'
  <2>1. \A i \in Links : i + 1 # 1
    BY ChainShape
  <2> QED BY <1>2, <1>3, <2>1 DEF Endings
<1> QED BY <1>4, <1>5, <1>6 DEF CallInv, Chain

LEMMA TaskAsksKeeps ==
    ASSUME CallInv, NEW i \in Links, TaskAsks(i) PROVE CallInv'
<1>1. PICK n \in [Channels -> 0..MaxMessages] : Chain(n)
  BY DEF CallInv
<1>2. TypeOK /\ Readers /\ Slices(n) /\ Passing(n) /\ Reading(n) /\ Endings(n)
  BY <1>1 DEF CallInv, Chain
<1> DEFINE q == queue[i]
<1>3. /\ task[i] = "waiting" /\ q # <<>>
      /\ task' = [task EXCEPT ![i] = "asking"]
      /\ wire' = [wire EXCEPT ![i] = IF i \in cut THEN Nothing ELSE Request(Head(q))]
      /\ queue' = [queue EXCEPT ![i] = Tail(q)]
      /\ UNCHANGED <<sender, reader, cut, call, sent, received, endSeen>>
  BY DEF TaskAsks, appVars
<1>4. /\ IsSlice(Tail(q), n[i], sent) /\ Len(Tail(q)) = Len(q) - 1 /\ Len(q) \in Nat \ {0}
      /\ Tail(q) \in Seq(Messages) /\ Head(q) \in Messages
      /\ n[i] - Len(q) < Len(sent) /\ Head(q) = sent[(n[i] - Len(q)) + 1]
  <2>1. sent \in Seq(Messages) /\ q \in Seq(Messages) /\ n[i] \in Nat /\ IsSlice(q, n[i], sent)
    BY <1>1, <1>2, ChainShape, Counts DEF TypeOK
  <2> QED BY <1>3, <2>1, SliceTail
<1>5. /\ queue'[i] = Tail(q) /\ \A c \in Channels : c # i => queue'[c] = queue[c]
      /\ queue' \in [Channels -> Seq(Messages)]
  BY <1>2, <1>3, <1>4, ChainShape DEF TypeOK
<1>6. /\ task' \in [Links -> {"waiting", "asking", "ended"}] /\ task'[i] = "asking"
      /\ \A j \in Links : j # i => task'[j] = task[j]
  BY <1>2, <1>3 DEF TypeOK
<1>7. /\ wire' \in [Links -> Wires] /\ wire'[i] \in {Nothing, Request(Head(q))}
      /\ \A j \in Links : j # i => wire'[j] = wire[j]
  BY <1>2, <1>3, <1>4, Kinds DEF TypeOK
<1>8. wire'[i].kind \in {"nothing", "request"} /\ (wire'[i].kind = "request" => wire'[i].message = Head(q))
  BY <1>7, Kinds
<1> HIDE DEF q
<1>9. TypeOK' /\ Readers'
  <2>1. Readers'
    BY <1>2, <1>3, <1>6 DEF Readers
  <2> QED BY <1>2, <1>3, <1>5, <1>6, <1>7, <2>1 DEF TypeOK
<1>10. Slices(n)'
  <2>1. i \in reader
    BY <1>2, <1>3 DEF Readers
  <2> QED BY <1>2, <1>3, <1>4, <1>5, <2>1 DEF Slices
<1>11. Gone(n, i) = n[i + 1] /\ n[i + 1] \in Nat
  BY <1>1, <1>2, <1>3, ChainShape, Counts, PassingAt
<1>12. Gone(n, i)' = Gone(n, i) + 1 /\ \A c \in Channels : c # i => Gone(n, c)' = Gone(n, c)
  <2>1. n[i] \in Nat
    BY <1>1, <1>2, ChainShape, Counts
  <2> QED BY <1>4, <1>5, <2>1 DEF Gone, q
<1>13. Passing(n)'
  <2> SUFFICES ASSUME NEW j \in Links
               PROVE  /\ task'[j] = "waiting" => wire'[j].kind = "nothing" /\ Gone(n, j)' = n[j + 1]
                      /\ task'[j] = "asking" =>
                            Gone(n, j)' = IF wire'[j].kind \in {"taken", "done"} THEN n[j + 1] ELSE n[j + 1] + 1
                      /\ wire'[j].kind = "request" =>
                            n[j + 1] < Len(sent) /\ wire'[j].message = sent[n[j + 1] + 1]
    BY <1>3 DEF Passing
  <2>1. CASE j = i
    <3>1. Gone(n, i) < Len(sent) /\ Head(q) = sent[Gone(n, i) + 1]
      BY <1>4 DEF Gone, q
    <3>2. wire'[i].kind \notin {"taken", "done"}
      BY <1>8
    <3> QED BY <1>6, <1>8, <1>11, <1>12, <2>1, <3>1, <3>2
  <2>2. CASE j # i
    <3>1. task'[j] = task[j] /\ wire'[j] = wire[j] /\ Gone(n, j)' = Gone(n, j)
      BY <1>6, <1>7, <1>12, <2>2, ChainShape
    <3> QED BY <1>2, <3>1, PassingAt
  <2> QED BY <2>1, <2>2
<1>14. Reading(n)'
  BY <1>2, <1>3, <1>12, ChainShape DEF Reading
<1>15. Endings(n)'
  <2>1. queue'[Final] = queue[Final]
    BY <1>5, ChainShape
  <2>2. ASSUME NEW j \in Links
        PROVE  /\ wire'[j].kind = "failed" => wire[j].kind = "failed"
               /\ (task'[j] = "ended" <=> task[j] = "ended")
               /\ task[j] = "ended" /\ wire[j].kind = "nothing" => wire'[j].kind = "nothing"
    <3>1. CASE j = i
      BY <1>3, <1>6, <1>8, <3>1
    <3>2. CASE j # i
      BY <1>6, <1>7, <3>2
    <3> QED BY <3>1, <3>2
  <2> QED BY <1>2, <1>3, <2>1, <2>2, EndingsStay
<1> QED BY <1>9, <1>10, <1>13, <1>14, <1>15 DEF CallInv, Chain

LEMMA TaskGoesOnKeeps ==
    ASSUME CallInv, NEW i \in Links, TaskGoesOn(i) PROVE CallInv'
<1>1. PICK n \in [Channels -> 0..MaxMessages] : Chain(n)
  BY DEF CallInv
<1>2. TypeOK /\ Readers /\ Slices(n) /\ Passing(n) /\ Reading(n) /\ Endings(n)
  BY <1>1 DEF CallInv, Chain
<1>3. /\ task[i] = "asking" /\ wire[i].kind = "done"
      /\ task' = [task EXCEPT ![i] = "waiting"] /\ wire' = [wire EXCEPT ![i] = Nothing]
      /\ UNCHANGED <<queue, sender, reader, cut, call, sent, received, endSeen>>
  BY Kinds DEF TaskGoesOn, appVars
<1>4. /\ task' \in [Links -> {"waiting", "asking", "ended"}] /\ task'[i] = "waiting"
      /\ \A j \in Links : j # i => task'[j] = task[j]
  BY <1>2, <1>3 DEF TypeOK
<1>5. /\ wire' \in [Links -> Wires] /\ wire'[i].kind = "nothing"
      /\ \A j \in Links : j # i => wire'[j] = wire[j]
  BY <1>2, <1>3, Kinds DEF TypeOK
<1>6. TypeOK' /\ Readers'
  <2>1. Readers'
    BY <1>2, <1>3, <1>4 DEF Readers
  <2> QED BY <1>2, <1>3, <1>4, <1>5, <2>1 DEF TypeOK
<1>7. Slices(n)' /\ Reading(n)' /\ \A c : Gone(n, c)' = Gone(n, c)
  BY <1>2, <1>3, ChannelsStay, ReadingStays
<1>8. Passing(n)'
  <2>1. ASSUME NEW j \in Links
        PROVE  /\ task'[j] = "waiting" => wire'[j].kind = "nothing" /\ Gone(n, j) = n[j + 1]
               /\ task'[j] = "asking" =>
                     Gone(n, j) = IF wire'[j].kind \in {"taken", "done"} THEN n[j + 1] ELSE n[j + 1] + 1
               /\ wire'[j].kind = "request" =>
                     n[j + 1] < Len(sent) /\ wire'[j].message = sent[n[j + 1] + 1]
    <3>1. CASE j = i
      BY <1>2, <1>3, <1>4, <1>5, <3>1, PassingAt
    <3>2. CASE j # i
      BY <1>2, <1>4, <1>5, <3>2, PassingAt
    <3> QED BY <3>1, <3>2
  <2> QED BY <1>3, <1>7, <2>1 DEF Passing
<1>9. Endings(n)'
  <2>1. ASSUME NEW j \in Links
        PROVE  /\ wire'[j].kind = "failed" => wire[j].kind = "failed"
               /\ (task'[j] = "ended" <=> task[j] = "ended")
               /\ task[j] = "ended" /\ wire[j].kind = "nothing" => wire'[j].kind = "nothing"
    <3>1. CASE j = i
      BY <1>3, <1>4, <1>5, <3>1
    <3>2. CASE j # i
      BY <1>4, <1>5, <3>2
    <3> QED BY <3>1, <3>2
  <2> QED BY <1>2, <1>3, <2>1, EndingsStay
<1> QED BY <1>6, <1>7, <1>8, <1>9 DEF CallInv, Chain

(* A channel whose receiver goes is empty. *)
LEMMA Dropping ==
    ASSUME TypeOK, NEW n \in [Channels -> 0..MaxMessages], Chain(n), NEW c \in Channels,
           DropReader(c), UNCHANGED sent
    PROVE  /\ queue' \in [Channels -> Seq(Messages)] /\ reader' \subseteq Channels
           /\ Slices(n)' /\ queue'[c] = <<>>
           /\ \A d \in Channels : d # c => queue'[d] = queue[d] /\ Gone(n, d)' = Gone(n, d)
<1>1. /\ reader' = reader \ {c} /\ queue' = [queue EXCEPT ![c] = <<>>]
      /\ queue \in [Channels -> Seq(Messages)] /\ <<>> \in Seq(Messages) /\ sent \in Seq(Messages)
      /\ reader \subseteq Channels
  BY DEF DropReader, TypeOK
<1>2. /\ queue' \in [Channels -> Seq(Messages)] /\ queue'[c] = <<>>
      /\ \A d \in Channels : d # c => queue'[d] = queue[d]
  BY <1>1
<1>3. IsSlice(<<>>, n[c], sent)
  <2>1. n[c] \in Nat /\ n[c] <= Len(sent)
    BY Counts
  <2> QED BY <1>1, <2>1, SliceEmpty
<1>4. Slices(n)
  BY DEF Chain
<1>5. Slices(n)'
  BY <1>1, <1>2, <1>3, <1>4 DEF Slices
<1>6. \A d \in Channels : d # c => Gone(n, d)' = Gone(n, d)
  BY <1>2 DEF Gone
<1> QED BY <1>1, <1>2, <1>5, <1>6

(* The task i ends, when there is nothing left or when it failed. *)
LEMMA TaskEndKeeps ==
    ASSUME CallInv, NEW i \in Links, DropReader(i), task' = [task EXCEPT ![i] = "ended"],
           UNCHANGED <<sender, wire, cut, call, sent, received, endSeen>>,
           \/ task[i] = "asking" /\ (wire[i].kind = "failed" \/ i \in cut)
           \/ task[i] = "waiting" /\ i \notin sender /\ queue[i] = <<>>
    PROVE  CallInv'
<1>1. PICK n \in [Channels -> 0..MaxMessages] : Chain(n)
  BY DEF CallInv
<1>2. TypeOK /\ Readers /\ Slices(n) /\ Passing(n) /\ Reading(n) /\ Endings(n)
  BY <1>1 DEF CallInv, Chain
<1>3. /\ queue' \in [Channels -> Seq(Messages)] /\ reader' \subseteq Channels
      /\ Slices(n)' /\ queue'[i] = <<>>
      /\ \A d \in Channels : d # i => queue'[d] = queue[d] /\ Gone(n, d)' = Gone(n, d)
  BY <1>1, <1>2, ChainShape, Dropping
<1>4. /\ task' \in [Links -> {"waiting", "asking", "ended"}] /\ task'[i] = "ended"
      /\ \A j \in Links : j # i => task'[j] = task[j]
  BY <1>2 DEF TypeOK
<1>5. TypeOK' /\ Readers'
  <2>1. Readers'
    <3>1. reader' = reader \ {i}
      BY DEF DropReader
    <3> QED BY <1>2, <1>4, <3>1, ChainShape DEF Readers
  <2> QED BY <1>2, <1>3, <1>4, <2>1 DEF TypeOK
<1>6. Passing(n)'
  <2>1. ASSUME NEW j \in Links
        PROVE  /\ task'[j] = "waiting" => wire[j].kind = "nothing" /\ Gone(n, j)' = n[j + 1]
               /\ task'[j] = "asking" =>
                     Gone(n, j)' = IF wire[j].kind \in {"taken", "done"} THEN n[j + 1] ELSE n[j + 1] + 1
               /\ wire[j].kind = "request" =>
                     n[j + 1] < Len(sent) /\ wire[j].message = sent[n[j + 1] + 1]
    <3>1. CASE j = i
      BY <1>2, <1>4, <3>1, PassingAt
    <3>2. CASE j # i
      <4>1. task'[j] = task[j] /\ Gone(n, j)' = Gone(n, j)
        BY <1>3, <1>4, <3>2, ChainShape
      <4> QED BY <1>2, <4>1, PassingAt
    <3> QED BY <3>1, <3>2
  <2> QED BY <2>1 DEF Passing
<1>7. queue'[Final] = queue[Final] /\ Gone(n, Final)' = Gone(n, Final)
  BY <1>3, ChainShape
<1>8. Reading(n)'
  BY <1>2, <1>7 DEF Reading
<1>9. ASSUME cut = {}, call # "over"
      PROVE  1 \notin sender /\ i \notin sender /\ n[i + 1] = Len(sent) /\ wire[i].kind = "nothing"
  <2>1. task[i] = "waiting" /\ i \notin sender /\ queue[i] = <<>>
    BY <1>2, <1>9, EndingsAt
  <2>2. wire[i].kind = "nothing" /\ n[i + 1] = n[i]
    <3>1. wire[i].kind = "nothing" /\ Gone(n, i) = n[i + 1]
      BY <1>2, <2>1, PassingAt
    <3>2. n[i] \in Nat /\ Len(queue[i]) = 0
      BY <1>1, <1>2, <2>1, ChainShape, Counts
    <3> QED BY <3>1, <3>2 DEF Gone
  <2>3. CASE i = 1
    BY <1>2, <2>1, <2>2, <2>3 DEF Slices
  <2>4. CASE i # 1
    <3>1. PICK j \in Links : i = j + 1
      BY <2>4, ChainShape
    <3>2. 1 \notin sender /\ n[j + 1] = Len(sent)
      BY <1>2, <1>9, <2>1, <3>1, EndingsAt
    <3> QED BY <2>1, <2>2, <3>1, <3>2
  <2> QED BY <2>3, <2>4
<1>10. Endings(n)'
  <2>1. ASSUME cut = {} PROVE \A j \in Links : j + 1 \notin sender => task'[j] = "ended"
    BY <1>2, <1>4, <2>1, EndingsAt
  <2>2. ASSUME cut = {}, call # "over", NEW j \in Links
        PROVE  /\ wire[j].kind # "failed"
               /\ task'[j] = "ended" =>
                     1 \notin sender /\ j \notin sender /\ n[j + 1] = Len(sent) /\ wire[j].kind = "nothing"
    BY <1>2, <1>4, <1>9, <2>2, EndingsAt
  <2>3. /\ endSeen => Final \notin sender /\ queue'[Final] = <<>>
        /\ endSeen /\ cut = {} => 1 \notin sender /\ received = sent
    BY <1>2, <1>7 DEF Endings
  <2> QED BY <2>1, <2>2, <2>3 DEF Endings
<1> QED BY <1>3, <1>5, <1>6, <1>8, <1>10 DEF CallInv, Chain

LEMMA TaskStops ==
    ASSUME CallInv, NEW i \in Links, TaskFails(i) \/ TaskEnds(i) PROVE CallInv'
<1>1. /\ DropReader(i) /\ task' = [task EXCEPT ![i] = "ended"]
      /\ UNCHANGED <<sender, wire, cut, call, sent, received, endSeen>>
  BY DEF TaskFails, TaskEnds, appVars
<1>2. \/ task[i] = "asking" /\ (wire[i].kind = "failed" \/ i \in cut)
      \/ task[i] = "waiting" /\ i \notin sender /\ queue[i] = <<>>
  BY Kinds DEF TaskFails, TaskEnds, Finished
<1> QED BY <1>1, <1>2, TaskEndKeeps

(* The dispatcher at the end of link i puts the message into its channel. *)
LEMMA DispatchKeeps ==
    ASSUME CallInv, NEW i \in Links, Dispatch(i), i + 1 \in reader PROVE CallInv'
<1>1. PICK n \in [Channels -> 0..MaxMessages] : Chain(n)
  BY DEF CallInv
<1>2. TypeOK /\ Readers /\ Slices(n) /\ Passing(n) /\ Reading(n) /\ Endings(n)
  BY <1>1 DEF CallInv, Chain
<1> DEFINE c == i + 1
           m == wire[i].message
           p == [n EXCEPT ![c] = n[c] + 1]
<1>3. /\ wire[i].kind = "request" /\ c \in sender
      /\ queue' = [queue EXCEPT ![c] = Append(queue[c], m)]
      /\ wire' = [wire EXCEPT ![i] = Reply("taken")]
      /\ UNCHANGED <<sender, reader, task, cut, call, sent, received, endSeen>>
  BY DEF Dispatch, Takes, Accepted, appVars
<1>4. /\ n[c] < Len(sent) /\ m = sent[n[c] + 1] /\ m \in Messages /\ c \in Channels
      /\ c # 1 /\ c # i
  BY <1>2, <1>3, ChainShape, PassingAt, WireKinds
<1>5. /\ sent \in Seq(Messages) /\ queue[c] \in Seq(Messages) /\ n[c] \in Nat /\ Len(queue[c]) \in Nat
      /\ IsSlice(queue[c], n[c], sent) /\ Len(sent) \in Nat /\ Len(sent) <= MaxMessages
      /\ n \in [Channels -> 0..MaxMessages] /\ MaxMessages \in Nat
  BY <1>1, <1>2, <1>4, Counts, AppMessagesAssumption DEF TypeOK
<1>6. /\ queue \in [Channels -> Seq(Messages)] /\ wire \in [Links -> Wires]
  BY <1>2 DEF TypeOK
<1> HIDE DEF c, m
<1>7. /\ p \in [Channels -> 0..MaxMessages] /\ p[c] = n[c] + 1
      /\ \A d \in Channels : d # c => p[d] = n[d]
  BY <1>4, <1>5
<1>8. /\ IsSlice(Append(queue[c], m), n[c] + 1, sent)
      /\ Len(Append(queue[c], m)) = Len(queue[c]) + 1 /\ Append(queue[c], m) \in Seq(Messages)
  BY <1>4, <1>5, SliceAppend
<1>9. /\ queue' \in [Channels -> Seq(Messages)] /\ queue'[c] = Append(queue[c], m)
      /\ \A d \in Channels : d # c => queue'[d] = queue[d]
  BY <1>3, <1>4, <1>6, <1>8
<1>10. /\ wire' \in [Links -> Wires] /\ wire'[i].kind = "taken"
       /\ \A j \in Links : j # i => wire'[j] = wire[j]
  BY <1>3, <1>6, Kinds
<1> HIDE DEF p
<1>11. TypeOK' /\ Readers'
  BY <1>2, <1>3, <1>9, <1>10 DEF TypeOK, Readers
<1>12. \A d \in Channels : Gone(p, d)' = Gone(n, d)
  <2>1. Gone(p, c)' = Gone(n, c)
    <3>1. Len(queue'[c]) = Len(queue[c]) + 1 /\ p[c] = n[c] + 1
      BY <1>7, <1>8, <1>9
    <3>2. n[c] \in Nat /\ Len(queue[c]) \in Nat
      BY <1>5
    <3> QED BY <3>1, <3>2 DEF Gone
  <2> QED BY <1>7, <1>9, <2>1 DEF Gone
<1>13. Slices(p)'
  <2>1. p[1] = Len(sent)
    BY <1>2, <1>4, <1>7, ChainShape DEF Slices
  <2>2. \A d \in Channels : IsSlice(queue'[d], p[d], sent)
    BY <1>2, <1>7, <1>8, <1>9 DEF Slices
  <2>3. \A d \in Channels \ reader : queue'[d] = <<>>
    BY <1>2, <1>9 DEF Slices, c
  <2> QED BY <1>3, <2>1, <2>2, <2>3 DEF Slices
<1>14. Passing(p)'
  <2>1. ASSUME NEW j \in Links
        PROVE  /\ task[j] = "waiting" => wire'[j].kind = "nothing" /\ Gone(n, j) = p[j + 1]
               /\ task[j] = "asking" =>
                     Gone(n, j) = IF wire'[j].kind \in {"taken", "done"} THEN p[j + 1] ELSE p[j + 1] + 1
               /\ wire'[j].kind = "request" =>
                     p[j + 1] < Len(sent) /\ wire'[j].message = sent[p[j + 1] + 1]
    <3>1. CASE j = i
      <4>1. p[i + 1] = n[i + 1] + 1
        BY <1>7 DEF c
      <4> QED BY <1>2, <1>3, <1>10, <3>1, <4>1, PassingAt
    <3>2. CASE j # i
      <4>1. wire'[j] = wire[j] /\ p[j + 1] = n[j + 1]
        BY <1>7, <1>10, <3>2, ChainShape DEF c
      <4> QED BY <1>2, <4>1, PassingAt
    <3> QED BY <3>1, <3>2
  <2>2. \A j \in Links : Gone(p, j)' = Gone(n, j)
    BY <1>12, ChainShape
  <2> QED BY <1>3, <2>1, <2>2 DEF Passing
<1>15. Reading(p)'
  BY <1>2, <1>3, <1>12, ChainShape DEF Reading
<1>16. Endings(p)'
  <2>1. ASSUME cut = {} PROVE \A j \in Links : j + 1 \notin sender => task[j] = "ended"
    BY <1>2, <2>1, EndingsAt
  <2>2. ASSUME cut = {}, call # "over", NEW j \in Links
        PROVE  /\ wire'[j].kind # "failed"
               /\ task[j] = "ended" =>
                     1 \notin sender /\ j \notin sender /\ p[j + 1] = Len(sent) /\ wire'[j].kind = "nothing"
    <3>1. CASE j = i
      BY <1>2, <1>3, <1>10, <2>2, <3>1, EndingsAt
    <3>2. CASE j # i
      <4>1. wire'[j] = wire[j] /\ p[j + 1] = n[j + 1]
        BY <1>7, <1>10, <3>2, ChainShape DEF c
      <4> QED BY <1>2, <2>2, <4>1, EndingsAt
    <3> QED BY <3>1, <3>2
  <2>3. /\ endSeen => Final \notin sender /\ queue'[Final] = <<>>
        /\ endSeen /\ cut = {} => 1 \notin sender /\ received = sent
    BY <1>2, <1>3, <1>9, ChainShape DEF Endings
  <2> QED BY <1>3, <2>1, <2>2, <2>3 DEF Endings
<1> QED BY <1>7, <1>11, <1>13, <1>14, <1>15, <1>16 DEF CallInv, Chain

(* The reply on link i changes, but nothing is passed on. *)
LEMMA ReplyKeeps ==
    ASSUME CallInv, NEW i \in Links, NEW k \in {"done", "failed"}, wire' = [wire EXCEPT ![i] = Reply(k)],
           UNCHANGED <<queue, sender, reader, task, cut, call, sent, received, endSeen>>,
           wire[i].kind = (IF k = "done" THEN "taken" ELSE "request"),
           k = "failed" => i + 1 \in sender /\ i + 1 \notin reader
    PROVE  CallInv'
<1>1. PICK n \in [Channels -> 0..MaxMessages] : Chain(n)
  BY DEF CallInv
<1>2. TypeOK /\ Readers /\ Slices(n) /\ Passing(n) /\ Reading(n) /\ Endings(n)
  BY <1>1 DEF CallInv, Chain
<1>3. /\ wire' \in [Links -> Wires] /\ wire'[i].kind = k
      /\ \A j \in Links : j # i => wire'[j] = wire[j]
  BY <1>2, Kinds DEF TypeOK
<1>4. TypeOK' /\ Readers'
  BY <1>2, <1>3 DEF TypeOK, Readers
<1>5. Slices(n)' /\ Reading(n)' /\ \A c : Gone(n, c)' = Gone(n, c)
  BY <1>2, ChannelsStay, ReadingStays
<1>6. Passing(n)'
  <2>1. ASSUME NEW j \in Links
        PROVE  /\ task[j] = "waiting" => wire'[j].kind = "nothing" /\ Gone(n, j) = n[j + 1]
               /\ task[j] = "asking" =>
                     Gone(n, j) = IF wire'[j].kind \in {"taken", "done"} THEN n[j + 1] ELSE n[j + 1] + 1
               /\ wire'[j].kind = "request" =>
                     n[j + 1] < Len(sent) /\ wire'[j].message = sent[n[j + 1] + 1]
    <3>1. CASE j = i
      BY <1>2, <1>3, <3>1, PassingAt
    <3>2. CASE j # i
      BY <1>2, <1>3, <3>2, PassingAt
    <3> QED BY <3>1, <3>2
  <2> QED BY <1>5, <2>1 DEF Passing
<1>7. ASSUME cut = {}, call # "over" PROVE k # "failed"
  <2> SUFFICES ASSUME k = "failed" PROVE FALSE
    OBVIOUS
  <2>1. i + 1 # Final
    BY <1>2, <1>7 DEF Readers
  <2>2. i + 1 \in Links /\ task[i + 1] = "ended"
    BY <1>2, <2>1, ChainShape DEF Readers
  <2> QED BY <1>2, <1>7, <2>2, EndingsAt
<1>8. Endings(n)'
  <2>1. ASSUME cut = {} PROVE \A j \in Links : j + 1 \notin sender => task[j] = "ended"
    BY <1>2, <2>1, EndingsAt
  <2>2. ASSUME cut = {}, call # "over", NEW j \in Links
        PROVE  /\ wire'[j].kind # "failed"
               /\ task[j] = "ended" =>
                     1 \notin sender /\ j \notin sender /\ n[j + 1] = Len(sent) /\ wire'[j].kind = "nothing"
    <3>1. CASE j = i
      BY <1>2, <1>3, <1>7, <2>2, <3>1, EndingsAt
    <3>2. CASE j # i
      BY <1>2, <1>3, <2>2, <3>2, EndingsAt
    <3> QED BY <3>1, <3>2
  <2>3. /\ endSeen => Final \notin sender /\ queue[Final] = <<>>
        /\ endSeen /\ cut = {} => 1 \notin sender /\ received = sent
    BY <1>2 DEF Endings
  <2> QED BY <2>1, <2>2, <2>3 DEF Endings
<1> QED BY <1>4, <1>5, <1>6, <1>8 DEF CallInv, Chain

LEMMA DispatcherKeeps ==
    ASSUME CallInv, NEW i \in Links, Dispatch(i) \/ Acknowledge(i) PROVE CallInv'
<1>1. CASE Dispatch(i) /\ i + 1 \in reader
  BY <1>1, DispatchKeeps
<1>2. CASE Dispatch(i) /\ i + 1 \notin reader
  <2>1. /\ wire[i].kind = "request" /\ i + 1 \in sender /\ wire' = [wire EXCEPT ![i] = Reply("failed")]
        /\ UNCHANGED <<queue, sender, reader, task, cut, call, sent, received, endSeen>>
    BY <1>2 DEF Dispatch, Takes, appVars
  <2> QED BY <1>2, <2>1, ReplyKeeps
<1>3. CASE Acknowledge(i)
  <2>1. /\ wire[i].kind = "taken" /\ wire' = [wire EXCEPT ![i] = Reply("done")]
        /\ UNCHANGED <<queue, sender, reader, task, cut, call, sent, received, endSeen>>
    BY <1>3, Kinds DEF Acknowledge, appVars
  <2> QED BY <2>1, ReplyKeeps
<1> QED BY <1>1, <1>2, <1>3

LEMMA ReleaseKeeps ==
    ASSUME CallInv, NEW i \in Links, Release(i) PROVE CallInv'
<1>1. PICK n \in [Channels -> 0..MaxMessages] : Chain(n)
  BY DEF CallInv
<1>2. TypeOK /\ Readers /\ Slices(n) /\ Passing(n) /\ Reading(n) /\ Endings(n)
  BY <1>1 DEF CallInv, Chain
<1>3. /\ task[i] = "ended" \/ i \in cut
      /\ sender' = sender \ {i + 1}
      /\ UNCHANGED <<queue, reader, task, wire, cut, call, sent, received, endSeen>>
  BY DEF Release, LetGo, appVars
<1>4. TypeOK' /\ Readers' /\ Slices(n)' /\ Passing(n)' /\ Reading(n)'
  <2>1. TypeOK' /\ Readers'
    BY <1>2, <1>3 DEF TypeOK, Readers
  <2> QED BY <1>2, <1>3, <2>1, ChannelsStay, ReadingStays DEF Passing
<1>5. Endings(n)'
  <2>1. ASSUME cut = {}, NEW j \in Links, j + 1 \notin sender' PROVE task[j] = "ended"
    <3>1. j = i \/ j + 1 \notin sender
      BY <1>3, <2>1, ChainShape
    <3> QED BY <1>2, <1>3, <2>1, <3>1, EndingsAt
  <2>2. ASSUME cut = {}, call # "over", NEW j \in Links
        PROVE  /\ wire[j].kind # "failed"
               /\ task[j] = "ended" =>
                     1 \notin sender' /\ j \notin sender' /\ n[j + 1] = Len(sent) /\ wire[j].kind = "nothing"
    BY <1>2, <1>3, <2>2, EndingsAt
  <2>3. /\ endSeen => Final \notin sender' /\ queue[Final] = <<>>
        /\ endSeen /\ cut = {} => 1 \notin sender' /\ received = sent
    BY <1>2, <1>3 DEF Endings
  <2> QED BY <1>3, <2>1, <2>2, <2>3 DEF Endings
<1> QED BY <1>4, <1>5 DEF CallInv, Chain

LEMMA CutKeeps ==
    ASSUME CallInv, NEW i \in Links, Cut(i) PROVE CallInv'
<1>1. PICK n \in [Channels -> 0..MaxMessages] : Chain(n)
  BY DEF CallInv
<1>2. TypeOK /\ Readers /\ Slices(n) /\ Passing(n) /\ Reading(n) /\ Endings(n)
  BY <1>1 DEF CallInv, Chain
<1>3. /\ cut' = cut \cup {i}
      /\ UNCHANGED <<queue, sender, reader, task, wire, call, sent, received, endSeen>>
  BY DEF Cut, appVars
<1>4. TypeOK' /\ Readers' /\ Slices(n)' /\ Passing(n)' /\ Reading(n)'
  <2>1. TypeOK' /\ Readers'
    BY <1>2, <1>3 DEF TypeOK, Readers
  <2> QED BY <1>2, <1>3, <2>1, ChannelsStay, ReadingStays DEF Passing
<1>5. Endings(n)'
  <2>1. cut' # {}
    BY <1>3
  <2>2. endSeen => Final \notin sender /\ queue[Final] = <<>>
    BY <1>2 DEF Endings
  <2> QED BY <1>3, <2>1, <2>2 DEF Endings
<1> QED BY <1>4, <1>5 DEF CallInv, Chain

LEMMA CallAnsweredKeeps ==
    ASSUME CallInv, CallAnswered PROVE CallInv'
<1>1. PICK n \in [Channels -> 0..MaxMessages] : Chain(n)
  BY DEF CallInv
<1>2. TypeOK /\ Readers /\ Slices(n) /\ Passing(n) /\ Reading(n) /\ Endings(n)
  BY <1>1 DEF CallInv, Chain
<1>3. /\ call = "asked" /\ call' = "talking"
      /\ UNCHANGED <<queue, sender, reader, task, wire, cut, sent, received, endSeen>>
  BY DEF CallAnswered
<1>4. TypeOK' /\ Readers' /\ Slices(n)' /\ Passing(n)' /\ Reading(n)'
  <2>1. TypeOK' /\ Readers'
    BY <1>2, <1>3 DEF TypeOK, Readers
  <2> QED BY <1>2, <1>3, <2>1, ChannelsStay, ReadingStays DEF Passing
<1>5. Endings(n)'
  BY <1>2, <1>3 DEF Endings
<1> QED BY <1>4, <1>5 DEF CallInv, Chain

LEMMA CallOverKeeps ==
    ASSUME CallInv, CallFails \/ AppHangsUp PROVE CallInv'
<1>1. PICK n \in [Channels -> 0..MaxMessages] : Chain(n)
  BY DEF CallInv
<1>2. TypeOK /\ Readers /\ Slices(n) /\ Passing(n) /\ Reading(n) /\ Endings(n)
  BY <1>1 DEF CallInv, Chain
<1>3. /\ call' = "over" /\ DropReader(Final)
      /\ UNCHANGED <<sender, task, wire, cut, sent, received, endSeen>>
  BY DEF CallFails, AppHangsUp
<1>4. /\ queue' \in [Channels -> Seq(Messages)] /\ reader' \subseteq Channels
      /\ Slices(n)' /\ queue'[Final] = <<>>
      /\ \A d \in Channels : d # Final => queue'[d] = queue[d] /\ Gone(n, d)' = Gone(n, d)
  BY <1>1, <1>2, <1>3, ChainShape, Dropping
<1>5. Readers'
  <2>1. reader' = reader \ {Final}
    BY <1>3 DEF DropReader
  <2> QED BY <1>2, <1>3, <2>1, ChainShape DEF Readers
<1>6. TypeOK'
  BY <1>2, <1>3, <1>4 DEF TypeOK
<1>7. Passing(n)'
  <2>1. \A j \in Links : Gone(n, j)' = Gone(n, j)
    BY <1>4, ChainShape
  <2> QED BY <1>2, <1>3, <2>1 DEF Passing
<1>8. Reading(n)'
  BY <1>2, <1>3 DEF Reading
<1>9. Endings(n)'
  BY <1>2, <1>3, <1>4 DEF Endings
<1> QED BY <1>4, <1>5, <1>6, <1>7, <1>8, <1>9 DEF CallInv, Chain

LEMMA AppReadsKeeps ==
    ASSUME CallInv, AppReads PROVE CallInv'
<1>1. PICK n \in [Channels -> 0..MaxMessages] : Chain(n)
  BY DEF CallInv
<1>2. TypeOK /\ Readers /\ Slices(n) /\ Passing(n) /\ Reading(n) /\ Endings(n)
  BY <1>1 DEF CallInv, Chain
<1> DEFINE q == queue[Final]
<1>3. /\ call = "talking" /\ q # <<>>
      /\ received' = Append(received, Head(q))
      /\ queue' = [queue EXCEPT ![Final] = Tail(q)]
      /\ UNCHANGED <<sender, reader, task, wire, cut, call, sent, endSeen>>
  BY DEF AppReads
<1>4. /\ sent \in Seq(Messages) /\ q \in Seq(Messages) /\ n[Final] \in Nat
      /\ IsSlice(q, n[Final], sent) /\ queue \in [Channels -> Seq(Messages)]
      /\ received \in Seq(Messages) /\ Len(received) \in Nat
  BY <1>1, <1>2, ChainShape, Counts DEF TypeOK
<1>5. /\ IsSlice(Tail(q), n[Final], sent) /\ Len(Tail(q)) = Len(q) - 1 /\ Len(q) \in Nat \ {0}
      /\ Tail(q) \in Seq(Messages) /\ Head(q) \in Messages
      /\ n[Final] - Len(q) < Len(sent) /\ Head(q) = sent[(n[Final] - Len(q)) + 1]
  BY <1>3, <1>4, SliceTail
<1>6. /\ queue' \in [Channels -> Seq(Messages)] /\ queue'[Final] = Tail(q)
      /\ \A d \in Channels : d # Final => queue'[d] = queue[d]
  BY <1>3, <1>4, <1>5, ChainShape
<1>7. Len(received) = n[Final] - Len(q) /\ IsSlice(received, Len(received), sent)
  BY <1>2, <1>3 DEF Reading, Gone
<1> HIDE DEF q
<1>8. /\ received' \in Seq(Messages) /\ Len(received') = Len(received) + 1
      /\ IsSlice(received', Len(received) + 1, sent)
  <2>1. Len(received) < Len(sent) /\ Head(q) = sent[Len(received) + 1]
    BY <1>5, <1>7
  <2> DEFINE h == Head(q)
  <2>2. sent \in Seq(Messages) /\ received \in Seq(Messages) /\ Len(received) \in Nat /\ h \in Messages
    BY <1>4, <1>5
  <2>3. received' = Append(received, h)
    BY <1>3
  <2> HIDE DEF h
  <2>4. /\ IsSlice(Append(received, h), Len(received) + 1, sent)
        /\ Len(Append(received, h)) = Len(received) + 1 /\ Append(received, h) \in Seq(Messages)
    <3>1. IsSlice(received, Len(received), sent) /\ Len(received) < Len(sent) /\ h = sent[Len(received) + 1]
      BY <1>7, <2>1 DEF h
    <3> QED BY <2>2, <3>1, SliceAppend
  <2> QED BY <2>3, <2>4
<1>9. TypeOK' /\ Readers'
  <2>1. Readers'
    BY <1>2, <1>3 DEF Readers
  <2> QED BY <1>2, <1>3, <1>6, <1>8, <2>1 DEF TypeOK
<1>10. Slices(n)'
  <2>1. Final \in reader
    BY <1>2, <1>3 DEF Readers
  <2> QED BY <1>2, <1>3, <1>5, <1>6, <2>1 DEF Slices
<1>11. Passing(n)'
  <2>1. \A j \in Links : Gone(n, j)' = Gone(n, j)
    BY <1>6, ChainShape DEF Gone
  <2> QED BY <1>2, <1>3, <2>1 DEF Passing
<1>12. Reading(n)'
  <2>1. Len(received') = Gone(n, Final)'
    BY <1>4, <1>5, <1>6, <1>7, <1>8 DEF Gone
  <2> QED BY <1>3, <1>8, <2>1 DEF Reading
<1>13. Endings(n)'
  <2>1. ~endSeen
    BY <1>2, <1>3 DEF Endings, q
  <2> QED BY <1>2, <1>3, <2>1 DEF Endings
<1> QED BY <1>9, <1>10, <1>11, <1>12, <1>13 DEF CallInv, Chain

(* At the end of the last channel, all was read. *)
LEMMA AppReadsEndKeeps ==
    ASSUME CallInv, AppReadsEnd PROVE CallInv'
<1>1. PICK n \in [Channels -> 0..MaxMessages] : Chain(n)
  BY DEF CallInv
<1>2. TypeOK /\ Readers /\ Slices(n) /\ Passing(n) /\ Reading(n) /\ Endings(n)
  BY <1>1 DEF CallInv, Chain
<1>3. /\ call = "talking" /\ queue[Final] = <<>> /\ Final \notin sender /\ endSeen' = TRUE
      /\ UNCHANGED <<queue, sender, reader, task, wire, cut, call, sent, received>>
  BY DEF AppReadsEnd
<1>4. TypeOK' /\ Readers' /\ Slices(n)' /\ Passing(n)' /\ Reading(n)'
  <2>1. TypeOK' /\ Readers'
    BY <1>2, <1>3 DEF TypeOK, Readers
  <2> QED BY <1>2, <1>3, <2>1, ChannelsStay, ReadingStays DEF Passing
<1>5. ASSUME cut = {} PROVE 1 \notin sender /\ received = sent
  <2>1. 1 \notin sender /\ n[Final] = Len(sent)
    <3>1. Hops \in Links /\ Final = Hops + 1
      BY ChainShape
    <3> QED BY <1>2, <1>3, <1>5, <3>1, EndingsAt
  <2>2. Len(received) = Len(sent)
    <3>1. Len(received) = n[Final] - Len(queue[Final])
      BY <1>2, <1>3 DEF Reading, Gone
    <3>2. Len(queue[Final]) = 0 /\ Len(sent) \in Nat
      BY <1>1, <1>2, <1>3, Counts
    <3> QED BY <2>1, <3>1, <3>2
  <2>3. sent \in Seq(Messages) /\ received \in Seq(Messages) /\ IsSlice(received, Len(received), sent)
    BY <1>2 DEF TypeOK, Reading
  <2> QED BY <2>1, <2>2, <2>3, SliceIsPrefix
<1>6. Endings(n)'
  BY <1>2, <1>3, <1>5 DEF Endings
<1> QED BY <1>4, <1>6 DEF CallInv, Chain

LEMMA StutterKeeps ==
    ASSUME CallInv, UNCHANGED vars PROVE CallInv'
<1>1. PICK n \in [Channels -> 0..MaxMessages] : Chain(n)
  BY DEF CallInv
<1>2. TypeOK /\ Readers /\ Slices(n) /\ Passing(n) /\ Reading(n) /\ Endings(n)
  BY <1>1 DEF CallInv, Chain
<1>3. UNCHANGED <<queue, sender, reader, task, wire, cut, call, sent, received, endSeen>>
  BY DEF vars, appVars
<1>4. TypeOK' /\ Readers' /\ Slices(n)' /\ Passing(n)' /\ Reading(n)' /\ Endings(n)'
  <2>1. TypeOK' /\ Readers'
    BY <1>2, <1>3 DEF TypeOK, Readers
  <2>2. Endings(n)'
    BY <1>2, <1>3, EndingsStay
  <2> QED BY <1>2, <1>3, <2>1, <2>2, ChannelsStay, ReadingStays DEF Passing
<1> QED BY <1>4 DEF CallInv, Chain

LEMMA StepKeepsInv ==
    CallInv /\ [Next]_vars => CallInv'
<1> SUFFICES ASSUME CallInv, [Next]_vars PROVE CallInv'
  OBVIOUS
<1>1. ASSUME NEW i \in Links,
             \/ TaskAsks(i) \/ TaskGoesOn(i) \/ TaskFails(i) \/ TaskEnds(i)
             \/ Dispatch(i) \/ Acknowledge(i) \/ Release(i) \/ Cut(i)
      PROVE  CallInv'
  BY <1>1, TaskAsksKeeps, TaskGoesOnKeeps, TaskStops, DispatcherKeeps, ReleaseKeeps, CutKeeps
<1>2. ASSUME AppCloses \/ CallAnswered \/ CallFails \/ AppReads \/ AppReadsEnd \/ AppHangsUp
      PROVE  CallInv'
  BY <1>2, AppClosesKeeps, CallAnsweredKeeps, CallOverKeeps, AppReadsKeeps, AppReadsEndKeeps
<1> QED BY <1>1, <1>2, AppSendKeeps, StutterKeeps DEF Next

(***************************************************************************)
(* Every channel of a call holds consecutive messages, and every task has  *)
(* passed on all it took but the one in hand, in every reachable state.    *)
(***************************************************************************)
THEOREM CallInvCorrect == Spec => []CallInv
  BY InitialInv, StepKeepsInv, PTL DEF Spec

(***************************************************************************)
(* Over any number of fwd_appmsg tasks and dispatchers, an application     *)
(* reads what the other sent, in order, and the end only after all of it   *)
(* if no link was cut.                                                     *)
(***************************************************************************)
THEOREM EndMeansAllCorrect == Spec => []EndMeansAll
<1>1. CallInv => EndMeansAll
  <2> SUFFICES ASSUME CallInv PROVE EndMeansAll
    OBVIOUS
  <2>1. PICK n \in [Channels -> 0..MaxMessages] : Chain(n)
    BY DEF CallInv
  <2>2. /\ sent \in Seq(Messages) /\ received \in Seq(Messages)
        /\ IsSlice(received, Len(received), sent)
        /\ endSeen /\ cut = {} => received = sent
    BY <2>1 DEF CallInv, TypeOK, Chain, Reading, Endings
  <2> QED BY <2>2, SliceIsPrefix DEF EndMeansAll
<1> QED BY <1>1, CallInvCorrect, PTL

=============================================================================
