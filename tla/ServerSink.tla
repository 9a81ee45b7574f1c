------------------------------ MODULE ServerSink ------------------------------
(***************************************************************************)
(* One ServerSink of a HomeSessionServer (home-node/src/server.rs): the    *)
(* sink of profile events, or the sink of one checked-in application's     *)
(* calls, which work alike.                                                *)
(*                                                                         *)
(* Pushed items are kept in a Vec until the client asks for a stream; then *)
(* the sink becomes the sender of a new mpsc channel, and a spawned task   *)
(* hands the Vec over to the channel while new items are already pushed to *)
(* it.  A repeated request puts a new channel in place and a spawned task  *)
(* sends a warning down the old one.  The RPC dispatcher reads a channel   *)
(* with for_each, waiting for the client's answer to each item.            *)
(*                                                                         *)
(* Channels are those of the futures crate: a sender that fills the queue  *)
(* beyond the capacity is parked until the receiver takes a message, but a *)
(* fresh clone, which every push uses, can always send once.               *)
(***************************************************************************)
EXTENDS Naturals, Sequences, SequencesExt

CONSTANTS
    MaxItems,     \* bound: items pushed to the sink, named in push order
    MaxStreams,   \* bound: calls of events() or checkin_app()
    Capacity,     \* CHANNEL_CAPACITY
    Warning,      \* the Err(..) sent down a replaced channel
    None

ASSUME SinkAssumption ==
    /\ MaxItems \in Nat /\ MaxStreams \in Nat /\ Capacity \in Nat
    /\ Warning \notin 1..MaxItems /\ None \notin 1..MaxItems /\ Warning # None

Items == 1..MaxItems
Chans == 1..MaxStreams

VARIABLES
    session,      \* "live" until the HomeSessionServer is dropped
    pushed,       \* number of items pushed so far
    refused,      \* items whose push failed (FailedToSend)
    buffer,       \* the Vec of ServerSink::Buffer
    stream,       \* receiver of each channel made so far: "open" or "closed"
    queue,        \* messages in each channel
    parked,       \* senders parked on each channel: "handover" or "clone"
    handover,     \* what the send_all task of each channel has yet to send
    warning,      \* channels whose warning is yet to be sent
    inflight,     \* message the dispatcher waits for the client to acknowledge
    early,        \* number of items in the Vec that was handed over
    received      \* history: items the client got, in order

chanVars == <<stream, queue, parked, handover, warning, inflight>>
vars == <<session, pushed, refused, buffer, chanVars, early, received>>

Init ==
    /\ session = "live" /\ pushed = 0 /\ refused = {} /\ buffer = <<>>
    /\ stream = <<>>
    /\ queue = [c \in Chans |-> <<>>]
    /\ parked = [c \in Chans |-> <<>>]
    /\ handover = [c \in Chans |-> <<>>]
    /\ warning = {}
    /\ inflight = [c \in Chans |-> None]
    /\ early = 0 /\ received = <<>>

Current == Len(stream)

-----------------------------------------------------------------------------
(***************************************************************************)
(* mpsc::Sender::do_send: the messages are queued; if there are then more  *)
(* than the capacity, the sender is parked.                                *)
(***************************************************************************)
Send(c, msgs, sender) ==
    /\ queue' = [queue EXCEPT ![c] = @ \o msgs]
    /\ parked' = IF Len(queue[c]) + Len(msgs) > Capacity
                 THEN [parked EXCEPT ![c] = Append(@, sender)] ELSE parked

(***************************************************************************)
(* push_event and push_call.  A clone's send fails only if the receiver is *)
(* gone; the sink stays a sender then.                                     *)
(***************************************************************************)
Push ==
    LET i == pushed + 1 IN
    /\ session = "live" /\ pushed < MaxItems
    /\ pushed' = i
    /\ \/ /\ Current = 0
          /\ buffer' = Append(buffer, i)
          /\ UNCHANGED <<queue, parked, refused>>
       \/ /\ Current # 0 /\ stream[Current] = "open"
          /\ Send(Current, <<i>>, "clone")
          /\ UNCHANGED <<buffer, refused>>
       \/ /\ Current # 0 /\ stream[Current] = "closed"
          /\ refused' = refused \cup {i}
          /\ UNCHANGED <<queue, parked, buffer>>
    /\ UNCHANGED <<session, stream, handover, warning, inflight, early, received>>

(***************************************************************************)
(* events() and checkin_app(): a new channel replaces the sink.  A spawned *)
(* task starts at its first poll, later.                                   *)
(***************************************************************************)
OpenStream ==
    /\ session = "live" /\ Current < MaxStreams
    /\ stream' = Append(stream, "open")
    /\ \/ /\ Current = 0
          /\ handover' = [handover EXCEPT ![1] = buffer]
          /\ buffer' = <<>>
          /\ early' = pushed
          /\ UNCHANGED warning
       \/ /\ Current # 0
          /\ warning' = warning \cup {Current}
          /\ UNCHANGED <<handover, buffer, early>>
    /\ UNCHANGED <<session, pushed, refused, queue, parked, inflight, received>>

(***************************************************************************)
(* One poll of the task sender.send_all(buffer): it sends until its sender *)
(* is parked.  If the receiver is gone the task ends and its error is      *)
(* ignored.                                                                *)
(***************************************************************************)
Batch(c) ==
    LET room == IF Len(queue[c]) >= Capacity THEN 1 ELSE Capacity + 1 - Len(queue[c])
    IN  IF room < Len(handover[c]) THEN room ELSE Len(handover[c])

(* Messages that would overfill the channel are dropped, not waited for. *)
Chunk_DropsOverflow(c) ==
    SelectSeq(SubSeq(handover[c], 1, Batch(c)), LAMBDA i : Len(queue[c]) < Capacity)

Chunk_Reversed(c) == Reverse(SubSeq(handover[c], 1, Batch(c)))

Chunk(c) == SubSeq(handover[c], 1, Batch(c))

PollHandover(c) ==
    /\ handover[c] # <<>>
    /\ ~Contains(parked[c], "handover")
    /\ \/ /\ stream[c] = "open"
          /\ Send(c, Chunk(c), "handover")
          /\ handover' = [handover EXCEPT ![c] = SubSeq(@, Batch(c) + 1, Len(@))]
       \/ /\ stream[c] = "closed"
          /\ handover' = [handover EXCEPT ![c] = <<>>]
          /\ UNCHANGED <<queue, parked>>
    /\ UNCHANGED <<session, pushed, refused, buffer, stream, warning, inflight, early, received>>

(***************************************************************************)
(* The task old_sender.send(Err(..)): that sender never sent before.  The  *)
(* reactor polls new tasks in the order they were spawned, so the handover *)
(* was polled first.                                                       *)
(***************************************************************************)
PollWarning(c) ==
    /\ c \in warning
    /\ handover[c] # <<>> => Len(handover[c]) < early
    /\ warning' = warning \ {c}
    /\ IF stream[c] = "open"
       THEN Send(c, <<Warning>>, "clone")
       ELSE UNCHANGED <<queue, parked>>
    /\ UNCHANGED <<session, pushed, refused, buffer, stream, handover, inflight, early, received>>

-----------------------------------------------------------------------------
(* HomeSessionDispatcherCapnProto::events (and ::checkin_app) *)

(***************************************************************************)
(* for_each takes the next message, which wakes the sender parked first,   *)
(* and sends the client a receive or error request.                        *)
(***************************************************************************)
Unpark_Never(c) == UNCHANGED parked

Unpark(c) == parked' = IF parked[c] = <<>> THEN parked ELSE [parked EXCEPT ![c] = Tail(@)]

Take(c) ==
    /\ stream[c] = "open" /\ inflight[c] = None /\ queue[c] # <<>>
    /\ inflight' = [inflight EXCEPT ![c] = Head(queue[c])]
    /\ queue' = [queue EXCEPT ![c] = Tail(@)]
    /\ Unpark(c)
    /\ UNCHANGED <<session, pushed, refused, buffer, stream, handover, warning, early, received>>

(***************************************************************************)
(* ProfileEventDispatcherCapnProto::receive and ::error put the message in *)
(* the client's own channel and answer; for_each goes on.                  *)
(***************************************************************************)
Answered_Resends(c) == UNCHANGED inflight

Answered(c) == inflight' = [inflight EXCEPT ![c] = None]

Deliver(m) == received' = IF m = Warning THEN received ELSE Append(received, m)

Acknowledge(c) ==
    /\ inflight[c] # None
    /\ Deliver(inflight[c])
    /\ Answered(c)
    /\ UNCHANGED <<session, pushed, refused, buffer, stream, queue, parked, handover, warning, early>>

(***************************************************************************)
(* The client's answer is an error, or the connection is lost: for_each    *)
(* ends and drops the receiver with all that is in the channel.            *)
(***************************************************************************)
CloseStream(c) ==
    /\ stream[c] = "open"
    /\ stream' = [stream EXCEPT ![c] = "closed"]
    /\ queue' = [queue EXCEPT ![c] = <<>>]
    /\ parked' = [parked EXCEPT ![c] = <<>>]
    /\ inflight' = [inflight EXCEPT ![c] = None]
    /\ UNCHANGED <<session, pushed, refused, buffer, handover, warning, early, received>>

(***************************************************************************)
(* All senders of a channel are gone and it is drained: for_each is done.  *)
(***************************************************************************)
SendersGone(c) ==
    /\ c # Current \/ session = "dropped"
    /\ c \notin warning
    /\ handover[c] = <<>>

EndStream(c) ==
    /\ stream[c] = "open" /\ inflight[c] = None /\ queue[c] = <<>>
    /\ SendersGone(c)
    /\ stream' = [stream EXCEPT ![c] = "closed"]
    /\ UNCHANGED <<session, pushed, refused, buffer, queue, parked, handover, warning, inflight, early, received>>

(* The HomeSessionServer is dropped with its buffer; spawned tasks and     *)
(* channels that are read remain.                                          *)
DropSink ==
    /\ session = "live"
    /\ session' = "dropped"
    /\ buffer' = <<>>
    /\ UNCHANGED <<pushed, refused, chanVars, early, received>>

-----------------------------------------------------------------------------
Next ==
    \/ Push
    \/ OpenStream
    \/ DropSink
    \/ \E c \in DOMAIN stream :
          \/ PollHandover(c)
          \/ PollWarning(c)
          \/ Take(c)
          \/ Acknowledge(c)
          \/ CloseStream(c)
          \/ EndStream(c)

(***************************************************************************)
(* The reactor polls every task that was woken, and the client's RPC       *)
(* system answers; nobody is obliged to push, to open, to close.           *)
(***************************************************************************)
Fairness ==
    \A c \in Chans :
        /\ WF_vars(c \in DOMAIN stream /\ PollHandover(c))
        /\ WF_vars(c \in DOMAIN stream /\ PollWarning(c))
        /\ WF_vars(c \in DOMAIN stream /\ Take(c))
        /\ WF_vars(c \in DOMAIN stream /\ Acknowledge(c))

Spec == Init /\ [][Next]_vars

FairSpec == Spec /\ Fairness

-----------------------------------------------------------------------------
(* Properties *)

(* Items in channel c or on their way through it. *)
InChannel(c) ==
    (ToSet(queue[c]) \cup ToSet(handover[c]) \cup {inflight[c]}) \cap Items

(***************************************************************************)
(* The refinement mapping to Mailbox: where an item is tells its status.   *)
(* What a task still means to send to a closed channel counts as lost.     *)
(***************************************************************************)
StatusOf(i) ==
    IF i > pushed THEN "new"
    ELSE IF i \in refused THEN "refused"
    ELSE IF Contains(received, i) THEN "received"
    ELSE IF \/ Contains(buffer, i)
            \/ \E c \in DOMAIN stream : stream[c] = "open" /\ i \in InChannel(c)
    THEN "pending"
    ELSE "lost"

MB == INSTANCE Mailbox WITH status <- [i \in Items |-> StatusOf(i)]

(***************************************************************************)
(* The sink keeps the mailbox's promise: nothing accepted is lost by       *)
(* opening a stream, once or repeatedly, nor by dropping a session whose   *)
(* streams are read to their end; refusals happen only while the stream    *)
(* opened last is closed.                                                  *)
(***************************************************************************)
MailboxSpec == MB!MailSpec

(***************************************************************************)
(* No event is handed to the client twice, not even around a handover or a *)
(* repeated events() call, and no warning is taken for an event.           *)
(***************************************************************************)
ReceivedOnce == IsInjective(received) /\ ToSet(received) \subseteq Items

(***************************************************************************)
(* The items pushed before the first events() call reach the client in     *)
(* push order and without gaps, whatever newer items overtake them while   *)
(* the handover task is parked.                                            *)
(***************************************************************************)
HandoverInOrder ==
    \A k \in 1..Len(received), e \in 1..early : received[k] = e =>
       \A i \in 1..(e - 1) : \E j \in 1..(k - 1) : received[j] = i

(***************************************************************************)
(* Every event that is in a channel, or handed over to one, gets to the    *)
(* client unless the stream is closed: the handover task is woken again    *)
(* though clones of its sender are parked before it.                       *)
(***************************************************************************)
ChannelDrains ==
    \A i \in Items, c \in Chans :
        i \in InChannel(c) ~> Contains(received, i) \/ (c \in DOMAIN stream /\ stream[c] = "closed")

-----------------------------------------------------------------------------
(* The inductive invariant of the proofs *)

Messages == Items \cup {Warning}

TypeOK ==
    /\ session \in {"live", "dropped"} /\ pushed \in 0..MaxItems
    /\ refused \subseteq Items
    /\ buffer \in Seq(Items)
    /\ stream \in Seq({"open", "closed"}) /\ Len(stream) <= MaxStreams
    /\ queue \in [Chans -> Seq(Messages)]
    /\ parked \in [Chans -> Seq({"handover", "clone"})]
    /\ handover \in [Chans -> Seq(Items)]
    /\ warning \subseteq Chans
    /\ inflight \in [Chans -> Messages \cup {None}]
    /\ early \in 0..pushed
    /\ received \in Seq(Items)

(* Item i left the handover and is in channel c. *)
Transit(c, i) == Contains(queue[c], i) \/ inflight[c] = i

(* The Vec has all there is until the first stream is opened. *)
Buffering ==
    /\ stream = <<>> => early = 0 /\ refused = {} /\ received = <<>>
    /\ stream # <<>> => buffer = <<>>
    /\ stream = <<>> /\ session = "live" => Len(buffer) = pushed
    /\ Len(buffer) <= pushed /\ \A n \in 1..Len(buffer) : buffer[n] = n

(* The first channel is handed the rest of the early items, in order. *)
HandingOver ==
    \A c \in Chans :
       /\ handover[c] # <<>> => c = 1 /\ stream # <<>>
       /\ Len(handover[c]) <= early
       /\ \A n \in 1..Len(handover[c]) : handover[c][n] = early - Len(handover[c]) + n

(* Only a channel that is read has something in it. *)
OnlyInOpen ==
    \A c \in Chans : queue[c] # <<>> \/ inflight[c] # None => c <= Len(stream) /\ stream[c] = "open"

(* What is in a channel or received was pushed, accepted and handed over. *)
SentIsPushed ==
    /\ \A i \in refused : early < i /\ i <= pushed
    /\ \A i \in Items : Contains(received, i) \/ (\E c \in Chans : Transit(c, i)) =>
          /\ i <= pushed /\ i \notin refused
          /\ \A c \in Chans : early < i \/ i <= early - Len(handover[c])

(* An item is in one place of one channel, or received once. *)
InOnePlace ==
    /\ \A c \in Chans : \A j, k \in 1..Len(queue[c]) :
          queue[c][j] = queue[c][k] => j = k \/ queue[c][j] = Warning
    /\ \A c \in Chans, i \in Items : ~(inflight[c] = i /\ Contains(queue[c], i))
    /\ \A c, d \in Chans, i \in Items : Transit(c, i) /\ Transit(d, i) => c = d
    /\ \A c \in Chans, i \in Items : ~(Transit(c, i) /\ Contains(received, i))
    /\ \A j, k \in 1..Len(received) : received[j] = received[k] => j = k

(* Early items follow each other in the first channel without gaps. *)
EarlyInOrder ==
    \A c \in Chans :
       /\ \A i \in 1..early : Transit(c, i) => c = 1
       /\ \A k \in 1..Len(queue[c]), e \in 1..early : queue[c][k] = e =>
             \A i \in 1..(e - 1) :
                Contains(received, i) \/ inflight[c] = i \/ \E j \in 1..(k - 1) : queue[c][j] = i
       /\ \A e \in 1..early : inflight[c] = e => \A i \in 1..(e - 1) : Contains(received, i)
       /\ handover[c] # <<>> /\ stream[c] = "open" =>
             \A i \in 1..(early - Len(handover[c])) : Contains(received, i) \/ Transit(c, i)

SinkInv ==
    /\ TypeOK /\ Buffering /\ HandingOver /\ OnlyInOpen /\ SentIsPushed
    /\ InOnePlace /\ EarlyInOrder /\ HandoverInOrder
=============================================================================
