----------------------------- MODULE AppMessages -----------------------------
(***************************************************************************)
(* The messages of a call, from the callee's application to the caller's:  *)
(* fwd_appmsg and AppMessageDispatcherCapnProto (mercury_capnp/mod.rs), as *)
(* client_proxy.rs, server_dispatcher.rs and connect/src/sdk.rs link them. *)
(*                                                                         *)
(*    application -> channel 1 -> task 1 -> link 1 -> dispatcher           *)
(*                -> channel 2 -> task 2 -> link 2 -> dispatcher           *)
(*                -> channel 3 -> application                              *)
(*                                                                         *)
(* Task 1 runs in the callee's client, task 2 in the home, the last        *)
(* channel is the one that Contact::call made before it called.  Messages  *)
(* to the callee take the same way back; there the last channel is read    *)
(* from the start.  A message is a frame or an application's error: both   *)
(* take the same way, as requests of two kinds.                            *)
(*                                                                         *)
(* Nothing tells a reader why its channel ended: a cut link looks like a   *)
(* partner who has nothing more to say.                                    *)
(***************************************************************************)
EXTENDS Naturals, SequencesExt

CONSTANTS
    Hops,         \* links between the two applications
    Messages,     \* kinds of messages: frames and errors
    Capacity,     \* buffer of a channel
    MaxMessages,  \* bound: messages that the application sends
    MaxCuts       \* bound: links that are cut

ASSUME AppMessagesAssumption ==
    /\ Hops \in Nat \ {0} /\ Capacity \in Nat
    /\ MaxMessages \in Nat /\ MaxCuts \in Nat

Links == 1..Hops
Channels == 1..(Hops + 1)
Final == Hops + 1

VARIABLES
    queue,     \* messages in each channel
    sender,    \* channels that still have a sender
    reader,    \* channels that still have a receiver
    task,      \* stage of each fwd_appmsg task
    wire,      \* the request or reply on each link
    cut,       \* links that are lost
    call,      \* stage of Contact::call
    sent, received,   \* history: messages accepted from and given to the applications
    endSeen    \* the caller's application has read the end of the stream

appVars == <<call, sent, received, endSeen>>
vars == <<queue, sender, reader, task, wire, cut, appVars>>

Nothing == [kind |-> "nothing"]
Request(m) == [kind |-> "request", message |-> m]
Reply(kind) == [kind |-> kind]

Init ==
    /\ queue = [c \in Channels |-> <<>>]
    /\ sender = Channels /\ reader = Channels
    /\ task = [i \in Links |-> "waiting"]
    /\ wire = [i \in Links |-> Nothing]
    /\ cut = {}
    /\ call = "asked"
    /\ sent = <<>> /\ received = <<>> /\ endSeen = FALSE

-----------------------------------------------------------------------------
(***************************************************************************)
(* futures::sync::mpsc: one sender may go one message past the buffer; a   *)
(* fresh clone of a sender always has room for its message.                *)
(***************************************************************************)
HasRoom(c) == Len(queue[c]) <= Capacity

Accepted(c, m) == [queue EXCEPT ![c] = Append(@, m)]

(* The receiver goes, and what it has not read goes with it. *)
DropReader(c) ==
    /\ reader' = reader \ {c}
    /\ queue' = [queue EXCEPT ![c] = <<>>]

-----------------------------------------------------------------------------
(* The callee's application, which may send each message with a fresh clone *)

AppSend(m) ==
    /\ 1 \in sender /\ 1 \in reader
    /\ Len(sent) < MaxMessages
    /\ queue' = Accepted(1, m)
    /\ sent' = Append(sent, m)
    /\ UNCHANGED <<sender, reader, task, wire, cut, call, received, endSeen>>

AppCloses ==
    /\ 1 \in sender
    /\ sender' = sender \ {1}
    /\ UNCHANGED <<queue, reader, task, wire, cut, appVars>>

-----------------------------------------------------------------------------
(* fwd_appmsg: for_each takes a message when the one before is answered. *)

TaskAsks(i) ==
    /\ task[i] = "waiting" /\ queue[i] # <<>>
    /\ task' = [task EXCEPT ![i] = "asking"]
    /\ wire' = [wire EXCEPT ![i] = IF i \in cut THEN Nothing ELSE Request(Head(queue[i]))]
    /\ queue' = [queue EXCEPT ![i] = Tail(@)]
    /\ UNCHANGED <<sender, reader, cut, appVars>>

TaskGoesOn(i) ==
    /\ task[i] = "asking" /\ wire[i] = Reply("done")
    /\ task' = [task EXCEPT ![i] = "waiting"]
    /\ wire' = [wire EXCEPT ![i] = Nothing]
    /\ UNCHANGED <<queue, sender, reader, cut, appVars>>

(* An error of a request ends for_each, and nobody is told. *)
TaskFails(i) ==
    /\ task[i] = "asking" /\ (wire[i] = Reply("failed") \/ i \in cut)
    /\ task' = [task EXCEPT ![i] = "ended"]
    /\ DropReader(i)
    /\ UNCHANGED <<sender, wire, cut, appVars>>

Finished_Early(i) == i \notin sender

Finished(i) == i \notin sender /\ queue[i] = <<>>

TaskEnds(i) ==
    /\ task[i] = "waiting" /\ Finished(i)
    /\ task' = [task EXCEPT ![i] = "ended"]
    /\ DropReader(i)
    /\ UNCHANGED <<sender, wire, cut, appVars>>

-----------------------------------------------------------------------------
(***************************************************************************)
(* AppMessageDispatcherCapnProto::receive and ::error.  The request waits  *)
(* for the receiver to catch up or not, depending on the channel's         *)
(* implementation: the reply may come at once, and comes when there is     *)
(* room.                                                                   *)
(***************************************************************************)
Takes_WithRoom(c) == c \in reader /\ HasRoom(c)

Takes(c) == c \in reader

Dispatch(i) ==
    /\ wire[i].kind = "request" /\ i + 1 \in sender
    /\ IF Takes(i + 1)
       THEN /\ queue' = Accepted(i + 1, wire[i].message)
            /\ wire' = [wire EXCEPT ![i] = Reply("taken")]
       ELSE /\ wire' = [wire EXCEPT ![i] = Reply("failed")]
            /\ UNCHANGED queue
    /\ UNCHANGED <<sender, reader, task, cut, appVars>>

Acknowledge(i) ==
    /\ wire[i] = Reply("taken")
    /\ wire' = [wire EXCEPT ![i] = Reply("done")]
    /\ UNCHANGED <<queue, sender, reader, task, cut, appVars>>

(***************************************************************************)
(* The dispatcher is dropped, and with it the sender of its channel, once  *)
(* the task let go of its end or the link is found lost.                   *)
(***************************************************************************)
LetGo_OnCut(i) == i \in cut

LetGo(i) == task[i] = "ended" \/ i \in cut

Release(i) ==
    /\ i + 1 \in sender /\ LetGo(i)
    /\ sender' = sender \ {i + 1}
    /\ UNCHANGED <<queue, reader, task, wire, cut, appVars>>

Cut(i) ==
    /\ i \notin cut /\ Cardinality(cut) < MaxCuts
    /\ cut' = cut \cup {i}
    /\ UNCHANGED <<queue, sender, reader, task, wire, appVars>>

-----------------------------------------------------------------------------
(* The caller's application: Contact::call and the DAppCall it returns *)

CallAnswered ==
    /\ call = "asked"
    /\ call' = "talking"
    /\ UNCHANGED <<queue, sender, reader, task, wire, cut, sent, received, endSeen>>

CallFails ==
    /\ call = "asked"
    /\ call' = "over"
    /\ DropReader(Final)
    /\ UNCHANGED <<sender, task, wire, cut, sent, received, endSeen>>

AppReads ==
    /\ call = "talking" /\ queue[Final] # <<>>
    /\ received' = Append(received, Head(queue[Final]))
    /\ queue' = [queue EXCEPT ![Final] = Tail(@)]
    /\ UNCHANGED <<sender, reader, task, wire, cut, call, sent, endSeen>>

AppReadsEnd ==
    /\ call = "talking" /\ queue[Final] = <<>> /\ Final \notin sender
    /\ ~endSeen
    /\ endSeen' = TRUE
    /\ UNCHANGED <<queue, sender, reader, task, wire, cut, call, sent, received>>

AppHangsUp ==
    /\ call = "talking"
    /\ call' = "over"
    /\ DropReader(Final)
    /\ UNCHANGED <<sender, task, wire, cut, sent, received, endSeen>>

-----------------------------------------------------------------------------
Next ==
    \/ \E m \in Messages : AppSend(m)
    \/ AppCloses
    \/ \E i \in Links : TaskAsks(i) \/ TaskGoesOn(i) \/ TaskFails(i) \/ TaskEnds(i)
    \/ \E i \in Links : Dispatch(i) \/ Acknowledge(i) \/ Release(i) \/ Cut(i)
    \/ CallAnswered \/ CallFails
    \/ AppReads \/ AppReadsEnd \/ AppHangsUp

Spec == Init /\ [][Next]_vars

(***************************************************************************)
(* The event loops run their tasks and links carry what is on them; a      *)
(* reply is certain only when the channel has room.  The caller's          *)
(* application goes on reading, its home ends a call that was offered      *)
(* (EveryCallReturns of IncomingCalls).  Nothing makes an application      *)
(* send, close or hang up, and no link need be cut.                        *)
(***************************************************************************)
FairSpec ==
    /\ Spec
    /\ \A i \in Links :
          /\ WF_vars(TaskAsks(i)) /\ WF_vars(TaskGoesOn(i))
          /\ WF_vars(TaskFails(i)) /\ WF_vars(TaskEnds(i))
          /\ WF_vars(Dispatch(i)) /\ WF_vars(Release(i))
          /\ WF_vars(HasRoom(i + 1) /\ Acknowledge(i))
    /\ WF_vars(CallAnswered \/ CallFails)
    /\ WF_vars(AppReads) /\ WF_vars(AppReadsEnd)

-----------------------------------------------------------------------------
(* Properties *)

(***************************************************************************)
(* What the caller's application reads is what the callee's sent, in the   *)
(* same order, and the end of the stream means that it has read it all,    *)
(* unless a link was cut on the way: no task may end, and no dispatcher be *)
(* dropped, while there is still something to forward.                     *)
(***************************************************************************)
EndMeansAll ==
    /\ IsPrefix(received, sent)
    /\ endSeen /\ cut = {} => received = sent

(***************************************************************************)
(* Every message that the callee's application was able to send is read    *)
(* in the end, however slowly the other reads, unless a link is cut or the *)
(* other gives up: no task waits for an answer that does not come.         *)
(***************************************************************************)
AllDelivered ==
    \A k \in 1..MaxMessages :
       Len(sent) >= k ~> Len(received) >= k \/ cut # {} \/ call = "over"

(***************************************************************************)
(* When the callee's application drops its sink, or any link is cut, the   *)
(* caller's reads the end of the stream, unless it hung up before: the end *)
(* travels through the home although nothing is sent to announce it.       *)
(***************************************************************************)
EndIsSeen == (1 \notin sender \/ cut # {}) ~> (endSeen \/ call = "over")

-----------------------------------------------------------------------------
(* The inductive invariant of the proofs *)

Wires == {Nothing} \cup {Request(m) : m \in Messages} \cup {Reply(k) : k \in {"taken", "done", "failed"}}

TypeOK ==
    /\ queue \in [Channels -> Seq(Messages)]
    /\ sender \subseteq Channels /\ reader \subseteq Channels
    /\ task \in [Links -> {"waiting", "asking", "ended"}]
    /\ wire \in [Links -> Wires]
    /\ cut \subseteq Links
    /\ call \in {"asked", "talking", "over"}
    /\ sent \in Seq(Messages) /\ received \in Seq(Messages) /\ endSeen \in BOOLEAN

(* The sequence q is the part of s that ends at position e. *)
IsSlice(q, e, s) ==
    e <= Len(s) /\ Len(q) <= e /\ \A k \in 1..Len(q) : q[k] = s[e - Len(q) + k]

(* Let n[c] be the number of messages that channel c has taken so far. *)
Slices(n) ==
    /\ n[1] = Len(sent)
    /\ \A c \in Channels : IsSlice(queue[c], n[c], sent)
    /\ \A c \in Channels \ reader : queue[c] = <<>>

Gone(n, c) == n[c] - Len(queue[c])

(* A task that goes on has passed on all it took but the message in hand. *)
Passing(n) ==
    \A i \in Links :
       /\ task[i] = "waiting" => wire[i].kind = "nothing" /\ Gone(n, i) = n[i + 1]
       /\ task[i] = "asking" =>
             Gone(n, i) = IF wire[i].kind \in {"taken", "done"} THEN n[i + 1] ELSE n[i + 1] + 1
       /\ wire[i].kind = "request" => n[i + 1] < Len(sent) /\ wire[i].message = sent[n[i + 1] + 1]

(* The caller's application has read all but what is in its channel. *)
Reading(n) ==
    /\ call # "over" => Len(received) = Gone(n, Final)
    /\ IsSlice(received, Len(received), sent)

Readers ==
    /\ \A i \in Links : i \in reader <=> task[i] # "ended"
    /\ Final \in reader <=> call # "over"

(* Without cuts, nothing ends before all it has to pass on was passed on, *)
(* or the caller gave up.                                                  *)
Endings(n) ==
    /\ cut = {} => \A i \in Links : i + 1 \notin sender => task[i] = "ended"
    /\ cut = {} /\ call # "over" => \A i \in Links :
          /\ wire[i].kind # "failed"
          /\ task[i] = "ended" => /\ 1 \notin sender /\ i \notin sender
                                  /\ n[i + 1] = Len(sent) /\ wire[i].kind = "nothing"
    /\ endSeen => Final \notin sender /\ queue[Final] = <<>>
    /\ endSeen /\ cut = {} => 1 \notin sender /\ received = sent

Chain(n) == Slices(n) /\ Passing(n) /\ Reading(n) /\ Endings(n)

CallInv == TypeOK /\ Readers /\ \E n \in [Channels -> 0..MaxMessages] : Chain(n)
=============================================================================
