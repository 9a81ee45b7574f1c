------------------------------- MODULE Mailbox -------------------------------
(***************************************************************************)
(* What a session promises to those who push events (or calls) to it, and  *)
(* to the client that consumes them: the abstract specification that       *)
(* ServerSink implements and HomeServer and IncomingCalls rely on.         *)
(*                                                                         *)
(* Every item is accepted or refused once; an accepted item is received at *)
(* most once, in no particular order; it is lost only when a stream is     *)
(* closed or the session is dropped, never by a repeated events().         *)
(***************************************************************************)
EXTENDS Naturals, Sequences

CONSTANTS Items, MaxStreams

VARIABLES
    status,   \* of every item
    stream,   \* the streams opened so far, "open" or "closed"
    session   \* "live" or "dropped"

mailVars == <<status, stream, session>>

Pending == {i \in Items : status[i] = "pending"}

Become(S, st) == status' = [i \in Items |-> IF i \in S THEN st ELSE status[i]]

MailInit ==
    /\ status = [i \in Items |-> "new"]
    /\ stream = <<>>
    /\ session = "live"

(* The stream opened last takes new items; without one they are buffered. *)
Accepting == stream = <<>> \/ stream[Len(stream)] = "open"

Accept(i) ==
    /\ session = "live" /\ Accepting /\ status[i] = "new"
    /\ Become({i}, "pending")
    /\ UNCHANGED <<stream, session>>

Refuse(i) ==
    /\ session = "live" /\ ~Accepting /\ status[i] = "new"
    /\ Become({i}, "refused")
    /\ UNCHANGED <<stream, session>>

Open ==
    /\ session = "live" /\ Len(stream) < MaxStreams
    /\ stream' = Append(stream, "open")
    /\ UNCHANGED <<status, session>>

Receive(i) ==
    /\ status[i] = "pending"
    /\ \E c \in DOMAIN stream : stream[c] = "open"
    /\ Become({i}, "received")
    /\ UNCHANGED <<stream, session>>

Close(c) ==
    /\ stream[c] = "open"
    /\ stream' = [stream EXCEPT ![c] = "closed"]
    /\ \E S \in SUBSET Pending : Become(S, "lost")
    /\ UNCHANGED session

Drop ==
    /\ session = "live"
    /\ session' = "dropped"
    /\ Become(IF stream = <<>> THEN Pending ELSE {}, "lost")
    /\ UNCHANGED stream

MailNext ==
    \/ \E i \in Items : Accept(i) \/ Refuse(i) \/ Receive(i)
    \/ \E c \in DOMAIN stream : Close(c)
    \/ Open
    \/ Drop

MailSpec == MailInit /\ [][MailNext]_mailVars
=============================================================================
