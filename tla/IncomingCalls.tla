---------------------------- MODULE IncomingCalls ----------------------------
(***************************************************************************)
(* A call from one profile to another through the callee's home: from      *)
(* HomeConnectionServer::call (home-node/src/server.rs) over the sink of   *)
(* the callee's checked-in application, the RPC loop that offers one call  *)
(* after the other (server_dispatcher.rs) and the callee's client          *)
(* (client_proxy.rs), to the application, and the answer all the way back. *)
(*                                                                         *)
(* One profile is called, for one application.  A Call object holds the    *)
(* sending half of a oneshot channel whose other half the caller's request *)
(* waits on: wherever a Call is dropped unanswered, the caller's request   *)
(* fails.  Two timers of 30 seconds run, one in call() and one in the      *)
(* callee's client; nothing relates when they fire.                        *)
(*                                                                         *)
(* A Call and, at the callee, an IncomingCall are sent into bounded        *)
(* channels.  The send puts its item into the channel at once; if that     *)
(* exceeds the capacity, its future completes when the receiver makes room *)
(* or goes away (futures 0.1.24 and later) or at once (before).  Cargo     *)
(* admits both, so both are allowed here.  The timers are polled only      *)
(* after the send they follow has completed.                               *)
(*                                                                         *)
(* Calls wait in channels in no particular order (module Mailbox).         *)
(***************************************************************************)
EXTENDS Naturals, FiniteSets

CONSTANTS
    Calls,        \* call() requests
    MaxStreams,   \* bound: calls of checkin_app()
    Capacity,     \* of the channels, CHANNEL_CAPACITY
    None

Streams == 1..MaxStreams
Buffer == 0       \* where a call waits when the application is not checked in

Stages == {"new", "lookup", "waiting", "done", "left"}
Outcomes == {"connected", "unanswered", "failed"}
Answers == {"some", "none"}
Offers == {"ringing", "accepted", "declined", "dropped"}

ASSUME CallsAssumption ==
    /\ MaxStreams \in Nat /\ Capacity \in Nat
    /\ None \notin Calls /\ None \notin Nat
    /\ None \notin Answers \cup Outcomes \cup Offers \cup {"error"}

VARIABLES
    stage,      \* the chain of each call()
    outcome,    \* what call() returned
    slot,       \* oneshot of each Call: an answer, "dropped" or None yet
    place,      \* the sink's Vec or stream that has the Call, or None
    online,     \* the callee has a live session
    sink,       \* the sink of the application: Buffer or the newest stream
    opened,     \* number of streams opened so far
    stream,     \* "open" while the RPC loop of the stream runs
    parked,     \* calls whose push_call waits for room in its stream
    loop,       \* the call a loop offers, and the client's reply on its way back
    blocked,    \* streams whose receive waits for room in the application's channel
    unread,     \* IncomingCalls in the application's channel of each stream
    listening,  \* streams the application still reads
    offer,      \* what the application did with its IncomingCall
    lost        \* history: streams that were cut by a connection loss

callerVars == <<stage, outcome>>
homeVars == <<online, sink, opened>>
calleeVars == <<listening, unread, offer, lost>>
vars == <<callerVars, slot, place, homeVars, stream, parked, loop, blocked, calleeVars>>

Idle == [call |-> None, reply |-> None]

Init ==
    /\ stage = [c \in Calls |-> "new"]
    /\ outcome = [c \in Calls |-> None]
    /\ slot = [c \in Calls |-> None]
    /\ place = [c \in Calls |-> None]
    /\ online = FALSE /\ sink = Buffer /\ opened = 0
    /\ stream = [s \in Streams |-> "closed"]
    /\ loop = [s \in Streams |-> Idle]
    /\ parked = {} /\ blocked = {}
    /\ listening = {} /\ lost = {}
    /\ unread = [s \in Streams |-> {}]
    /\ offer = [c \in Calls |-> None]

(* The Calls of S are dropped unanswered. *)
DropCalls(S) ==
    /\ slot' = [c \in Calls |-> IF c \in S THEN "dropped" ELSE slot[c]]
    /\ place' = [c \in Calls |-> IF c \in S THEN None ELSE place[c]]

Return(c, o) ==
    /\ stage' = [stage EXCEPT ![c] = "done"]
    /\ outcome' = [outcome EXCEPT ![c] = o]

-----------------------------------------------------------------------------
(* HomeConnectionServer::call *)

Call(c) ==
    /\ stage[c] = "new"
    /\ stage' = [stage EXCEPT ![c] = "lookup"]
    /\ UNCHANGED <<outcome, slot, place, homeVars, stream, parked, loop, blocked, calleeVars>>

(* The callee is not hosted here, or the relation proof is not valid. *)
RefuseCall(c) ==
    /\ stage[c] = "lookup"
    /\ Return(c, "failed")
    /\ DropCalls({c})
    /\ UNCHANGED <<homeVars, stream, parked, loop, blocked, calleeVars>>

(* The calls in the channel of a stream. *)
Waiting(s) == {c \in Calls : place[c] = s /\ loop[s].call # c}

(***************************************************************************)
(* push_call: without a live session the Call is dropped and the chain     *)
(* goes on to wait for its answer; a sink whose receiver is gone is an     *)
(* error.  Into a full channel the send may have to wait.                  *)
(***************************************************************************)
PushCall(c) ==
    /\ stage[c] = "lookup"
    /\ \/ /\ ~online
          /\ DropCalls({c})
          /\ stage' = [stage EXCEPT ![c] = "waiting"]
          /\ UNCHANGED <<outcome, parked>>
       \/ /\ online
          /\ sink # Buffer => stream[sink] = "open"
          /\ place' = [place EXCEPT ![c] = sink]
          /\ stage' = [stage EXCEPT ![c] = "waiting"]
          /\ \/ UNCHANGED parked
             \/ /\ sink # Buffer /\ Cardinality(Waiting(sink)) >= Capacity
                /\ parked' = parked \cup {c}
          /\ UNCHANGED <<outcome, slot>>
       \/ /\ online /\ sink # Buffer /\ stream[sink] = "closed"
          /\ DropCalls({c})
          /\ Return(c, "failed")
          /\ UNCHANGED parked
    /\ UNCHANGED <<homeVars, stream, loop, blocked, calleeVars>>

ResultOf(answer) ==
    CASE answer = "some" -> "connected"
      [] answer = "none" -> "unanswered"
      [] answer = "dropped" -> "failed"

(* The chain of call() went on from push_call to its answer and its timer. *)
Awaiting(c) == stage[c] = "waiting" /\ c \notin parked

TakeAnswer(c) ==
    /\ Awaiting(c) /\ slot[c] # None
    /\ Return(c, ResultOf(slot[c]))
    /\ UNCHANGED <<slot, place, homeVars, stream, parked, loop, blocked, calleeVars>>

(***************************************************************************)
(* answer_fut.select(timeout_fut) polls the answer first.  The timer was   *)
(* created before the first lookup: it may fire at any time, also before   *)
(* the Call was pushed, and is heeded once push_call is through.           *)
(***************************************************************************)
TimeOut_OnlyOffered(c) ==
    /\ Awaiting(c) /\ slot[c] = None /\ offer[c] # None
    /\ Return(c, "unanswered")
    /\ UNCHANGED <<slot, place, homeVars, stream, parked, loop, blocked, calleeVars>>

TimeOut(c) ==
    /\ Awaiting(c) /\ slot[c] = None
    /\ Return(c, "unanswered")
    /\ UNCHANGED <<slot, place, homeVars, stream, parked, loop, blocked, calleeVars>>

(***************************************************************************)
(* The caller's connection is lost: its request is dropped, and the Call   *)
(* with it unless it was pushed.                                           *)
(***************************************************************************)
CallerLeaves(c) ==
    /\ stage[c] \in {"lookup", "waiting"}
    /\ stage' = [stage EXCEPT ![c] = "left"]
    /\ IF stage[c] = "lookup" THEN DropCalls({c}) ELSE UNCHANGED <<slot, place>>
    /\ parked' = parked \ {c}
    /\ UNCHANGED <<outcome, homeVars, stream, loop, blocked, calleeVars>>

-----------------------------------------------------------------------------
(* The callee's session, HomeSessionServer *)

StartSession ==
    /\ ~online
    /\ online' = TRUE
    /\ sink' = Buffer
    /\ UNCHANGED <<callerVars, slot, place, opened, stream, parked, loop, blocked, calleeVars>>

(* The sink is dropped; a loop that runs still has what was sent to it. *)
DropSession ==
    /\ online
    /\ online' = FALSE
    /\ sink' = Buffer
    /\ DropCalls({c \in Calls : place[c] = Buffer})
    /\ UNCHANGED <<callerVars, opened, stream, parked, loop, blocked, calleeVars>>

(* checkin_app: buffered calls are handed over to the new stream. *)
CheckinApp ==
    LET s == opened + 1 IN
    /\ online /\ opened < MaxStreams
    /\ opened' = s
    /\ sink' = s
    /\ stream' = [stream EXCEPT ![s] = "open"]
    /\ listening' = listening \cup {s}
    /\ place' = [c \in Calls |-> IF place[c] = Buffer THEN s ELSE place[c]]
    /\ UNCHANGED <<callerVars, slot, online, parked, loop, blocked, unread, offer, lost>>

-----------------------------------------------------------------------------
(* HomeSessionDispatcherCapnProto::checkin_app and the callee's client *)

(***************************************************************************)
(* The loop takes a call, which makes room for sends that wait for it, and *)
(* sends a receive request; the client starts a timer and sends an         *)
(* IncomingCall into the application's channel, or answers with an error   *)
(* if nobody reads that channel.                                           *)
(***************************************************************************)
Offer(s, c) ==
    /\ stream[s] = "open" /\ loop[s] = Idle
    /\ c \in Waiting(s)
    /\ \E woken \in SUBSET (parked \cap Waiting(s)) :
          /\ c \in parked => c \in woken
          /\ parked' = parked \ woken
    /\ loop' = [loop EXCEPT ![s] = [call |-> c, reply |-> IF s \in listening THEN None ELSE "error"]]
    /\ IF s \in listening
       THEN /\ offer' = [offer EXCEPT ![c] = "ringing"]
            /\ unread' = [unread EXCEPT ![s] = @ \cup {c}]
            /\ \/ UNCHANGED blocked
               \/ Cardinality(unread[s]) >= Capacity /\ blocked' = blocked \cup {s}
       ELSE UNCHANGED <<offer, unread, blocked>>
    /\ UNCHANGED <<callerVars, slot, place, homeVars, stream, listening, lost>>

(* The application takes an IncomingCall from its channel. *)
AppReads(s, c) ==
    /\ c \in unread[s]
    /\ unread' = [unread EXCEPT ![s] = @ \ {c}]
    /\ blocked' = blocked \ {s}
    /\ UNCHANGED <<callerVars, slot, place, homeVars, stream, parked, loop, listening, offer, lost>>

(***************************************************************************)
(* The application answers with Some sink or with None, or drops the       *)
(* IncomingCall, at any time, be anybody still waiting or not.             *)
(***************************************************************************)
AppActs(c, what) ==
    /\ offer[c] = "ringing"
    /\ \A s \in Streams : c \notin unread[s]
    /\ offer' = [offer EXCEPT ![c] = what]
    /\ UNCHANGED <<callerVars, slot, place, homeVars, stream, parked, loop, blocked, listening, unread, lost>>

(* It drops its end of the channel, with the IncomingCalls in it. *)
AppStopsReading(s) ==
    /\ s \in listening
    /\ listening' = listening \ {s}
    /\ unread' = [unread EXCEPT ![s] = {}]
    /\ offer' = [c \in Calls |-> IF c \in unread[s] THEN "dropped" ELSE offer[c]]
    /\ blocked' = blocked \ {s}
    /\ UNCHANGED <<callerVars, slot, place, homeVars, stream, parked, loop, lost>>

Reply(s, r) ==
    /\ loop' = [loop EXCEPT ![s] = [call |-> @.call, reply |-> r]]
    /\ UNCHANGED <<callerVars, slot, place, homeVars, stream, parked, blocked, calleeVars>>

(* The IncomingCall was sent: the answer and the timer are polled. *)
Ringing(s) == loop[s].call # None /\ loop[s].reply = None /\ s \notin blocked

ReplyAnswer(s) ==
    /\ Ringing(s)
    /\ \/ offer[loop[s].call] = "accepted" /\ Reply(s, "some")
       \/ offer[loop[s].call] = "declined" /\ Reply(s, "none")
       \/ offer[loop[s].call] = "dropped" /\ Reply(s, "error")

(* The client's timer: the request succeeds with no sink in its result. *)
TimerReply == "none"

RingTimer_Never(s) == FALSE

RingTimer(s) == Ringing(s) /\ offer[loop[s].call] = "ringing"

ReplyTimeout(s) == RingTimer(s) /\ Reply(s, TimerReply)

(***************************************************************************)
(* The reply reached the loop: the Call is answered, heard or not, and the *)
(* next call's turn comes.                                                 *)
(***************************************************************************)
NextTurn_KeepsReply(s) == loop' = [loop EXCEPT ![s].call = None]

NextTurn(s) == loop' = [loop EXCEPT ![s] = Idle]

AnswerCall_AlwaysSome(c, reply) ==
    /\ slot' = [slot EXCEPT ![c] = "some"]
    /\ place' = [place EXCEPT ![c] = None]

AnswerCall(c, reply) ==
    /\ slot' = [slot EXCEPT ![c] = reply]
    /\ place' = [place EXCEPT ![c] = None]

FinishOffer(s) ==
    /\ loop[s].reply \in Answers
    /\ AnswerCall(loop[s].call, loop[s].reply)
    /\ NextTurn(s)
    /\ UNCHANGED <<callerVars, homeVars, stream, parked, blocked, calleeVars>>

(***************************************************************************)
(* A loop that ends drops the call it offers and all that is left in its   *)
(* channel.  It ends with the first error reply or with the callee's       *)
(* connection, or when the stream was replaced or its session dropped and  *)
(* nothing is left to offer.                                               *)
(***************************************************************************)
HeldBy_NotOffered(s) == Waiting(s)

HeldBy(s) == {c \in Calls : place[c] = s}

EndLoop(s) ==
    /\ stream' = [stream EXCEPT ![s] = "closed"]
    /\ loop' = [loop EXCEPT ![s] = Idle]
    /\ DropCalls(HeldBy(s))
    /\ parked' = parked \ HeldBy(s)
    /\ blocked' = blocked \ {s}
    /\ UNCHANGED <<callerVars, homeVars, listening, unread, offer>>

FailLoop(s) ==
    /\ loop[s].reply = "error"
    /\ EndLoop(s)
    /\ UNCHANGED lost

LoseConnection(s) ==
    /\ stream[s] = "open"
    /\ EndLoop(s)
    /\ lost' = lost \cup {s}

CompleteLoop(s) ==
    /\ stream[s] = "open" /\ loop[s] = Idle
    /\ Waiting(s) = {}
    /\ s # sink
    /\ EndLoop(s)
    /\ UNCHANGED lost

-----------------------------------------------------------------------------
CallerNext(c) ==
    \/ Call(c)
    \/ RefuseCall(c)
    \/ PushCall(c)
    \/ TakeAnswer(c)
    \/ TimeOut(c)
    \/ CallerLeaves(c)

LoopNext(s) ==
    \/ \E c \in Calls : Offer(s, c)
    \/ \E c \in Calls : AppReads(s, c)
    \/ AppStopsReading(s)
    \/ ReplyAnswer(s)
    \/ ReplyTimeout(s)
    \/ FinishOffer(s)
    \/ FailLoop(s)
    \/ LoseConnection(s)
    \/ CompleteLoop(s)

AppNext == \E c \in Calls, what \in Offers \ {"ringing"} : AppActs(c, what)

SessionNext == StartSession \/ DropSession \/ CheckinApp

Next ==
    \/ \E c \in Calls : CallerNext(c)
    \/ \E s \in Streams : LoopNext(s)
    \/ AppNext
    \/ SessionNext

Spec == Init /\ [][Next]_vars

(***************************************************************************)
(* Store lookups answer, timers fire and the RPC system delivers requests  *)
(* and replies: the chain of a call() and the loop of a stream do not      *)
(* stand still at a step they can take.  Nobody needs to check in, to      *)
(* read, to answer or to hang up.                                          *)
(***************************************************************************)
CallRuns(c) == PushCall(c) \/ TakeAnswer(c) \/ TimeOut(c)

LoopRuns(s) ==
    \/ \E c \in Calls : Offer(s, c)
    \/ ReplyAnswer(s)
    \/ ReplyTimeout(s)
    \/ FinishOffer(s)
    \/ FailLoop(s)

Fairness ==
    /\ \A c \in Calls : WF_vars(CallRuns(c))
    /\ \A s \in Streams : WF_vars(LoopRuns(s))

FairSpec == Spec /\ Fairness

-----------------------------------------------------------------------------
(* Properties *)

TypeOK ==
    /\ stage \in [Calls -> Stages]
    /\ outcome \in [Calls -> Outcomes \cup {None}]
    /\ slot \in [Calls -> Answers \cup {"dropped", None}]
    /\ place \in [Calls -> Streams \cup {Buffer, None}]
    /\ online \in BOOLEAN
    /\ opened \in 0..MaxStreams
    /\ sink \in 0..opened
    /\ stream \in [Streams -> {"open", "closed"}]
    /\ loop \in [Streams -> {Idle} \cup [call : Calls, reply : Answers \cup {"error", None}]]
    /\ parked \in SUBSET Calls
    /\ blocked \in SUBSET Streams
    /\ listening \in SUBSET Streams
    /\ unread \in [Streams -> SUBSET Calls]
    /\ lost \in SUBSET Streams
    /\ offer \in [Calls -> Offers \cup {None}]

(***************************************************************************)
(* A caller is connected only if the callee's application accepted that    *)
(* very call: no timeout, refusal, replaced stream or late answer to an    *)
(* earlier call ever connects it.                                          *)
(***************************************************************************)
ConnectedIsAccepted ==
    \A c \in Calls : outcome[c] = "connected" => offer[c] = "accepted"

(***************************************************************************)
(* Nobody waits for a call that nobody has: a waiting caller either has a  *)
(* result ready, or its Call is in the sink of a live session or in a      *)
(* stream whose loop runs.                                                 *)
(***************************************************************************)
WaitingIsHeld ==
    \A c \in Calls : stage[c] = "waiting" /\ slot[c] = None =>
        \/ place[c] = Buffer /\ online /\ sink = Buffer
        \/ place[c] \in Streams /\ stream[place[c]] = "open"

(***************************************************************************)
(* Unanswered and declined calls do not end the stream of calls: the       *)
(* stream in use ends only if the connection was lost or the application   *)
(* dropped a call or the stream itself.                                    *)
(***************************************************************************)
StreamOutlivesCalls ==
    online /\ sink # Buffer /\ stream[sink] = "closed" =>
        \/ sink \in lost
        \/ sink \notin listening
        \/ \E c \in Calls : offer[c] = "dropped"

(***************************************************************************)
(* The application of stream s takes what is in its channel, again and     *)
(* again, or gives the stream up.  It need not answer.                     *)
(***************************************************************************)
KeepsReading(s) == []<>(unread[s] = {})

(***************************************************************************)
(* A call() returns unless the caller goes away: always once push_call is  *)
(* through, even if the callee never checks in, and from its start on if   *)
(* the callee's application reads its streams, although it never answers.  *)
(* push_call itself waits for room in the stream, and no timer ends that.  *)
(* A returned call never starts again: that each one returns is that again *)
(* and again none is under way.                                            *)
(***************************************************************************)
EveryCallReturns ==
    /\ []<>(\A c \in Calls : ~Awaiting(c))
    /\ (\A s \in Streams : KeepsReading(s)) =>
          []<>(\A c \in Calls : stage[c] \notin {"lookup", "waiting"})

(***************************************************************************)
(* An unanswered call does not block the ones behind it for good: again    *)
(* and again a stream that the application reads is empty, although call   *)
(* after call is left unanswered, because the callee's client times them   *)
(* out.                                                                    *)
(***************************************************************************)
LineMoves ==
    \A s \in Streams : KeepsReading(s) => []<>(\A c \in Calls : place[c] # s)

(***************************************************************************)
(* client_proxy.rs on the select of answer and timer in receive(): "Call   *)
(* will time out if not answered in a given period".  A call that a loop   *)
(* offers does not stay offered, whatever the application does.            *)
(***************************************************************************)
OfferTimesOut ==
    \A s \in Streams, c \in Calls : loop[s].call = c ~> loop[s].call # c

(***************************************************************************)
(* The inductive invariant: a Call is in one place and unanswered while it *)
(* is there, an offered call is in the stream that offers it, a waiting    *)
(* one was never offered, one that the application did not read yet still  *)
(* rings, and an answer or an error on its way back was the application's  *)
(* doing.                                                                  *)
(***************************************************************************)
HeldIsUnanswered ==
    \A c \in Calls : place[c] # None =>
        /\ slot[c] = None
        /\ stage[c] \notin {"new", "lookup"}
        /\ place[c] = Buffer => online /\ sink = Buffer
        /\ place[c] \in Streams => stream[place[c]] = "open"

NewIsUnanswered ==
    \A c \in Calls : stage[c] \in {"new", "lookup"} => slot[c] = None /\ outcome[c] = None

OfferedIsHeld ==
    \A s \in Streams :
        /\ loop[s].call # None => place[loop[s].call] = s
        /\ stream[s] = "open" => s <= opened

AnswersAreGiven ==
    /\ \A s \in Streams : loop[s].reply = "some" => offer[loop[s].call] = "accepted"
    /\ \A c \in Calls : slot[c] = "some" => offer[c] = "accepted"
    /\ \A c \in Calls : outcome[c] = "connected" => slot[c] = "some"

UnofferedIsNew ==
    \A c \in Calls :
        /\ stage[c] \in {"new", "lookup"} \/ place[c] = Buffer => offer[c] = None
        /\ \A s \in Streams : c \in Waiting(s) => offer[c] = None

UnreadIsRinging ==
    \A s \in Streams : \A c \in unread[s] :
        offer[c] = "ringing" /\ \A t \in Streams : c \in unread[t] => t = s

ErrorsAreFaults ==
    \A s \in Streams : loop[s].reply = "error" =>
        s \notin listening \/ offer[loop[s].call] = "dropped"

CallsInv ==
    /\ TypeOK
    /\ HeldIsUnanswered
    /\ NewIsUnanswered
    /\ OfferedIsHeld
    /\ AnswersAreGiven
    /\ ConnectedIsAccepted
    /\ WaitingIsHeld
    /\ UnofferedIsNew
    /\ UnreadIsRinging
    /\ ErrorsAreFaults
    /\ StreamOutlivesCalls
=============================================================================
