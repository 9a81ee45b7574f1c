------------------------- MODULE IncomingCallsProofs -------------------------
(***************************************************************************)
(* Proofs about IncomingCalls: the safety invariants of the model, for any *)
(* set of calls, any number of streams and any capacity of the channels.   *)
(***************************************************************************)
EXTENDS IncomingCalls, TLAPS

USE CallsAssumption DEF Streams, Buffer, Stages, Outcomes, Answers, Offers, Idle

(* A loop is idle or offers a call. *)
LEMMA LoopShape ==
    ASSUME TypeOK, NEW s \in Streams
    PROVE  /\ loop[s].call # None => loop[s].call \in Calls
           /\ loop[s].reply # None => loop[s].call \in Calls
           /\ loop[s].call = None => loop[s] = Idle
  BY DEF TypeOK

(* The Calls that exist and their answers keep their types when some are dropped. *)
LEMMA DropCallsType ==
    ASSUME TypeOK, NEW S, DropCalls(S)
    PROVE  /\ slot' \in [Calls -> Answers \cup {"dropped", None}]
           /\ place' \in [Calls -> Streams \cup {Buffer, None}]
  BY DEF TypeOK, DropCalls

(* Before the first call there is nothing to keep track of. *)
LEMMA CallsInvInit == Init => CallsInv
  <1> SUFFICES ASSUME Init PROVE CallsInv
    OBVIOUS
  <1> USE DEF Init
  <1>1. TypeOK
    <2>1. loop \in [Streams -> {Idle} \cup [call : Calls, reply : Answers \cup {"error", None}]]
      OBVIOUS
    <2>2. opened \in 0..MaxStreams /\ sink \in 0..opened
      OBVIOUS
    <2>5. online \in BOOLEAN
      OBVIOUS
    <2>3. /\ slot \in [Calls -> Answers \cup {"dropped", None}]
          /\ place \in [Calls -> Streams \cup {Buffer, None}]
          /\ offer \in [Calls -> Offers \cup {None}]
          /\ outcome \in [Calls -> Outcomes \cup {None}]
          /\ stage \in [Calls -> Stages]
      OBVIOUS
    <2>4. /\ stream \in [Streams -> {"open", "closed"}]
          /\ listening \in SUBSET Streams /\ lost \in SUBSET Streams
          /\ parked \in SUBSET Calls /\ blocked \in SUBSET Streams
          /\ unread \in [Streams -> SUBSET Calls]
      OBVIOUS
    <2> QED
      BY <2>1, <2>2, <2>3, <2>4, <2>5 DEF TypeOK
  <1>2. HeldIsUnanswered
    BY DEF HeldIsUnanswered
  <1>3. NewIsUnanswered
    BY DEF NewIsUnanswered
  <1>4. OfferedIsHeld
    BY DEF OfferedIsHeld
  <1>5. AnswersAreGiven
    BY DEF AnswersAreGiven
  <1>6. ConnectedIsAccepted
    BY DEF ConnectedIsAccepted
  <1>7. WaitingIsHeld
    BY DEF WaitingIsHeld
  <1>8. UnofferedIsNew
    BY DEF UnofferedIsNew, Waiting
  <1>9. ErrorsAreFaults
    BY DEF ErrorsAreFaults
  <1>10. StreamOutlivesCalls
    BY DEF StreamOutlivesCalls
  <1>11. UnreadIsRinging
    BY DEF UnreadIsRinging
  <1> QED
    BY <1>1, <1>2, <1>3, <1>4, <1>5, <1>6, <1>7, <1>8, <1>9, <1>10, <1>11 DEF CallsInv

(***************************************************************************)
(* Every step of call(), of the session, of a loop and of the application  *)
(* keeps the invariant.                                                    *)
(***************************************************************************)
LEMMA CallsInvStep == CallsInv /\ [Next]_vars => CallsInv'
  <1> SUFFICES ASSUME CallsInv, [Next]_vars PROVE CallsInv'
    OBVIOUS
  <1> USE DEF callerVars, homeVars, calleeVars
  <1>a. /\ TypeOK /\ HeldIsUnanswered /\ NewIsUnanswered /\ OfferedIsHeld
        /\ AnswersAreGiven /\ ConnectedIsAccepted /\ WaitingIsHeld
        /\ UnofferedIsNew /\ UnreadIsRinging /\ ErrorsAreFaults /\ StreamOutlivesCalls
    BY DEF CallsInv
  <1>b. \A s \in Streams :
           /\ loop[s].call # None => loop[s].call \in Calls
           /\ loop[s].reply # None => loop[s].call \in Calls
           /\ loop[s].call = None => loop[s] = Idle
    BY <1>a, LoopShape
  <1>1. ASSUME NEW c \in Calls, Call(c) PROVE CallsInv'
    BY <1>a, <1>b, <1>1
       DEF Call,
           CallsInv, TypeOK, HeldIsUnanswered, NewIsUnanswered, OfferedIsHeld,
           AnswersAreGiven, ConnectedIsAccepted, WaitingIsHeld, UnofferedIsNew,
           UnreadIsRinging, ErrorsAreFaults, StreamOutlivesCalls, Waiting
  <1>2. ASSUME NEW c \in Calls, RefuseCall(c) PROVE CallsInv'
    BY <1>a, <1>b, <1>2
       DEF RefuseCall, Return, DropCalls,
           CallsInv, TypeOK, HeldIsUnanswered, NewIsUnanswered, OfferedIsHeld,
           AnswersAreGiven, ConnectedIsAccepted, WaitingIsHeld, UnofferedIsNew,
           UnreadIsRinging, ErrorsAreFaults, StreamOutlivesCalls, Waiting
  <1>3. ASSUME NEW c \in Calls, PushCall(c) PROVE CallsInv'
    <2>0. sink \in Streams \cup {Buffer}
      BY <1>a DEF TypeOK
    <2>1. TypeOK'
      <3>1. /\ slot' \in [Calls -> Answers \cup {"dropped", None}]
            /\ place' \in [Calls -> Streams \cup {Buffer, None}]
        BY <1>a, <1>3, <2>0, DropCallsType DEF PushCall, TypeOK
      <3>2. stage' \in [Calls -> Stages] /\ outcome' \in [Calls -> Outcomes \cup {None}]
        BY <1>a, <1>3 DEF PushCall, Return, TypeOK
      <3> QED
        BY <1>a, <1>3, <3>1, <3>2 DEF PushCall, TypeOK
    <2>2. HeldIsUnanswered'
      BY <1>a, <1>b, <1>3, <2>0
         DEF PushCall, Return, DropCalls, TypeOK, HeldIsUnanswered, NewIsUnanswered,
             OfferedIsHeld
    <2>3. NewIsUnanswered'
      BY <1>a, <1>b, <1>3, <2>0
         DEF PushCall, Return, DropCalls, TypeOK, NewIsUnanswered, HeldIsUnanswered,
             OfferedIsHeld
    <2>4. OfferedIsHeld'
      BY <1>a, <1>b, <1>3, <2>0
         DEF PushCall, Return, DropCalls, TypeOK, OfferedIsHeld, HeldIsUnanswered
    <2>5. AnswersAreGiven'
      BY <1>a, <1>b, <1>3, <2>0
         DEF PushCall, Return, DropCalls, TypeOK, AnswersAreGiven, HeldIsUnanswered,
             NewIsUnanswered, OfferedIsHeld, UnofferedIsNew, Waiting
    <2>6. ConnectedIsAccepted'
      BY <1>a, <1>b, <1>3, <2>0
         DEF PushCall, Return, DropCalls, TypeOK, ConnectedIsAccepted, AnswersAreGiven,
             NewIsUnanswered, UnofferedIsNew, HeldIsUnanswered, Waiting
    <2>7. WaitingIsHeld'
      BY <1>a, <1>b, <1>3, <2>0
         DEF PushCall, Return, DropCalls, TypeOK, WaitingIsHeld, HeldIsUnanswered,
             NewIsUnanswered
    <2>8. UnofferedIsNew'
      BY <1>a, <1>b, <1>3, <2>0
         DEF PushCall, Return, DropCalls, TypeOK, UnofferedIsNew, OfferedIsHeld,
             HeldIsUnanswered, NewIsUnanswered, Waiting
    <2>9. ErrorsAreFaults'
      BY <1>a, <1>b, <1>3, <2>0
         DEF PushCall, Return, DropCalls, TypeOK, ErrorsAreFaults, OfferedIsHeld,
             HeldIsUnanswered, UnofferedIsNew, Waiting
    <2>10. StreamOutlivesCalls'
      BY <1>a, <1>b, <1>3, <2>0
         DEF PushCall, Return, DropCalls, TypeOK, StreamOutlivesCalls, ErrorsAreFaults,
             UnofferedIsNew, HeldIsUnanswered, OfferedIsHeld, NewIsUnanswered, Waiting
    <2>11. UnreadIsRinging'
      BY <1>a, <1>3 DEF PushCall, TypeOK, UnreadIsRinging
    <2> QED
      BY <2>1, <2>2, <2>3, <2>4, <2>5, <2>6, <2>7, <2>8, <2>9, <2>10, <2>11 DEF CallsInv
  <1>4. ASSUME NEW c \in Calls, TakeAnswer(c) PROVE CallsInv'
    BY <1>a, <1>b, <1>4
       DEF TakeAnswer, Awaiting, Return, ResultOf,
           CallsInv, TypeOK, HeldIsUnanswered, NewIsUnanswered, OfferedIsHeld,
           AnswersAreGiven, ConnectedIsAccepted, WaitingIsHeld, UnofferedIsNew,
           UnreadIsRinging, ErrorsAreFaults, StreamOutlivesCalls, Waiting
  <1>5. ASSUME NEW c \in Calls, TimeOut(c) PROVE CallsInv'
    BY <1>a, <1>b, <1>5
       DEF TimeOut, Awaiting, Return,
           CallsInv, TypeOK, HeldIsUnanswered, NewIsUnanswered, OfferedIsHeld,
           AnswersAreGiven, ConnectedIsAccepted, WaitingIsHeld, UnofferedIsNew,
           UnreadIsRinging, ErrorsAreFaults, StreamOutlivesCalls, Waiting
  <1>6. ASSUME NEW c \in Calls, CallerLeaves(c) PROVE CallsInv'
    BY <1>a, <1>b, <1>6
       DEF CallerLeaves, DropCalls,
           CallsInv, TypeOK, HeldIsUnanswered, NewIsUnanswered, OfferedIsHeld,
           AnswersAreGiven, ConnectedIsAccepted, WaitingIsHeld, UnofferedIsNew,
           UnreadIsRinging, ErrorsAreFaults, StreamOutlivesCalls, Waiting
  <1>7. ASSUME NEW s \in Streams, NEW c \in Calls, Offer(s, c) PROVE CallsInv'
    <2>0. /\ loop'[s].call = c /\ place[c] = s
          /\ \A t \in Streams \ {s} : loop'[t] = loop[t]
      BY <1>a, <1>7 DEF Offer, Waiting, TypeOK
    <2>1. TypeOK'
      <3>1. loop' \in [Streams -> {Idle} \cup [call : Calls, reply : Answers \cup {"error", None}]]
        BY <1>a, <1>7 DEF Offer, TypeOK
      <3>2. /\ \/ offer' = [offer EXCEPT ![c] = "ringing"] /\ unread' = [unread EXCEPT ![s] = @ \cup {c}]
               \/ offer' = offer /\ unread' = unread
            /\ blocked' = blocked \/ blocked' = blocked \cup {s}
            /\ \E woken : parked' = parked \ woken
        BY <1>7 DEF Offer
      <3>3. offer' \in [Calls -> Offers \cup {None}]
        BY <1>a, <3>2 DEF TypeOK
      <3>4. unread' \in [Streams -> SUBSET Calls]
        <4>1. unread \in [Streams -> SUBSET Calls] /\ unread[s] \cup {c} \in SUBSET Calls
          BY <1>a DEF TypeOK
        <4> QED
          BY <3>2, <4>1
      <3>5. parked' \in SUBSET Calls
        <4>1. parked \in SUBSET Calls
          BY <1>a DEF TypeOK
        <4> QED
          BY <3>2, <4>1
      <3>6. blocked' \in SUBSET Streams
        <4>1. blocked \in SUBSET Streams
          BY <1>a DEF TypeOK
        <4> QED
          BY <3>2, <4>1
      <3> QED
        BY <1>a, <1>7, <3>1, <3>3, <3>4, <3>5, <3>6 DEF Offer, TypeOK
    <2>2. HeldIsUnanswered'
      BY <1>a, <1>b, <1>7, <2>0
         DEF Offer, Waiting, TypeOK, HeldIsUnanswered, NewIsUnanswered, OfferedIsHeld
    <2>3. NewIsUnanswered'
      BY <1>a, <1>b, <1>7, <2>0
         DEF Offer, Waiting, TypeOK, NewIsUnanswered, HeldIsUnanswered, OfferedIsHeld
    <2>4. OfferedIsHeld'
      BY <1>a, <2>0, <1>7 DEF Offer, OfferedIsHeld
    <2>5. AnswersAreGiven'
      BY <1>a, <1>b, <1>7, <2>0
         DEF Offer, Waiting, TypeOK, AnswersAreGiven, HeldIsUnanswered, NewIsUnanswered,
             OfferedIsHeld, UnofferedIsNew
    <2>6. ConnectedIsAccepted'
      BY <1>a, <1>b, <1>7, <2>0
         DEF Offer, Waiting, TypeOK, ConnectedIsAccepted, AnswersAreGiven, NewIsUnanswered,
             UnofferedIsNew, HeldIsUnanswered
    <2>7. WaitingIsHeld'
      BY <1>a, <1>b, <1>7, <2>0
         DEF Offer, Waiting, TypeOK, WaitingIsHeld, HeldIsUnanswered, NewIsUnanswered
    <2>8. UnofferedIsNew'
      BY <1>a, <1>b, <1>7, <2>0
         DEF Offer, Waiting, TypeOK, UnofferedIsNew, OfferedIsHeld, HeldIsUnanswered,
             NewIsUnanswered
    <2>9. ErrorsAreFaults'
      BY <1>a, <1>b, <1>7, <2>0
         DEF Offer, Waiting, TypeOK, ErrorsAreFaults, OfferedIsHeld, HeldIsUnanswered,
             UnofferedIsNew
    <2>10. StreamOutlivesCalls'
      BY <1>a, <1>b, <1>7, <2>0
         DEF Offer, Waiting, TypeOK, StreamOutlivesCalls, ErrorsAreFaults, UnofferedIsNew,
             HeldIsUnanswered, OfferedIsHeld, NewIsUnanswered
    <2>11. UnreadIsRinging'
      <3>1. CASE s \in listening
        <4>1. offer[c] = None
          BY <1>a, <1>7 DEF Offer, UnofferedIsNew
        <4>2. \A t \in Streams : c \notin unread[t]
          BY <1>a, <4>1 DEF UnreadIsRinging
        <4>3. /\ offer' = [offer EXCEPT ![c] = "ringing"]
              /\ unread' = [unread EXCEPT ![s] = @ \cup {c}]
          BY <1>7, <3>1 DEF Offer
        <4> QED
          BY <1>a, <4>2, <4>3 DEF TypeOK, UnreadIsRinging
      <3>2. CASE s \notin listening
        BY <1>a, <1>7, <3>2 DEF Offer, UnreadIsRinging
      <3> QED
        BY <3>1, <3>2
    <2> QED
      BY <2>1, <2>2, <2>3, <2>4, <2>5, <2>6, <2>7, <2>8, <2>9, <2>10, <2>11 DEF CallsInv
  <1>8. ASSUME NEW s \in Streams, AppStopsReading(s) PROVE CallsInv'
    <2>0. \A c \in Calls : offer[c] # "ringing" => offer'[c] = offer[c]
      BY <1>a, <1>8 DEF AppStopsReading, TypeOK, UnreadIsRinging
    <2>1. /\ UNCHANGED <<callerVars, slot, place, homeVars, stream, parked, loop, lost>>
          /\ listening' \subseteq listening
      BY <1>8 DEF AppStopsReading
    <2>2. TypeOK'
      <3>1. offer' \in [Calls -> Offers \cup {None}]
        BY <1>a, <1>8 DEF AppStopsReading, TypeOK
      <3>2. unread' \in [Streams -> SUBSET Calls] /\ listening' \in SUBSET Streams /\ blocked' \in SUBSET Streams
        BY <1>a, <1>8 DEF AppStopsReading, TypeOK
      <3> QED
        BY <1>a, <2>1, <3>1, <3>2 DEF TypeOK
    <2>3. HeldIsUnanswered' /\ NewIsUnanswered' /\ OfferedIsHeld' /\ WaitingIsHeld'
      BY <1>a, <2>1 DEF HeldIsUnanswered, NewIsUnanswered, OfferedIsHeld, WaitingIsHeld
    <2>4. AnswersAreGiven' /\ ConnectedIsAccepted'
      BY <1>a, <1>b, <2>0, <2>1 DEF AnswersAreGiven, ConnectedIsAccepted
    <2>5. UnofferedIsNew'
      BY <1>a, <2>0, <2>1 DEF UnofferedIsNew, Waiting
    <2>6. UnreadIsRinging'
      BY <1>a, <1>8 DEF AppStopsReading, TypeOK, UnreadIsRinging
    <2>7. ErrorsAreFaults' /\ StreamOutlivesCalls'
      BY <1>a, <1>b, <2>0, <2>1 DEF ErrorsAreFaults, StreamOutlivesCalls
    <2> QED
      BY <2>2, <2>3, <2>4, <2>5, <2>6, <2>7 DEF CallsInv
  <1>9. ASSUME NEW s \in Streams, ReplyAnswer(s) PROVE CallsInv'
    <2>0. PICK r \in Answers \cup {"error"} :
             /\ loop[s].call \in Calls
             /\ Reply(s, r)
             /\ r = "some" => offer[loop[s].call] = "accepted"
             /\ r = "error" => offer[loop[s].call] = "dropped"
      BY <1>b, <1>9 DEF ReplyAnswer, Ringing
    <2>1. TypeOK'
      BY <1>a, <1>b, <2>0 DEF Reply, TypeOK
    <2>2. HeldIsUnanswered'
      BY <1>a, <1>b, <2>0 DEF Reply, TypeOK, HeldIsUnanswered, NewIsUnanswered, OfferedIsHeld
    <2>3. NewIsUnanswered'
      BY <1>a, <1>b, <2>0 DEF Reply, TypeOK, NewIsUnanswered, HeldIsUnanswered, OfferedIsHeld
    <2>4. OfferedIsHeld'
      BY <1>a, <1>b, <2>0 DEF Reply, TypeOK, OfferedIsHeld, HeldIsUnanswered
    <2>5. AnswersAreGiven'
      BY <1>a, <1>b, <2>0
         DEF Reply, TypeOK, AnswersAreGiven, HeldIsUnanswered, NewIsUnanswered,
             OfferedIsHeld, UnofferedIsNew, Waiting
    <2>6. ConnectedIsAccepted'
      BY <1>a, <1>b, <2>0
         DEF Reply, TypeOK, ConnectedIsAccepted, AnswersAreGiven, NewIsUnanswered,
             UnofferedIsNew, HeldIsUnanswered, Waiting
    <2>7. WaitingIsHeld'
      BY <1>a, <1>b, <2>0 DEF Reply, TypeOK, WaitingIsHeld, HeldIsUnanswered, NewIsUnanswered
    <2>8. UnofferedIsNew'
      BY <1>a, <1>b, <2>0
         DEF Reply, TypeOK, UnofferedIsNew, OfferedIsHeld, HeldIsUnanswered,
             NewIsUnanswered, Waiting
    <2>9. ErrorsAreFaults'
      BY <1>a, <1>b, <2>0
         DEF Reply, TypeOK, ErrorsAreFaults, OfferedIsHeld, HeldIsUnanswered,
             UnofferedIsNew, Waiting
    <2>10. StreamOutlivesCalls'
      BY <1>a, <1>b, <2>0
         DEF Reply, TypeOK, StreamOutlivesCalls, ErrorsAreFaults, UnofferedIsNew,
             HeldIsUnanswered, OfferedIsHeld, NewIsUnanswered, Waiting
    <2>11. UnreadIsRinging'
      BY <1>a, <2>0 DEF Reply, TypeOK, UnreadIsRinging
    <2> QED
      BY <2>1, <2>2, <2>3, <2>4, <2>5, <2>6, <2>7, <2>8, <2>9, <2>10, <2>11 DEF CallsInv
  <1>10. ASSUME NEW s \in Streams, ReplyTimeout(s) PROVE CallsInv'
    BY <1>a, <1>b, <1>10
       DEF ReplyTimeout, RingTimer, Ringing, Reply, TimerReply,
           CallsInv, TypeOK, HeldIsUnanswered, NewIsUnanswered, OfferedIsHeld,
           AnswersAreGiven, ConnectedIsAccepted, WaitingIsHeld, UnofferedIsNew,
           UnreadIsRinging, ErrorsAreFaults, StreamOutlivesCalls, Waiting
  <1>11. ASSUME NEW s \in Streams, FinishOffer(s) PROVE CallsInv'
    <2>0. loop[s].call \in Calls /\ place[loop[s].call] = s
      BY <1>a, <1>b, <1>11 DEF FinishOffer, OfferedIsHeld
    <2>1. TypeOK'
      BY <1>a, <1>b, <1>11, <2>0 DEF FinishOffer, AnswerCall, NextTurn, TypeOK
    <2>2. HeldIsUnanswered'
      BY <1>a, <1>b, <1>11, <2>0
         DEF FinishOffer, AnswerCall, NextTurn, TypeOK, HeldIsUnanswered, NewIsUnanswered,
             OfferedIsHeld
    <2>3. NewIsUnanswered'
      BY <1>a, <1>b, <1>11, <2>0
         DEF FinishOffer, AnswerCall, NextTurn, TypeOK, NewIsUnanswered, HeldIsUnanswered,
             OfferedIsHeld
    <2>4. OfferedIsHeld'
      BY <1>a, <1>b, <1>11, <2>0
         DEF FinishOffer, AnswerCall, NextTurn, TypeOK, OfferedIsHeld, HeldIsUnanswered
    <2>5. AnswersAreGiven'
      BY <1>a, <1>b, <1>11, <2>0
         DEF FinishOffer, AnswerCall, NextTurn, TypeOK, AnswersAreGiven, HeldIsUnanswered,
             NewIsUnanswered, OfferedIsHeld, UnofferedIsNew, Waiting
    <2>6. ConnectedIsAccepted'
      BY <1>a, <1>b, <1>11, <2>0
         DEF FinishOffer, AnswerCall, NextTurn, TypeOK, ConnectedIsAccepted,
             AnswersAreGiven, NewIsUnanswered, UnofferedIsNew, HeldIsUnanswered, Waiting
    <2>7. WaitingIsHeld'
      BY <1>a, <1>b, <1>11, <2>0
         DEF FinishOffer, AnswerCall, NextTurn, TypeOK, WaitingIsHeld, HeldIsUnanswered,
             NewIsUnanswered
    <2>8. UnofferedIsNew'
      BY <1>a, <1>b, <1>11, <2>0
         DEF FinishOffer, AnswerCall, NextTurn, TypeOK, UnofferedIsNew, OfferedIsHeld,
             HeldIsUnanswered, NewIsUnanswered, Waiting
    <2>9. ErrorsAreFaults'
      BY <1>a, <1>b, <1>11, <2>0
         DEF FinishOffer, AnswerCall, NextTurn, TypeOK, ErrorsAreFaults, OfferedIsHeld,
             HeldIsUnanswered, UnofferedIsNew, Waiting
    <2>10. StreamOutlivesCalls'
      BY <1>a, <1>b, <1>11, <2>0
         DEF FinishOffer, AnswerCall, NextTurn, TypeOK, StreamOutlivesCalls,
             ErrorsAreFaults, UnofferedIsNew, HeldIsUnanswered, OfferedIsHeld,
             NewIsUnanswered, Waiting
    <2>11. UnreadIsRinging'
      BY <1>a, <1>11 DEF FinishOffer, TypeOK, UnreadIsRinging
    <2> QED
      BY <2>1, <2>2, <2>3, <2>4, <2>5, <2>6, <2>7, <2>8, <2>9, <2>10, <2>11 DEF CallsInv
  <1>12. ASSUME NEW s \in Streams, FailLoop(s) PROVE CallsInv'
    BY <1>a, <1>b, <1>12
       DEF FailLoop, EndLoop, HeldBy, DropCalls,
           CallsInv, TypeOK, HeldIsUnanswered, NewIsUnanswered, OfferedIsHeld,
           AnswersAreGiven, ConnectedIsAccepted, WaitingIsHeld, UnofferedIsNew,
           UnreadIsRinging, ErrorsAreFaults, StreamOutlivesCalls, Waiting
  <1>13. ASSUME NEW s \in Streams, LoseConnection(s) PROVE CallsInv'
    <2>1. TypeOK'
      BY <1>a, <1>b, <1>13 DEF LoseConnection, EndLoop, HeldBy, DropCalls, TypeOK
    <2>2. HeldIsUnanswered'
      BY <1>a, <1>b, <1>13
         DEF LoseConnection, EndLoop, HeldBy, DropCalls, TypeOK, HeldIsUnanswered,
             NewIsUnanswered, OfferedIsHeld
    <2>3. NewIsUnanswered'
      BY <1>a, <1>b, <1>13
         DEF LoseConnection, EndLoop, HeldBy, DropCalls, TypeOK, NewIsUnanswered,
             HeldIsUnanswered, OfferedIsHeld
    <2>4. OfferedIsHeld'
      BY <1>a, <1>b, <1>13
         DEF LoseConnection, EndLoop, HeldBy, DropCalls, TypeOK, OfferedIsHeld,
             HeldIsUnanswered
    <2>5. AnswersAreGiven'
      BY <1>a, <1>b, <1>13
         DEF LoseConnection, EndLoop, HeldBy, DropCalls, TypeOK, AnswersAreGiven,
             HeldIsUnanswered, NewIsUnanswered, OfferedIsHeld, UnofferedIsNew, Waiting
    <2>6. ConnectedIsAccepted'
      BY <1>a, <1>b, <1>13
         DEF LoseConnection, EndLoop, HeldBy, DropCalls, TypeOK, ConnectedIsAccepted,
             AnswersAreGiven, NewIsUnanswered, UnofferedIsNew, HeldIsUnanswered, Waiting
    <2>7. WaitingIsHeld'
      BY <1>a, <1>b, <1>13
         DEF LoseConnection, EndLoop, HeldBy, DropCalls, TypeOK, WaitingIsHeld,
             HeldIsUnanswered, NewIsUnanswered
    <2>8. UnofferedIsNew'
      BY <1>a, <1>b, <1>13
         DEF LoseConnection, EndLoop, HeldBy, DropCalls, TypeOK, UnofferedIsNew,
             OfferedIsHeld, HeldIsUnanswered, NewIsUnanswered, Waiting
    <2>9. ErrorsAreFaults'
      BY <1>a, <1>b, <1>13
         DEF LoseConnection, EndLoop, HeldBy, DropCalls, TypeOK, ErrorsAreFaults,
             OfferedIsHeld, HeldIsUnanswered, UnofferedIsNew, Waiting
    <2>10. StreamOutlivesCalls'
      BY <1>a, <1>b, <1>13
         DEF LoseConnection, EndLoop, HeldBy, DropCalls, TypeOK, StreamOutlivesCalls,
             ErrorsAreFaults, UnofferedIsNew, HeldIsUnanswered, OfferedIsHeld,
             NewIsUnanswered, Waiting
    <2>11. UnreadIsRinging'
      BY <1>a, <1>13 DEF LoseConnection, EndLoop, TypeOK, UnreadIsRinging
    <2> QED
      BY <2>1, <2>2, <2>3, <2>4, <2>5, <2>6, <2>7, <2>8, <2>9, <2>10, <2>11 DEF CallsInv
  <1>14. ASSUME NEW s \in Streams, CompleteLoop(s) PROVE CallsInv'
    BY <1>a, <1>b, <1>14
       DEF CompleteLoop, EndLoop, HeldBy, DropCalls,
           CallsInv, TypeOK, HeldIsUnanswered, NewIsUnanswered, OfferedIsHeld,
           AnswersAreGiven, ConnectedIsAccepted, WaitingIsHeld, UnofferedIsNew,
           UnreadIsRinging, ErrorsAreFaults, StreamOutlivesCalls, Waiting
  <1>15. ASSUME NEW c \in Calls, NEW what \in Offers \ {"ringing"}, AppActs(c, what)
        PROVE  CallsInv'
    <2>1. TypeOK'
      BY <1>a, <1>b, <1>15 DEF AppActs, TypeOK
    <2>2. HeldIsUnanswered'
      BY <1>a, <1>b, <1>15 DEF AppActs, TypeOK, HeldIsUnanswered, NewIsUnanswered, OfferedIsHeld
    <2>3. NewIsUnanswered'
      BY <1>a, <1>b, <1>15 DEF AppActs, TypeOK, NewIsUnanswered, HeldIsUnanswered, OfferedIsHeld
    <2>4. OfferedIsHeld'
      BY <1>a, <1>b, <1>15 DEF AppActs, TypeOK, OfferedIsHeld, HeldIsUnanswered
    <2>5. AnswersAreGiven'
      BY <1>a, <1>b, <1>15
         DEF AppActs, TypeOK, AnswersAreGiven, HeldIsUnanswered, NewIsUnanswered,
             OfferedIsHeld, UnofferedIsNew, Waiting
    <2>6. ConnectedIsAccepted'
      BY <1>a, <1>b, <1>15
         DEF AppActs, TypeOK, ConnectedIsAccepted, AnswersAreGiven, NewIsUnanswered,
             UnofferedIsNew, HeldIsUnanswered, Waiting
    <2>7. WaitingIsHeld'
      BY <1>a, <1>b, <1>15 DEF AppActs, TypeOK, WaitingIsHeld, HeldIsUnanswered, NewIsUnanswered
    <2>8. UnofferedIsNew'
      BY <1>a, <1>b, <1>15
         DEF AppActs, TypeOK, UnofferedIsNew, OfferedIsHeld, HeldIsUnanswered,
             NewIsUnanswered, Waiting
    <2>9. ErrorsAreFaults'
      BY <1>a, <1>b, <1>15
         DEF AppActs, TypeOK, ErrorsAreFaults, OfferedIsHeld, HeldIsUnanswered,
             UnofferedIsNew, Waiting
    <2>10. StreamOutlivesCalls'
      BY <1>a, <1>b, <1>15
         DEF AppActs, TypeOK, StreamOutlivesCalls, ErrorsAreFaults, UnofferedIsNew,
             HeldIsUnanswered, OfferedIsHeld, NewIsUnanswered, Waiting
    <2>11. UnreadIsRinging'
      BY <1>a, <1>15 DEF AppActs, TypeOK, UnreadIsRinging
    <2> QED
      BY <2>1, <2>2, <2>3, <2>4, <2>5, <2>6, <2>7, <2>8, <2>9, <2>10, <2>11 DEF CallsInv
  <1>16. CASE StartSession
    BY <1>a, <1>b, <1>16
       DEF StartSession,
           CallsInv, TypeOK, HeldIsUnanswered, NewIsUnanswered, OfferedIsHeld,
           AnswersAreGiven, ConnectedIsAccepted, WaitingIsHeld, UnofferedIsNew,
           UnreadIsRinging, ErrorsAreFaults, StreamOutlivesCalls, Waiting
  <1>17. CASE DropSession
    <2>1. TypeOK'
      <3>1. online' \in BOOLEAN
        BY <1>17 DEF DropSession
      <3>2. opened' \in 0..MaxStreams /\ sink' \in 0..opened'
        BY <1>a, <1>17 DEF DropSession, TypeOK
      <3> QED
        BY <1>a, <1>17, <3>1, <3>2, DropCallsType DEF DropSession, TypeOK
    <2>2. HeldIsUnanswered'
      BY <1>a, <1>b, <1>17
         DEF DropSession, DropCalls, TypeOK, HeldIsUnanswered, NewIsUnanswered,
             OfferedIsHeld
    <2>3. NewIsUnanswered'
      BY <1>a, <1>b, <1>17
         DEF DropSession, DropCalls, TypeOK, NewIsUnanswered, HeldIsUnanswered,
             OfferedIsHeld
    <2>4. OfferedIsHeld'
      BY <1>a, <1>b, <1>17 DEF DropSession, DropCalls, TypeOK, OfferedIsHeld, HeldIsUnanswered
    <2>5. AnswersAreGiven'
      BY <1>a, <1>b, <1>17
         DEF DropSession, DropCalls, TypeOK, AnswersAreGiven, HeldIsUnanswered,
             NewIsUnanswered, OfferedIsHeld, UnofferedIsNew, Waiting
    <2>6. ConnectedIsAccepted'
      BY <1>a, <1>b, <1>17
         DEF DropSession, DropCalls, TypeOK, ConnectedIsAccepted, AnswersAreGiven,
             NewIsUnanswered, UnofferedIsNew, HeldIsUnanswered, Waiting
    <2>7. WaitingIsHeld'
      BY <1>a, <1>b, <1>17
         DEF DropSession, DropCalls, TypeOK, WaitingIsHeld, HeldIsUnanswered,
             NewIsUnanswered
    <2>8. UnofferedIsNew'
      BY <1>a, <1>b, <1>17
         DEF DropSession, DropCalls, TypeOK, UnofferedIsNew, OfferedIsHeld,
             HeldIsUnanswered, NewIsUnanswered, Waiting
    <2>9. ErrorsAreFaults'
      BY <1>a, <1>b, <1>17
         DEF DropSession, DropCalls, TypeOK, ErrorsAreFaults, OfferedIsHeld,
             HeldIsUnanswered, UnofferedIsNew, Waiting
    <2>10. StreamOutlivesCalls'
      BY <1>a, <1>b, <1>17
         DEF DropSession, DropCalls, TypeOK, StreamOutlivesCalls, ErrorsAreFaults,
             UnofferedIsNew, HeldIsUnanswered, OfferedIsHeld, NewIsUnanswered, Waiting
    <2>11. UnreadIsRinging'
      BY <1>a, <1>17 DEF DropSession, TypeOK, UnreadIsRinging
    <2> QED
      BY <2>1, <2>2, <2>3, <2>4, <2>5, <2>6, <2>7, <2>8, <2>9, <2>10, <2>11 DEF CallsInv
  <1>18. CASE CheckinApp
    <2>0. /\ opened + 1 \in Streams
          /\ stream[opened + 1] = "closed" /\ loop[opened + 1] = Idle
      <3>1. opened + 1 \in Streams /\ ~(opened + 1 <= opened)
        BY <1>a, <1>18 DEF CheckinApp, TypeOK
      <3>2. stream[opened + 1] # "open"
        BY <1>a, <3>1 DEF OfferedIsHeld
      <3>3. loop[opened + 1].call = None
        BY <1>a, <1>b, <3>1, <3>2 DEF OfferedIsHeld, HeldIsUnanswered
      <3> QED
        BY <1>a, <1>b, <3>1, <3>2, <3>3 DEF TypeOK
    <2>1. TypeOK'
      BY <1>a, <1>b, <1>18, <2>0 DEF CheckinApp, TypeOK
    <2>2. HeldIsUnanswered'
      BY <1>a, <1>b, <1>18, <2>0
         DEF CheckinApp, TypeOK, HeldIsUnanswered, NewIsUnanswered, OfferedIsHeld
    <2>3. NewIsUnanswered'
      BY <1>a, <1>b, <1>18, <2>0
         DEF CheckinApp, TypeOK, NewIsUnanswered, HeldIsUnanswered, OfferedIsHeld
    <2>4. OfferedIsHeld'
      BY <1>a, <1>b, <1>18, <2>0 DEF CheckinApp, TypeOK, OfferedIsHeld, HeldIsUnanswered
    <2>5. AnswersAreGiven'
      BY <1>a, <1>b, <1>18, <2>0
         DEF CheckinApp, TypeOK, AnswersAreGiven, HeldIsUnanswered, NewIsUnanswered,
             OfferedIsHeld, UnofferedIsNew, Waiting
    <2>6. ConnectedIsAccepted'
      BY <1>a, <1>b, <1>18, <2>0
         DEF CheckinApp, TypeOK, ConnectedIsAccepted, AnswersAreGiven, NewIsUnanswered,
             UnofferedIsNew, HeldIsUnanswered, Waiting
    <2>7. WaitingIsHeld'
      BY <1>a, <1>b, <1>18, <2>0
         DEF CheckinApp, TypeOK, WaitingIsHeld, HeldIsUnanswered, NewIsUnanswered
    <2>8. UnofferedIsNew'
      BY <1>a, <1>b, <1>18, <2>0
         DEF CheckinApp, TypeOK, UnofferedIsNew, OfferedIsHeld, HeldIsUnanswered,
             NewIsUnanswered, Waiting
    <2>9. ErrorsAreFaults'
      BY <1>a, <1>b, <1>18, <2>0
         DEF CheckinApp, TypeOK, ErrorsAreFaults, OfferedIsHeld, HeldIsUnanswered,
             UnofferedIsNew, Waiting
    <2>10. StreamOutlivesCalls'
      BY <1>a, <1>b, <1>18, <2>0
         DEF CheckinApp, TypeOK, StreamOutlivesCalls, ErrorsAreFaults, UnofferedIsNew,
             HeldIsUnanswered, OfferedIsHeld, NewIsUnanswered, Waiting
    <2>11. UnreadIsRinging'
      BY <1>a, <1>18 DEF CheckinApp, TypeOK, UnreadIsRinging
    <2> QED
      BY <2>1, <2>2, <2>3, <2>4, <2>5, <2>6, <2>7, <2>8, <2>9, <2>10, <2>11 DEF CallsInv
  <1>19. CASE UNCHANGED vars
    BY <1>19
       DEF vars, CallsInv, TypeOK, HeldIsUnanswered, NewIsUnanswered, OfferedIsHeld,
           AnswersAreGiven, ConnectedIsAccepted, WaitingIsHeld, UnofferedIsNew,
           UnreadIsRinging, ErrorsAreFaults, StreamOutlivesCalls, Waiting
  <1>20. ASSUME NEW s \in Streams, NEW c \in Calls, AppReads(s, c) PROVE CallsInv'
    <2>1. UNCHANGED <<callerVars, slot, place, homeVars, stream, parked, loop, listening, offer, lost>>
      BY <1>20 DEF AppReads
    <2>2. TypeOK'
      BY <1>a, <1>20 DEF AppReads, TypeOK
    <2>3. HeldIsUnanswered' /\ NewIsUnanswered' /\ OfferedIsHeld' /\ WaitingIsHeld'
      BY <1>a, <2>1 DEF HeldIsUnanswered, NewIsUnanswered, OfferedIsHeld, WaitingIsHeld
    <2>4. AnswersAreGiven' /\ ConnectedIsAccepted' /\ UnofferedIsNew'
      BY <1>a, <2>1 DEF AnswersAreGiven, ConnectedIsAccepted, UnofferedIsNew, Waiting
    <2>5. UnreadIsRinging'
      BY <1>a, <1>20 DEF AppReads, TypeOK, UnreadIsRinging
    <2>6. ErrorsAreFaults' /\ StreamOutlivesCalls'
      BY <1>a, <2>1 DEF ErrorsAreFaults, StreamOutlivesCalls
    <2> QED
      BY <2>2, <2>3, <2>4, <2>5, <2>6 DEF CallsInv
  <1> QED
    BY <1>1, <1>2, <1>3, <1>4, <1>5, <1>6, <1>7, <1>8, <1>9, <1>10, <1>11, <1>12, <1>13,
       <1>14, <1>15, <1>16, <1>17, <1>18, <1>19, <1>20
       DEF Next, CallerNext, LoopNext, AppNext, SessionNext

LEMMA CallsInvCorrect == Spec => []CallsInv
  BY CallsInvInit, CallsInvStep, PTL DEF Spec

-----------------------------------------------------------------------------
(***************************************************************************)
(* The variables of the model keep their types; in particular no loop      *)
(* keeps a reply of a call it no longer offers.                            *)
(***************************************************************************)
THEOREM CallsTypeCorrect == Spec => []TypeOK
  <1>1. CallsInv => TypeOK
    BY DEF CallsInv
  <1> QED
    BY <1>1, CallsInvCorrect, PTL

(* call() returns a channel to the callee only if the callee accepted. *)
THEOREM ConnectedIsAcceptedCorrect == Spec => []ConnectedIsAccepted
  <1>1. CallsInv => ConnectedIsAccepted
    BY DEF CallsInv
  <1> QED
    BY <1>1, CallsInvCorrect, PTL

(***************************************************************************)
(* Wherever a Call is dropped (no session, dropped session, ended loop),   *)
(* its caller is told; one that is not told is held by somebody.           *)
(***************************************************************************)
THEOREM WaitingIsHeldCorrect == Spec => []WaitingIsHeld
  <1>1. CallsInv => WaitingIsHeld
    BY DEF CallsInv
  <1> QED
    BY <1>1, CallsInvCorrect, PTL

(* No timeout and no refusal ends the loop of checkin_app. *)
THEOREM StreamOutlivesCallsCorrect == Spec => []StreamOutlivesCalls
  <1>1. CallsInv => StreamOutlivesCalls
    BY DEF CallsInv
  <1> QED
    BY <1>1, CallsInvCorrect, PTL
=============================================================================
