-------------------------- MODULE EventFanoutProofs --------------------------
(***************************************************************************)
(* Proofs about the forwarding of events, for any number of listeners and  *)
(* events and any capacity of their channels.                              *)
(***************************************************************************)
EXTENDS EventFanout, TLAPS

(* A sequence, one element longer or without its head *)
LEMMA Appended ==
    ASSUME NEW S, NEW s \in Seq(S), NEW x \in S
    PROVE  /\ Append(s, x) \in Seq(S) /\ Len(Append(s, x)) = Len(s) + 1
           /\ DOMAIN Append(s, x) = 1..(Len(s) + 1)
           /\ \A n \in 1..Len(s) : Append(s, x)[n] = s[n]
           /\ Append(s, x)[Len(s) + 1] = x
  OBVIOUS

LEMMA Headless ==
    ASSUME NEW S, NEW s \in Seq(S), s # <<>>
    PROVE  /\ Tail(s) \in Seq(S) /\ Len(Tail(s)) = Len(s) - 1 /\ Len(s) > 0
           /\ Head(s) = s[1] /\ Head(s) \in S
           /\ DOMAIN Tail(s) = 1..(Len(s) - 1)
           /\ \A n \in 1..(Len(s) - 1) : Tail(s)[n] = s[n + 1]
  OBVIOUS

(* One more on either side of a sum *)
LEMMA Sums ==
    ASSUME NEW a \in Nat, NEW b \in Nat, NEW c \in Nat
    PROVE  /\ \A d \in Nat : a + b + c = d - 1 => a + b + (c + 1) = d
           /\ a + (b + 1) + c = a + b + (c + 1)
           /\ a + (b + 1) + (c - 1) = a + b + c
  OBVIOUS

LEMMA InitialInv == Init => FanoutInv
<1> SUFFICES ASSUME Init PROVE FanoutInv
  OBVIOUS
<1>1. TypeOK
  BY FanoutAssumption DEF Init, TypeOK
<1>2. InOnePlace /\ QueueFollows /\ UpToDate /\ NothingMissed /\ ListenersKept
  BY DEF Init, InOnePlace, QueueFollows, UpToDate, NothingMissed, ListenersKept
<1> QED BY <1>1, <1>2 DEF FanoutInv

(***************************************************************************)
(* Steps that leave the channels alone: what remains to be shown is where  *)
(* the listeners are, and how far the events are.                          *)
(***************************************************************************)
LEMMA TakeKeeps ==
    ASSUME FanoutInv, TakeEvent PROVE FanoutInv'
<1>1. /\ arrived \in Nat /\ arrived < MaxEvents /\ arrived' = arrived + 1
      /\ sending = {} /\ sent = {} /\ failed = {} /\ sending' = list /\ list' = {}
      /\ UNCHANGED <<session, task, sent, failed, receiver, queue, parked, since, got>>
  BY FanoutAssumption DEF TakeEvent, Ready, Forwarding, FanoutInv, TypeOK, chanVars
<1>2. TypeOK'
  BY <1>1, FanoutAssumption DEF FanoutInv, TypeOK
<1>3. InOnePlace' /\ ListenersKept'
  BY <1>1 DEF FanoutInv, InOnePlace, ListenersKept
<1>4. QueueFollows' /\ NothingMissed'
  BY <1>1 DEF FanoutInv, QueueFollows, NothingMissed
<1>5. UpToDate'
  BY <1>1 DEF FanoutInv, UpToDate
<1> QED BY <1>2, <1>3, <1>4, <1>5 DEF FanoutInv

LEMMA FinishKeeps ==
    ASSUME FanoutInv, FinishEvent PROVE FanoutInv'
<1>1. /\ sending = {} /\ sent' = {} /\ failed' = {}
      /\ list' = IF session = "live" THEN list \cup sent ELSE {}
      /\ UNCHANGED <<session, task, arrived, sending, receiver, queue, parked, since, got>>
  BY DEF FinishEvent, PutBack, chanVars
<1>2. TypeOK'
  BY <1>1 DEF FanoutInv, TypeOK
<1>3. InOnePlace' /\ ListenersKept'
  BY <1>1 DEF FanoutInv, InOnePlace, ListenersKept
<1>4. QueueFollows' /\ NothingMissed'
  BY <1>1 DEF FanoutInv, QueueFollows, NothingMissed
<1>5. UpToDate'
  BY <1>1 DEF FanoutInv, UpToDate
<1> QED BY <1>2, <1>3, <1>4, <1>5 DEF FanoutInv

LEMMA EndKeeps ==
    ASSUME FanoutInv, StopTask \/ DropSession PROVE FanoutInv'
<1>1. /\ list' \subseteq list /\ session' \in {session, "dropped"} /\ task' \in {task, "stopped"}
      /\ session' = "live" => list' = list /\ session = "live"
      /\ UNCHANGED <<arrived, sending, sent, failed, receiver, queue, parked, since, got>>
  BY DEF StopTask, DropSession, chanVars
<1>2. TypeOK'
  BY <1>1 DEF FanoutInv, TypeOK
<1>3. InOnePlace' /\ ListenersKept'
  BY <1>1 DEF FanoutInv, InOnePlace, ListenersKept
<1>4. QueueFollows' /\ NothingMissed'
  BY <1>1 DEF FanoutInv, QueueFollows, NothingMissed
<1>5. UpToDate'
  BY <1>1 DEF FanoutInv, UpToDate
<1> QED BY <1>2, <1>3, <1>4, <1>5 DEF FanoutInv

(* A new listener has nothing to catch up on. *)
LEMMA AddKeeps ==
    ASSUME FanoutInv, NEW l \in Listeners, AddListener(l) PROVE FanoutInv'
<1>1. /\ session = "live" /\ receiver[l] = "none" /\ list' = list \cup {l}
      /\ receiver' = [receiver EXCEPT ![l] = "open"] /\ since' = [since EXCEPT ![l] = arrived]
      /\ UNCHANGED <<session, task, arrived, sending, sent, failed, queue, parked, got>>
  BY DEF AddListener
<1>2. l \notin list /\ l \notin sending /\ l \notin sent
  BY <1>1 DEF FanoutInv, InOnePlace
<1>3. TypeOK'
  BY <1>1 DEF FanoutInv, TypeOK
<1>4. /\ queue[l] = <<>> /\ got[l] = <<>> /\ Len(queue[l]) = 0 /\ Len(got[l]) = 0
      /\ DOMAIN queue[l] = {} /\ DOMAIN got[l] = {}
  BY <1>1 DEF FanoutInv, QueueFollows
<1>5. /\ receiver'[l] = "open" /\ since'[l] = arrived /\ arrived \in Nat
      /\ \A k \in Listeners \ {l} : receiver'[k] = receiver[k] /\ since'[k] = since[k]
  BY <1>1, FanoutAssumption DEF FanoutInv, TypeOK
<1>6. InOnePlace'
  BY <1>1, <1>2, <1>5 DEF FanoutInv, TypeOK, InOnePlace
<1>7. ListenersKept'
  BY <1>1, <1>5 DEF FanoutInv, ListenersKept
<1>8. QueueFollows' /\ NothingMissed'
  BY <1>1, <1>4, <1>5 DEF FanoutInv, QueueFollows, NothingMissed
<1>9. UpToDate'
  BY <1>1, <1>2, <1>4, <1>5 DEF FanoutInv, UpToDate
<1> QED BY <1>3, <1>6, <1>7, <1>8, <1>9 DEF FanoutInv

-----------------------------------------------------------------------------
(* The event that is sent is the next one for the listener's channel. *)
LEMMA SendKeeps ==
    ASSUME FanoutInv, NEW l \in Listeners, SendTo(l) PROVE FanoutInv'
<1>1. /\ l \in sending /\ sending' = sending \ {l}
      /\ UNCHANGED <<session, task, arrived, list, receiver, since, got>>
      /\ arrived \in 1..MaxEvents /\ l \notin list /\ l \notin sent
  BY FanoutAssumption DEF SendTo, FanoutInv, TypeOK, InOnePlace
<1>2. CASE receiver[l] = "dropped"
  <2>1. /\ failed' = failed \cup {l} /\ UNCHANGED <<queue, parked, sent>>
    BY <1>2 DEF SendTo
  <2>2. TypeOK'
    BY <1>1, <2>1 DEF FanoutInv, TypeOK
  <2>3. InOnePlace' /\ ListenersKept'
    BY <1>1, <1>2, <2>1 DEF FanoutInv, InOnePlace, ListenersKept
  <2>4. QueueFollows' /\ NothingMissed'
    BY <1>1, <2>1 DEF FanoutInv, QueueFollows, NothingMissed
  <2>5. UpToDate'
    BY <1>1, <2>1 DEF FanoutInv, UpToDate
  <2> QED BY <2>2, <2>3, <2>4, <2>5 DEF FanoutInv
<1>3. CASE receiver[l] # "dropped"
  <2>1. /\ receiver[l] = "open" /\ sent' = sent \cup {l} /\ UNCHANGED failed
        /\ queue' = [queue EXCEPT ![l] = Append(queue[l], arrived)]
        /\ parked' \subseteq parked \cup {l}
    BY <1>3 DEF SendTo, CurrentEvent
  <2>2. queue[l] \in Seq(1..MaxEvents) /\ got[l] \in Seq(1..MaxEvents) /\ since[l] \in Nat
    BY FanoutAssumption DEF FanoutInv, TypeOK
  <2>3. /\ Append(queue[l], arrived) \in Seq(1..MaxEvents)
        /\ Len(Append(queue[l], arrived)) = Len(queue[l]) + 1
        /\ DOMAIN Append(queue[l], arrived) = 1..(Len(queue[l]) + 1)
        /\ \A n \in 1..Len(queue[l]) : Append(queue[l], arrived)[n] = queue[l][n]
        /\ Append(queue[l], arrived)[Len(queue[l]) + 1] = arrived
    BY <1>1, <2>2, Appended
  <2>4. /\ queue' \in [Listeners -> Seq(1..MaxEvents)]
        /\ queue'[l] = Append(queue[l], arrived)
        /\ \A k \in Listeners \ {l} : queue'[k] = queue[k]
    BY <2>1, <2>3 DEF FanoutInv, TypeOK
  <2>5. TypeOK'
    BY <1>1, <2>1, <2>4 DEF FanoutInv, TypeOK
  <2>6. InOnePlace' /\ ListenersKept'
    BY <1>1, <2>1 DEF FanoutInv, TypeOK, InOnePlace, ListenersKept
  <2>7. since[l] + Len(got[l]) + Len(queue[l]) = arrived - 1
    BY <1>1, <2>1 DEF FanoutInv, UpToDate
  <2>8. /\ Len(queue[l]) \in Nat /\ Len(got[l]) \in Nat /\ DOMAIN queue[l] = 1..Len(queue[l])
        /\ since[l] \in Nat /\ arrived \in Nat /\ Len(queue'[l]) = Len(queue[l]) + 1
    BY <1>1, <2>2, <2>3, <2>4, FanoutAssumption
  <2>9. \A n \in DOMAIN queue'[l] : queue'[l][n] = since[l] + Len(got[l]) + n
    <3> SUFFICES ASSUME NEW n \in 1..(Len(queue[l]) + 1)
                 PROVE  queue'[l][n] = since[l] + Len(got[l]) + n
      BY <2>3, <2>4
    <3>1. CASE n \in 1..Len(queue[l])
      BY <2>3, <2>4, <2>8, <3>1 DEF FanoutInv, QueueFollows
    <3>2. CASE n = Len(queue[l]) + 1
      <4>1. queue'[l][n] = arrived
        BY <2>3, <2>4, <3>2
      <4>2. since[l] + Len(got[l]) + (Len(queue[l]) + 1) = arrived
        <5>1. PICK a \in Nat, b \in Nat, c \in Nat, d \in Nat :
                 a = since[l] /\ b = Len(got[l]) /\ c = Len(queue[l]) /\ d = arrived
          BY <2>8
        <5>2. a + b + c = d - 1
          BY <2>7, <5>1
        <5>3. a + b + (c + 1) = d
          BY <5>2
        <5> QED BY <5>1, <5>3
      <4> QED BY <3>2, <4>1, <4>2
    <3> QED BY <2>8, <3>1, <3>2
  <2>10. QueueFollows'
    BY <1>1, <2>1, <2>4, <2>9 DEF FanoutInv, QueueFollows
  <2>11. since[l] + Len(got[l]) + Len(queue'[l]) = arrived
    <3>1. since[l] + Len(got[l]) + (Len(queue[l]) + 1) = arrived
      <4>1. since[l] \in Nat /\ Len(got[l]) \in Nat /\ Len(queue[l]) \in Nat /\ arrived \in Nat
        BY <2>8
      <4>2. PICK a \in Nat, b \in Nat, c \in Nat :
               a = since[l] /\ b = Len(got[l]) /\ c = Len(queue[l])
        BY <4>1
      <4>3. a + b + c = arrived - 1
        BY ONLY <2>7, <4>2
      <4>4. a + b + (c + 1) = arrived
        BY ONLY <4>1, <4>3, a \in Nat, b \in Nat, c \in Nat
      <4> QED BY ONLY <4>2, <4>4
    <3>2. Len(queue'[l]) = Len(queue[l]) + 1
      BY <2>8
    <3> QED BY ONLY <3>1, <3>2
  <2>12. UpToDate'
    BY <1>1, <2>1, <2>4, <2>11 DEF FanoutInv, UpToDate
  <2>13. NothingMissed'
    BY <1>1 DEF FanoutInv, NothingMissed
  <2> QED BY <2>5, <2>6, <2>10, <2>12, <2>13 DEF FanoutInv
<1> QED BY <1>2, <1>3

(* What is read goes on where the listener was. *)
LEMMA ReadKeeps ==
    ASSUME FanoutInv, NEW l \in Listeners, Read(l) PROVE FanoutInv'
<1>1. /\ queue[l] # <<>> /\ got' = [got EXCEPT ![l] = Append(got[l], Head(queue[l]))]
      /\ queue' = [queue EXCEPT ![l] = Tail(queue[l])] /\ parked' = parked \ {l}
      /\ UNCHANGED <<session, task, arrived, list, sending, sent, failed, receiver, since>>
  BY DEF Read, Unpark, taskVars
<1>2. queue[l] \in Seq(1..MaxEvents) /\ got[l] \in Seq(1..MaxEvents) /\ since[l] \in Nat
  BY FanoutAssumption DEF FanoutInv, TypeOK
<1>3. /\ Tail(queue[l]) \in Seq(1..MaxEvents) /\ Len(Tail(queue[l])) = Len(queue[l]) - 1
      /\ Len(queue[l]) > 0 /\ Head(queue[l]) = queue[l][1] /\ Head(queue[l]) \in 1..MaxEvents
      /\ DOMAIN Tail(queue[l]) = 1..(Len(queue[l]) - 1)
      /\ \A n \in 1..(Len(queue[l]) - 1) : Tail(queue[l])[n] = queue[l][n + 1]
  BY <1>1, <1>2, Headless
<1> DEFINE x == Head(queue[l])
<1>4. /\ Append(got[l], x) \in Seq(1..MaxEvents) /\ Len(Append(got[l], x)) = Len(got[l]) + 1
      /\ DOMAIN Append(got[l], x) = 1..(Len(got[l]) + 1)
      /\ \A n \in 1..Len(got[l]) : Append(got[l], x)[n] = got[l][n]
      /\ Append(got[l], x)[Len(got[l]) + 1] = x
  BY <1>2, <1>3, Appended
<1>5. /\ queue' \in [Listeners -> Seq(1..MaxEvents)] /\ got' \in [Listeners -> Seq(1..MaxEvents)]
      /\ queue'[l] = Tail(queue[l]) /\ got'[l] = Append(got[l], x)
      /\ \A k \in Listeners \ {l} : queue'[k] = queue[k] /\ got'[k] = got[k]
  BY <1>1, <1>3, <1>4 DEF FanoutInv, TypeOK
<1>6. /\ Len(queue[l]) \in Nat /\ Len(got[l]) \in Nat /\ since[l] \in Nat
      /\ DOMAIN queue[l] = 1..Len(queue[l]) /\ DOMAIN got[l] = 1..Len(got[l])
  BY <1>2
<1>7. Len(got'[l]) = Len(got[l]) + 1 /\ Len(queue'[l]) = Len(queue[l]) - 1
  BY <1>3, <1>4, <1>5
<1>8. x = since[l] + Len(got[l]) + 1
  BY <1>3, <1>6 DEF FanoutInv, QueueFollows
<1> HIDE DEF x
<1>9. TypeOK'
  BY <1>1, <1>5 DEF FanoutInv, TypeOK
<1>10. InOnePlace' /\ ListenersKept'
  BY <1>1 DEF FanoutInv, InOnePlace, ListenersKept
<1>11. ASSUME NEW n \in DOMAIN queue'[l] PROVE queue'[l][n] = since[l] + Len(got'[l]) + n
  <2>1. n \in 1..(Len(queue[l]) - 1) /\ n + 1 \in 1..Len(queue[l])
    BY <1>3, <1>5, <1>6, <1>11
  <2>2. queue[l][n + 1] = since[l] + Len(got[l]) + (n + 1)
    BY <1>6, <2>1 DEF FanoutInv, QueueFollows
  <2>3. queue'[l][n] = queue[l][n + 1]
    BY <1>3, <1>5, <2>1
  <2>4. since[l] + Len(got[l]) + (n + 1) = since[l] + Len(got'[l]) + n
    <3>1. since[l] + Len(got[l]) + (n + 1) = since[l] + (Len(got[l]) + 1) + n
      <4>1. since[l] \in Nat /\ Len(got[l]) \in Nat /\ n \in Nat
        BY <1>6, <2>1
      <4> QED BY ONLY <4>1, Sums
    <3>2. Len(got'[l]) = Len(got[l]) + 1
      BY <1>7
    <3> QED BY ONLY <3>1, <3>2
  <2> QED BY <2>2, <2>3, <2>4
<1>12. receiver[l] # "none"
  BY <1>1 DEF FanoutInv, QueueFollows
<1>13. QueueFollows'
  BY <1>1, <1>5, <1>11, <1>12 DEF FanoutInv, QueueFollows
<1>14. UpToDate'
  <2>1. since[l] + Len(got'[l]) + Len(queue'[l]) = since[l] + Len(got[l]) + Len(queue[l])
    <3>1. since[l] + (Len(got[l]) + 1) + (Len(queue[l]) - 1) = since[l] + Len(got[l]) + Len(queue[l])
      <4>1. since[l] \in Nat /\ Len(got[l]) \in Nat /\ Len(queue[l]) \in Nat
        BY <1>6
      <4>2. PICK a \in Nat, b \in Nat, c \in Nat :
               a = since[l] /\ b = Len(got[l]) /\ c = Len(queue[l])
        BY <4>1
      <4>3. a + (b + 1) + (c - 1) = a + b + c
        BY ONLY a \in Nat, b \in Nat, c \in Nat
      <4> QED BY ONLY <4>2, <4>3
    <3>2. Len(got'[l]) = Len(got[l]) + 1 /\ Len(queue'[l]) = Len(queue[l]) - 1
      BY <1>7
    <3> QED BY ONLY <3>1, <3>2
  <2> QED BY <1>1, <1>5, <2>1 DEF FanoutInv, UpToDate
<1>15. ASSUME NEW n \in DOMAIN got'[l] PROVE got'[l][n] = since[l] + n
  <2>1. CASE n \in 1..Len(got[l])
    BY <1>4, <1>5, <1>6, <2>1 DEF FanoutInv, NothingMissed
  <2>2. CASE n = Len(got[l]) + 1
    <3>1. got'[l][n] = x
      BY <1>4, <1>5, <2>2
    <3>2. x = since[l] + n
      BY <1>6, <1>8, <2>2
    <3> QED BY <3>1, <3>2
  <2> QED BY <1>4, <1>5, <1>6, <1>15, <2>1, <2>2
<1>16. NothingMissed'
  BY <1>1, <1>5, <1>15 DEF FanoutInv, NothingMissed
<1> QED BY <1>9, <1>10, <1>13, <1>14, <1>16 DEF FanoutInv

LEMMA DropListenerKeeps ==
    ASSUME FanoutInv, NEW l \in Listeners, DropListener(l) PROVE FanoutInv'
<1>1. /\ receiver[l] = "open" /\ receiver' = [receiver EXCEPT ![l] = "dropped"]
      /\ queue' = [queue EXCEPT ![l] = <<>>] /\ parked' = parked \ {l}
      /\ UNCHANGED <<session, task, arrived, list, sending, sent, failed, since, got>>
  BY DEF DropListener, taskVars
<1>2. /\ receiver'[l] = "dropped" /\ queue'[l] = <<>> /\ DOMAIN queue'[l] = {}
      /\ \A k \in Listeners \ {l} : receiver'[k] = receiver[k] /\ queue'[k] = queue[k]
  BY <1>1 DEF FanoutInv, TypeOK
<1>3. TypeOK'
  BY <1>1 DEF FanoutInv, TypeOK
<1>4. InOnePlace' /\ ListenersKept'
  BY <1>1, <1>2 DEF FanoutInv, TypeOK, InOnePlace, ListenersKept
<1>5. QueueFollows'
  BY <1>1, <1>2 DEF FanoutInv, QueueFollows
<1>6. UpToDate' /\ NothingMissed'
  BY <1>1, <1>2 DEF FanoutInv, UpToDate, NothingMissed
<1> QED BY <1>3, <1>4, <1>5, <1>6 DEF FanoutInv

-----------------------------------------------------------------------------
(***************************************************************************)
(* Each listener's channel goes on where the listener stopped to read and  *)
(* has everything that arrived, but for the send that is pending.          *)
(***************************************************************************)
THEOREM FanoutInvCorrect == Spec => []FanoutInv
<1>1. FanoutInv /\ [Next]_vars => FanoutInv'
  <2> SUFFICES ASSUME FanoutInv, [Next]_vars PROVE FanoutInv'
    OBVIOUS
  <2>1. CASE Next
    BY <2>1, TakeKeeps, FinishKeeps, EndKeeps, AddKeeps, SendKeeps, ReadKeeps, DropListenerKeeps
       DEF Next
  <2>2. CASE UNCHANGED vars
    BY <2>2 DEF vars, taskVars, chanVars, FanoutInv, TypeOK, InOnePlace, QueueFollows,
                UpToDate, NothingMissed, ListenersKept
  <2> QED BY <2>1, <2>2
<1> QED BY <1>1, InitialInv, PTL DEF Spec

(***************************************************************************)
(* What a listener reads are the events since it was added, all of them,   *)
(* in order and once.                                                      *)
(***************************************************************************)
THEOREM NothingMissedCorrect == Spec => []NothingMissed
<1>1. FanoutInv => NothingMissed
  BY DEF FanoutInv
<1> QED BY <1>1, FanoutInvCorrect, PTL

(***************************************************************************)
(* A live session never forgets a listener that did not drop its stream.   *)
(***************************************************************************)
THEOREM ListenersKeptCorrect == Spec => []ListenersKept
<1>1. FanoutInv => ListenersKept
  BY DEF FanoutInv
<1> QED BY <1>1, FanoutInvCorrect, PTL
=============================================================================
