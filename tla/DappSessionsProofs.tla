-------------------------- MODULE DappSessionsProofs --------------------------
(***************************************************************************)
(* Proofs about the sessions of dApps, for any number of connections,      *)
(* loads and subscriptions, and channels of any size.                      *)
(***************************************************************************)
EXTENDS DappSessions, TLAPS

LEMMA LoadTyping ==
    ASSUME TypeOK, NEW l \in Loads
    PROVE  /\ load[l].conn \in Connections \cup {None}
           /\ load[l].profile \in MyProfiles \cup {None}
           /\ load[l].my \in Loads \cup {None}
  BY DEF TypeOK, LoadSet

(* Updates of a task keep it one. *)
LEMMA TaskBegun ==
    ASSUME NEW x \in TaskSet, NEW c \in Connections
    PROVE  [x EXCEPT !.st = "login", !.conn = c] \in TaskSet
  BY Zenon DEF TaskSet

LEMMA TaskUpdate ==
    ASSUME NEW x \in TaskSet, NEW st \in {"login", "streaming", "ended"}, NEW n \in Nat
    PROVE  [x EXCEPT !.st = st, !.pending = n] \in TaskSet
  BY Zenon DEF TaskSet

(* Cancelling touches one task, and only its cancelled flag. *)
LEMMA CancelledEffect ==
    ASSUME TypeOK, NEW f \in Subs \cup {None}
    PROVE  /\ Cancelled(f) \in [Subs -> TaskSet]
           /\ \A g \in Subs : /\ Cancelled(f)[g].st = fwd[g].st
                              /\ Cancelled(f)[g].conn = fwd[g].conn
                              /\ g # f => Cancelled(f)[g] = fwd[g]
                              /\ g = f => Cancelled(f)[g].cancelled
<1>1. CASE f = None
  BY <1>1, DappAssumption DEF TypeOK, Cancelled
<1>2. CASE f \in Subs
  <2>1. fwd[f] \in TaskSet
    BY <1>2 DEF TypeOK
  <2>2. [fwd[f] EXCEPT !.cancelled = TRUE] \in TaskSet
    BY <2>1, Zenon DEF TaskSet
  <2>3. Cancelled(f) = [fwd EXCEPT ![f] = [fwd[f] EXCEPT !.cancelled = TRUE]]
    BY <1>2, DappAssumption DEF Cancelled
  <2>4. \A g \in Subs : Cancelled(f)[g] = IF g = f THEN [fwd[f] EXCEPT !.cancelled = TRUE] ELSE fwd[g]
    BY <1>2, <2>3 DEF TypeOK
  <2>5. /\ [fwd[f] EXCEPT !.cancelled = TRUE].cancelled
        /\ [fwd[f] EXCEPT !.cancelled = TRUE].st = fwd[f].st
        /\ [fwd[f] EXCEPT !.cancelled = TRUE].conn = fwd[f].conn
    BY <2>1 DEF TaskSet
  <2>6. Cancelled(f) \in [Subs -> TaskSet]
    BY <1>2, <2>2, <2>3 DEF TypeOK
  <2> QED BY <2>4, <2>5, <2>6
<1> QED BY <1>1, <1>2

LEMMA InitInv == Init => DappInv
<1> SUFFICES ASSUME Init PROVE DappInv
  OBVIOUS
<1>1. [st |-> "new", conn |-> None, profile |-> None, my |-> None] \in LoadSet
  BY DEF LoadSet
<1>2. [st |-> "new", conn |-> None, pending |-> 0, cancelled |-> FALSE] \in TaskSet
  BY DEF TaskSet
<1>3. TypeOK
  BY <1>1, <1>2 DEF Init, TypeOK
<1>4. LoadsCached
  BY DEF Init, LoadsCached
<1>5. RunningIsOwned /\ Stoppable
  BY DEF Init, RunningIsOwned, Stoppable, Running
<1> QED BY <1>3, <1>4, <1>5 DEF DappInv

-----------------------------------------------------------------------------
(* Actions that leave the loads alone keep what is known of them, and so   *)
(* do actions that leave the tasks and their connections alone.            *)

LEMMA LoadsUntouched ==
    ASSUME DappInv, UNCHANGED <<load, cache>>
    PROVE  LoadsCached'
  BY DEF DappInv, LoadsCached

LEMMA TasksUntouched ==
    ASSUME DappInv, UNCHANGED <<conn, slot, fwd>>
    PROVE  RunningIsOwned' /\ Stoppable'
  BY DEF DappInv, RunningIsOwned, Stoppable, Running

LEMMA ConnectInv ==
    ASSUME DappInv, NEW c \in Connections, Connect(c)
    PROVE  DappInv'
<1>1. TypeOK'
  BY DEF DappInv, TypeOK, Connect
<1>2. LoadsCached'
  BY LoadsUntouched DEF Connect
<1>3. RunningIsOwned' /\ Stoppable'
  BY DEF DappInv, TypeOK, Connect, RunningIsOwned, Stoppable, Running
<1> QED BY <1>1, <1>2, <1>3 DEF DappInv

LEMMA AnswerOnlyInv ==
    ASSUME DappInv, NEW c \in Connections, out' \in [Connections -> Nat],
           UNCHANGED <<conn, busy, session, slot, load, cache, fwd>>
    PROVE  DappInv'
<1>1. TypeOK'
  BY DEF DappInv, TypeOK
<1> QED BY <1>1, LoadsUntouched, TasksUntouched DEF DappInv

LEMMA RespondType ==
    ASSUME TypeOK, NEW c \in Connections, Respond(c)
    PROVE  out' \in [Connections -> Nat]
  BY DEF TypeOK, Respond

LEMMA SlotsCancelled ==
    ASSUME DappInv, NEW c \in Connections, fwd' = Cancelled(slot[c]),
           slot' = [slot EXCEPT ![c] = None],
           \A d \in Connections \ {c} : conn'[d] = conn[d]
    PROVE  RunningIsOwned' /\ Stoppable'
<1>1. slot[c] \in Subs \cup {None}
  BY DEF DappInv, TypeOK
<1>2. \A g \in Subs : /\ fwd'[g].st = fwd[g].st
                      /\ fwd'[g].conn = fwd[g].conn
                      /\ g # slot[c] => fwd'[g] = fwd[g]
                      /\ g = slot[c] => fwd'[g].cancelled
  BY <1>1, CancelledEffect DEF DappInv
<1>3. RunningIsOwned'
  BY <1>2 DEF DappInv, RunningIsOwned, Running
<1>4. ASSUME NEW f \in Subs, Running(f)', ~fwd'[f].cancelled
      PROVE  conn'[fwd'[f].conn] = "open" /\ slot'[fwd'[f].conn] = f
  <2>1. f # slot[c] /\ fwd'[f] = fwd[f]
    BY <1>2, <1>4
  <2>2. conn[fwd[f].conn] = "open" /\ slot[fwd[f].conn] = f /\ fwd[f].conn \in Connections
    BY <1>4, <2>1 DEF DappInv, Stoppable, RunningIsOwned, Running
  <2>3. fwd[f].conn # c
    BY <2>1, <2>2
  <2> QED BY <2>1, <2>2, <2>3 DEF DappInv, TypeOK
<1>5. Stoppable'
  BY <1>4 DEF Stoppable
<1> QED BY <1>3, <1>5

LEMMA CloseInv ==
    ASSUME DappInv, NEW c \in Connections, Close(c)
    PROVE  DappInv'
<1>1. busy[c] \in Loads \cup {None} /\ slot[c] \in Subs \cup {None}
  BY DEF DappInv, TypeOK
<1>2. load' \in [Loads -> LoadSet]
  <2>1. load \in [Loads -> LoadSet]
    BY DEF DappInv, TypeOK
  <2>2. CASE busy[c] = None
    BY <2>1, <2>2 DEF Close
  <2>3. CASE busy[c] \in Loads
    <3>1. load[busy[c]] \in LoadSet
      BY <2>1, <2>3
    <3>2. [load[busy[c]] EXCEPT !.st = "dropped"] \in LoadSet
      BY <3>1 DEF LoadSet
    <3>3. load' = [load EXCEPT ![busy[c]] = [load[busy[c]] EXCEPT !.st = "dropped"]]
      BY <2>3, DappAssumption DEF Close
    <3> QED BY <2>1, <2>3, <3>2, <3>3
  <2> QED BY <1>1, <2>2, <2>3
<1>3. TypeOK'
  BY <1>1, <1>2, CancelledEffect DEF DappInv, TypeOK, Close
<1>4. \A l \in Loads : /\ load'[l].my = load[l].my /\ load'[l].profile = load[l].profile
                       /\ load'[l].st \in {load[l].st, "dropped"}
  BY <1>1, DappAssumption DEF DappInv, TypeOK, Close
<1>5. LoadsCached'
  BY <1>4 DEF DappInv, LoadsCached, Close
<1>6. RunningIsOwned' /\ Stoppable'
  BY SlotsCancelled DEF Close, DappInv, TypeOK
<1> QED BY <1>3, <1>5, <1>6 DEF DappInv

LEMMA UnsubscribeInv ==
    ASSUME DappInv, NEW c \in Connections, Unsubscribe(c)
    PROVE  DappInv'
<1>1. slot[c] \in Subs \cup {None}
  BY DEF DappInv, TypeOK
<1>2. TypeOK'
  BY <1>1, CancelledEffect, RespondType DEF DappInv, TypeOK, Unsubscribe
<1>3. LoadsCached'
  BY LoadsUntouched DEF Unsubscribe
<1>4. RunningIsOwned' /\ Stoppable'
  BY SlotsCancelled DEF Unsubscribe
<1> QED BY <1>2, <1>3, <1>4 DEF DappInv

LEMMA SubscribeInv ==
    ASSUME DappInv, NEW c \in Connections, NEW f \in Subs, Subscribe(c, f)
    PROVE  DappInv'
<1>1. slot[c] \in Subs \cup {None} /\ conn[c] = "open"
  BY DEF DappInv, TypeOK, Subscribe, MayAsk
<1> DEFINE before == Cancelled(slot[c])
<1>2. /\ before \in [Subs -> TaskSet]
      /\ \A g \in Subs : /\ before[g].st = fwd[g].st /\ before[g].conn = fwd[g].conn
                         /\ g # slot[c] => before[g] = fwd[g]
                         /\ g = slot[c] => before[g].cancelled
  BY <1>1, CancelledEffect DEF DappInv
<1>3. fwd' = [before EXCEPT ![f].st = "login", ![f].conn = c]
  BY DEF Subscribe, Superseded
<1> HIDE DEF before
<1>4. fwd' \in [Subs -> TaskSet]
  <2>1. fwd' = [before EXCEPT ![f] = [before[f] EXCEPT !.st = "login", !.conn = c]]
    BY <1>2, <1>3
  <2>2. [before[f] EXCEPT !.st = "login", !.conn = c] \in TaskSet
    BY <1>2, TaskBegun
  <2> QED BY <1>2, <2>1, <2>2
<1>5. TypeOK'
  BY <1>4, RespondType DEF DappInv, TypeOK, Subscribe
<1>6. LoadsCached'
  BY LoadsUntouched DEF Subscribe
<1>7. fwd'[f].conn = c /\ \A g \in Subs \ {f} : fwd'[g] = before[g]
  BY <1>2, <1>3 DEF TaskSet
<1>8. RunningIsOwned'
  BY <1>2, <1>7 DEF DappInv, RunningIsOwned, Running
<1>9. ASSUME NEW g \in Subs, Running(g)', ~fwd'[g].cancelled
      PROVE  conn'[fwd'[g].conn] = "open" /\ slot'[fwd'[g].conn] = g
  <2>1. CASE g = f
    BY <1>1, <1>7, <2>1 DEF Subscribe, DappInv, TypeOK
  <2>2. CASE g # f
    <3>1. fwd'[g] = fwd[g] /\ g # slot[c]
      BY <1>2, <1>7, <1>9, <2>2
    <3>2. conn[fwd[g].conn] = "open" /\ slot[fwd[g].conn] = g /\ fwd[g].conn \in Connections
      BY <1>9, <3>1 DEF DappInv, Stoppable, RunningIsOwned, Running
    <3> QED BY <3>1, <3>2 DEF Subscribe, DappInv, TypeOK
  <2> QED BY <2>1, <2>2
<1>10. Stoppable'
  BY <1>9 DEF Stoppable
<1> QED BY <1>5, <1>6, <1>8, <1>10 DEF DappInv

-----------------------------------------------------------------------------
(* A step of one forwarding task leaves its connection and flag alone. *)
LEMMA TaskStepInv ==
    ASSUME DappInv, NEW f \in Subs, NEW st \in {"login", "streaming", "ended"}, NEW n \in Nat,
           Running(f), fwd' = [fwd EXCEPT ![f].st = st, ![f].pending = n],
           out' \in [Connections -> Nat],
           UNCHANGED <<conn, busy, session, slot, load, cache>>
    PROVE  DappInv'
<1>0. fwd[f] \in TaskSet /\ fwd \in [Subs -> TaskSet]
  BY DEF DappInv, TypeOK
<1>1. TypeOK'
  <2>1. fwd' = [fwd EXCEPT ![f] = [fwd[f] EXCEPT !.st = st, !.pending = n]]
    BY <1>0
  <2>2. [fwd[f] EXCEPT !.st = st, !.pending = n] \in TaskSet
    BY <1>0, TaskUpdate
  <2>3. fwd' \in [Subs -> TaskSet]
    BY <1>0, <2>1, <2>2
  <2> QED BY <2>3 DEF DappInv, TypeOK
<1>2. \A g \in Subs : /\ fwd'[g].conn = fwd[g].conn /\ fwd'[g].cancelled = fwd[g].cancelled
                      /\ Running(g)' => Running(g)
  BY <1>0 DEF Running, TaskSet
<1>3. RunningIsOwned' /\ Stoppable'
  BY <1>2 DEF DappInv, RunningIsOwned, Stoppable
<1> QED BY <1>1, <1>3, LoadsUntouched DEF DappInv

LEMMA ForwardingInv ==
    ASSUME DappInv, NEW f \in Subs,
           Checkin(f) \/ StreamEnds(f) \/ NewEvent(f) \/ Forward(f) \/ Cancel(f)
    PROVE  DappInv'
<1>0. fwd[f].pending \in Nat /\ fwd \in [Subs -> TaskSet]
  BY DEF DappInv, TypeOK, TaskSet
<1>1. CASE Checkin(f)
  <2>1. fwd' = [fwd EXCEPT ![f].st = "streaming", ![f].pending = fwd[f].pending]
    BY <1>0, <1>1 DEF Checkin, TaskSet
  <2> QED BY <1>0, <1>1, <2>1, TaskStepInv DEF Checkin, Running, connVars, DappInv, TypeOK
<1>2. CASE StreamEnds(f) \/ Cancel(f)
  BY <1>2, TaskStepInv DEF StreamEnds, Cancel, Ended, connVars, DappInv, TypeOK
<1>3. CASE NewEvent(f)
  <2>1. fwd' = [fwd EXCEPT ![f].st = "streaming", ![f].pending = fwd[f].pending + 1]
    BY <1>0, <1>3 DEF NewEvent, TaskSet
  <2>2. Running(f) /\ fwd[f].pending + 1 \in Nat /\ out' \in [Connections -> Nat]
    BY <1>0, <1>3 DEF NewEvent, Running, connVars, DappInv, TypeOK
  <2> QED BY <1>3, <2>1, <2>2, TaskStepInv DEF NewEvent, connVars
<1>4. CASE Forward(f)
  <2>1. fwd' = [fwd EXCEPT ![f].st = fwd[f].st, ![f].pending = fwd[f].pending - 1]
    BY <1>0, <1>4 DEF Forward, TaskSet
  <2>2. fwd[f].conn \in Connections /\ fwd[f].pending - 1 \in Nat
        /\ fwd[f].st \in {"login", "streaming", "ended"}
    BY <1>0, <1>4 DEF Forward, DappInv, RunningIsOwned, Running, TaskSet
  <2>3. out' \in [Connections -> Nat]
    BY <1>4, <2>2, RespondType DEF Forward, DappInv
  <2> QED BY <1>4, <2>1, <2>2, <2>3, TaskStepInv DEF Forward
<1> QED BY <1>1, <1>2, <1>3, <1>4

-----------------------------------------------------------------------------
(* Loads *)

LEMMA BeginLoadInv ==
    ASSUME DappInv, NEW l \in Loads,
           \/ \E c \in Connections : GetSession(c, l)
           \/ \E p \in MyProfiles : AdminProfile(l, p) \/ SelectProfile(l, p)
    PROVE  DappInv'
<1>1. CASE \E c \in Connections : GetSession(c, l)
  <2> PICK c \in Connections : GetSession(c, l)
    BY <1>1
  <2>1. TypeOK'
    <3>1. load' = [load EXCEPT ![l] = [load[l] EXCEPT !.st = "selecting", !.conn = c]]
      BY DEF DappInv, TypeOK, GetSession
    <3>2. [load[l] EXCEPT !.st = "selecting", !.conn = c] \in LoadSet
      BY DEF DappInv, TypeOK, LoadSet
    <3> QED BY <3>1, <3>2 DEF DappInv, TypeOK, GetSession
  <2>2. LoadsCached'
    <3>1. load[l] \in LoadSet /\ load[l].my = None /\ cache' = cache
      BY DEF DappInv, TypeOK, LoadsCached, GetSession
    <3>2. load' = [load EXCEPT ![l] = [load[l] EXCEPT !.st = "selecting", !.conn = c]]
      BY DEF DappInv, TypeOK, GetSession
    <3>3. LET x == [load[l] EXCEPT !.st = "selecting", !.conn = c]
          IN  x.st = "selecting" /\ x.my = None
      BY <3>1 DEF LoadSet
    <3>4. /\ load'[l].st = "selecting" /\ load'[l].my = None
          /\ \A k \in Loads \ {l} : load'[k] = load[k]
      BY <3>2, <3>3 DEF DappInv, TypeOK
    <3> QED BY <3>1, <3>4 DEF DappInv, LoadsCached
  <2>3. RunningIsOwned' /\ Stoppable'
    BY TasksUntouched DEF GetSession
  <2> QED BY <2>1, <2>2, <2>3 DEF DappInv
<1>2. CASE \E p \in MyProfiles : AdminProfile(l, p) \/ SelectProfile(l, p)
  <2> PICK p \in MyProfiles : AdminProfile(l, p) \/ SelectProfile(l, p)
    BY <1>2
  <2>1. TypeOK'
    <3>1. load' = [load EXCEPT ![l] = [load[l] EXCEPT !.st = "loading", !.profile = p]]
      BY DEF DappInv, TypeOK, AdminProfile, SelectProfile
    <3>2. [load[l] EXCEPT !.st = "loading", !.profile = p] \in LoadSet
      BY DEF DappInv, TypeOK, LoadSet
    <3> QED BY <3>1, <3>2 DEF DappInv, TypeOK, AdminProfile, SelectProfile, connVars
  <2>2. LoadsCached'
    BY DEF DappInv, TypeOK, LoadSet, LoadsCached, AdminProfile, SelectProfile
  <2>3. RunningIsOwned' /\ Stoppable'
    BY TasksUntouched DEF AdminProfile, SelectProfile, connVars
  <2> QED BY <2>1, <2>2, <2>3 DEF DappInv
<1> QED BY <1>1, <1>2

LEMMA AnsweredType ==
    ASSUME TypeOK, NEW l \in Loads, NEW my \in Loads \cup {None}, Answered(l, my)
    PROVE  /\ busy' \in [Connections -> Loads \cup {None}]
           /\ session' \in [Connections -> Loads \cup {None}]
           /\ out' \in [Connections -> Nat]
<1>1. CASE load[l].conn = None
  BY <1>1 DEF TypeOK, Answered
<1>2. CASE load[l].conn # None
  <2>1. load[l].conn \in Connections
    BY <1>2, LoadTyping
  <2> QED BY <1>2, <2>1, RespondType DEF TypeOK, Answered
<1> QED BY <1>1, <1>2

LEMMA LoadFailsInv ==
    ASSUME DappInv, NEW l \in Loads, LoadFails(l)
    PROVE  DappInv'
<1>1. TypeOK'
  <2>1. load' = [load EXCEPT ![l] = [load[l] EXCEPT !.st = "failed"]]
    BY DEF DappInv, TypeOK, LoadFails
  <2>2. [load[l] EXCEPT !.st = "failed"] \in LoadSet
    BY DEF DappInv, TypeOK, LoadSet
  <2> QED BY <2>1, <2>2, AnsweredType DEF DappInv, TypeOK, LoadFails
<1>2. LoadsCached'
  BY DEF DappInv, TypeOK, LoadSet, LoadsCached, LoadFails
<1>3. RunningIsOwned' /\ Stoppable'
  BY TasksUntouched DEF LoadFails
<1> QED BY <1>1, <1>2, <1>3 DEF DappInv

LEMMA LoadDoneInv ==
    ASSUME DappInv, NEW l \in Loads, LoadDone(l)
    PROVE  DappInv'
<1> DEFINE p == load[l].profile
<1>1. p \in MyProfiles /\ load[l].my = None
  BY DEF DappInv, LoadsCached, LoadDone
<1>2. Created(l) \in Loads /\ (cache[p] # None => Created(l) = cache[p])
  BY <1>1 DEF DappInv, TypeOK, Created
<1>3. /\ cache' = [cache EXCEPT ![p] = Created(l)]
      /\ load' = [load EXCEPT ![l].st = "done", ![l].my = Created(l)]
      /\ Answered(l, Created(l))
      /\ UNCHANGED <<conn, slot, fwd>>
  BY DEF LoadDone
<1>4. TypeOK'
  <2>1. load' = [load EXCEPT ![l] = [load[l] EXCEPT !.st = "done", !.my = Created(l)]]
    BY <1>3 DEF DappInv, TypeOK
  <2>2. [load[l] EXCEPT !.st = "done", !.my = Created(l)] \in LoadSet
    <3>1. load[l] \in LoadSet
      BY DEF DappInv, TypeOK
    <3> QED BY <1>2, <3>1 DEF LoadSet
  <2>3. load' \in [Loads -> LoadSet] /\ cache' \in [MyProfiles -> Loads \cup {None}]
    BY <1>1, <1>2, <1>3, <2>1, <2>2 DEF DappInv, TypeOK
  <2>4. /\ busy' \in [Connections -> Loads \cup {None}]
        /\ session' \in [Connections -> Loads \cup {None}]
        /\ out' \in [Connections -> Nat]
    BY <1>2, <1>3, AnsweredType DEF DappInv
  <2> QED BY <1>3, <2>3, <2>4 DEF DappInv, TypeOK
<1>5. /\ cache'[p] = Created(l)
      /\ \A q \in MyProfiles : cache[q] # None => cache'[q] = cache[q]
      /\ load'[l].st = "done" /\ load'[l].my = Created(l) /\ load'[l].profile = p
      /\ \A k \in Loads \ {l} : load'[k] = load[k]
  BY <1>1, <1>2, <1>3 DEF DappInv, TypeOK, LoadSet
<1>6. LoadsCached'
  BY <1>1, <1>5 DEF DappInv, LoadsCached
<1>7. RunningIsOwned' /\ Stoppable'
  BY <1>3, TasksUntouched
<1> QED BY <1>4, <1>6, <1>7 DEF DappInv

-----------------------------------------------------------------------------
LEMMA ClientReadsInv ==
    ASSUME DappInv, NEW c \in Connections,
           ClientReads(c) \/ BadRequest(c) \/ SubscribeNothing(c)
    PROVE  DappInv'
<1>1. out' \in [Connections -> Nat]
  BY RespondType DEF DappInv, TypeOK, ClientReads, BadRequest, SubscribeNothing
<1> QED BY <1>1, AnswerOnlyInv DEF ClientReads, BadRequest, SubscribeNothing

LEMMA NextInv == DappInv /\ [Next]_vars => DappInv'
<1> SUFFICES ASSUME DappInv, [Next]_vars PROVE DappInv'
  OBVIOUS
<1>1. CASE UNCHANGED vars
  BY <1>1 DEF vars, connVars, DappInv, TypeOK, LoadsCached, RunningIsOwned, Stoppable, Running
<1>2. CASE Next
  BY <1>2, ConnectInv, CloseInv, ClientReadsInv, UnsubscribeInv, SubscribeInv, BeginLoadInv,
     LoadDoneInv, LoadFailsInv, ForwardingInv DEF Next
<1> QED BY <1>1, <1>2

THEOREM DappInvCorrect == Spec => []DappInv
  BY InitInv, NextInv, PTL DEF Spec

(* Connections, sessions, loads and forwarding tasks keep their types. *)
THEOREM DappTypeCorrect == Spec => []TypeOK
<1>1. DappInv => TypeOK
  BY DEF DappInv
<1> QED BY <1>1, DappInvCorrect, PTL

(***************************************************************************)
(* However loads overlap, all sessions of a profile share one MyProfile.   *)
(***************************************************************************)
THEOREM OneMyProfileCorrect == Spec => []OneMyProfile
<1>1. DappInv => OneMyProfile
  BY DEF DappInv, LoadsCached, OneMyProfile
<1> QED BY <1>1, DappInvCorrect, PTL

(***************************************************************************)
(* A forwarding task that was not cancelled belongs to an open connection  *)
(* that holds the means to cancel it.                                      *)
(***************************************************************************)
THEOREM StoppableCorrect == Spec => []Stoppable
<1>1. DappInv => Stoppable
  BY DEF DappInv
<1> QED BY <1>1, DappInvCorrect, PTL
=============================================================================
