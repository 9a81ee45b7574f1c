------------------------ MODULE ClientSessionsProofs ------------------------
(***************************************************************************)
(* Proofs about a client's logins, session cache and homes, for any number *)
(* of homes, calls of join_home and login, and pairing responses.          *)
(***************************************************************************)
EXTENDS ClientSessions, TLAPS

(* A login goes on to another stage. *)
LEMMA LoginMoves ==
    ASSUME TypeOK, NEW l \in Logins, login[l].home \in Homes,
           NEW st \in LoginStages \ {"new"}, login' = [login EXCEPT ![l].st = st]
    PROVE  /\ login' \in [Logins -> LoginSet]
           /\ login'[l] = [st |-> st, home |-> login[l].home]
           /\ \A k \in Logins \ {l} : login'[k] = login[k]
<1>1. /\ login \in [Logins -> LoginSet]
      /\ login[l] \in [st : LoginStages \ {"new"}, home : Homes]
  BY ClientAssumption DEF TypeOK, LoginSet
<1>2. /\ [login[l] EXCEPT !.st = st] = [st |-> st, home |-> login[l].home]
      /\ [login[l] EXCEPT !.st = st] \in LoginSet
  BY <1>1 DEF LoginSet
<1>3. login' = [login EXCEPT ![l] = [login[l] EXCEPT !.st = st]]
  OBVIOUS
<1> QED BY <1>1, <1>2, <1>3

LEMMA CachedIsDone ==
    ASSUME ClientInv, NEW h \in Homes, cache[h] # None
    PROVE  cache[h] \in Logins /\ login[cache[h]].st = "done"
<1>1. cache[h] \in Logins
  BY DEF ClientInv, TypeOK
<1>2. login[cache[h]] = [st |-> "done", home |-> h]
  BY DEF ClientInv, SessionInv, CacheKnown
<1> QED BY <1>1, <1>2

(* Only new and finished logins, those that hit the cache, have no home. *)
LEMMA LoginHasHome ==
    ASSUME TypeOK, NEW l \in Logins, login[l].st \notin {"new", "done"}
    PROVE  login[l].home \in Homes /\ login[l].st \in LoginStages \ {"new"}
  BY DEF TypeOK, LoginSet

LEMMA InitialInv == Init => ClientInv
<1> SUFFICES ASSUME Init PROVE ClientInv
  OBVIOUS
<1>1. TypeOK
  BY DEF Init, TypeOK, JoinSet, LoginSet, EventStages
<1>2. SessionInv
  BY DEF Init, SessionInv, SessionsKnown, EntryIsLive, LiveIsRouted, LiveAt, CacheKnown, HandledOnce
<1>3. EventInv
  BY DEF Init, EventInv
<1>4. JoinsAlone /\ HostedIsNamed
  BY DEF Init, JoinsAlone, HostedIsNamed, Pending
<1> QED BY <1>1, <1>2, <1>3, <1>4 DEF ClientInv

(* What each part of the invariant depends on *)
LEMMA SessionFrame ==
    ASSUME SessionInv, UNCHANGED <<live, entry, clouded, login, cache, handlers, cut>>
    PROVE  SessionInv'
  BY DEF SessionInv, SessionsKnown, EntryIsLive, LiveIsRouted, LiveAt, CacheKnown, HandledOnce

LEMMA EventFrame ==
    ASSUME EventInv, UNCHANGED <<event, stored>>, live \subseteq live',
           \A s \in live : login'[s].home = login[s].home
    PROVE  EventInv'
  BY DEF EventInv

LEMMA JoinFrame ==
    ASSUME JoinsAlone, HostedIsNamed, UNCHANGED <<own, join, overlap>>, hosted' \subseteq hosted
    PROVE  JoinsAlone' /\ HostedIsNamed'
  BY DEF JoinsAlone, HostedIsNamed, Pending

-----------------------------------------------------------------------------
(* join_home *)

LEMMA JoinMoves ==
    ASSUME TypeOK, NEW j \in Joins, join[j].st # "new", NEW st \in JoinStages \ {"new"},
           join' = [join EXCEPT ![j].st = st]
    PROVE  /\ join' \in [Joins -> JoinSet]
           /\ join'[j].st = st /\ join'[j].home = join[j].home /\ join'[j].base = join[j].base
           /\ join[j].home \in Homes /\ join[j].base \in Homes \cup {None}
           /\ \A i \in Joins \ {j} : join'[i] = join[i]
<1>1. /\ join \in [Joins -> JoinSet]
      /\ join[j] \in [st : JoinStages \ {"new"}, home : Homes, base : Homes \cup {None}]
  BY DEF TypeOK, JoinSet
<1>2. [join[j] EXCEPT !.st = st] \in [st : JoinStages \ {"new"}, home : Homes, base : Homes \cup {None}]
  BY <1>1
<1>3. join' = [join EXCEPT ![j] = [join[j] EXCEPT !.st = st]]
  OBVIOUS
<1>4. join' \in [Joins -> JoinSet]
  BY <1>1, <1>2, <1>3 DEF JoinSet
<1>5. join'[j] = [join[j] EXCEPT !.st = st] /\ \A i \in Joins \ {j} : join'[i] = join[i]
  BY <1>1, <1>3
<1> QED BY <1>1, <1>4, <1>5

LEMMA JoinHomeKeeps ==
    ASSUME ClientInv, NEW j \in Joins, NEW h \in Homes, JoinHome(j, h) PROVE ClientInv'
<1>1. /\ join[j].st = "new" /\ overlap' = (overlap \/ \E i \in Joins : Pending(i))
      /\ join' = [join EXCEPT ![j] = [st |-> "asked", home |-> h, base |-> own]]
      /\ UNCHANGED <<own, hosted, live, entry, clouded, login, cache, held, handlers, event, stored, cut>>
  BY DEF JoinHome, homeVars, clientVars, eventVars
<1>2. TypeOK'
  BY <1>1 DEF ClientInv, TypeOK, JoinSet, JoinStages
<1>3. /\ join'[j] = [st |-> "asked", home |-> h, base |-> own]
      /\ \A i \in Joins \ {j} : join'[i] = join[i]
  BY <1>1 DEF ClientInv, TypeOK
<1>4. JoinsAlone'
  <2>1. CASE overlap'
    BY <2>1 DEF JoinsAlone
  <2>2. CASE ~overlap'
    <3>1. \A i \in Joins : join[i].st \notin {"asked", "registered"}
      BY <1>1, <2>2, Zenon DEF Pending
    <3>2. \A i \in Joins : join'[i].st \in {"asked", "registered"} => i = j /\ join'[i].base = own
      BY <1>3, <3>1
    <3>3. \A i \in Joins : join'[i].st \in {"asked", "registered"} =>
             join'[i].base = own' /\ \A k \in Joins : join'[k].st \in {"asked", "registered"} => i = k
      BY <1>1, <3>2
    <3> QED BY <3>3, Zenon DEF JoinsAlone, Pending
  <2> QED BY <2>1, <2>2
<1>5. HostedIsNamed'
  <2> SUFFICES ASSUME NEW h2 \in hosted, own # h2, ~overlap'
               PROVE  \E i \in Joins : /\ join'[i].home = h2
                                       /\ \/ join'[i].st \in {"registered", "lost"}
                                          \/ join'[i].st = "done" /\ own' # None /\ join'[i].base = own'
    BY <1>1, Zenon DEF HostedIsNamed
  <2>1. ~overlap
    BY <1>1, Zenon
  <2>2. PICK i \in Joins : /\ join[i].home = h2
                           /\ \/ join[i].st \in {"registered", "lost"}
                              \/ join[i].st = "done" /\ own # None /\ join[i].base = own
    BY <2>1 DEF ClientInv, HostedIsNamed
  <2>3. join'[i] = join[i]
    BY <1>1, <1>3, <2>2
  <2> QED BY <1>1, <2>2, <2>3
<1>6. SessionInv' /\ EventInv'
  BY <1>1, SessionFrame, EventFrame DEF ClientInv
<1> QED BY <1>2, <1>4, <1>5, <1>6 DEF ClientInv

LEMMA RegisteredKeeps ==
    ASSUME ClientInv, NEW j \in Joins, Registered(j) PROVE ClientInv'
<1>1. /\ join[j].st = "asked" /\ hosted' = hosted \cup {join[j].home}
      /\ join' = [join EXCEPT ![j].st = "registered"] /\ TypeOK
      /\ UNCHANGED <<own, overlap, live, entry, clouded, login, cache, held, handlers, event, stored, cut>>
  BY DEF Registered, clientVars, eventVars, ClientInv
<1>2. /\ join' \in [Joins -> JoinSet] /\ join[j].home \in Homes
      /\ join'[j].st = "registered" /\ join'[j].home = join[j].home /\ join'[j].base = join[j].base
      /\ \A i \in Joins \ {j} : join'[i] = join[i]
  <2>1. join[j].st # "new" /\ "registered" \in JoinStages \ {"new"}
    BY <1>1 DEF JoinStages
  <2> QED BY <1>1, <2>1, JoinMoves
<1>3. TypeOK'
  BY <1>1, <1>2 DEF TypeOK
<1>4. JoinsAlone'
  BY <1>1, <1>2 DEF ClientInv, JoinsAlone, Pending
<1>5. HostedIsNamed'
  BY <1>1, <1>2 DEF ClientInv, HostedIsNamed
<1>6. SessionInv' /\ EventInv'
  BY <1>1, SessionFrame, EventFrame DEF ClientInv
<1> QED BY <1>3, <1>4, <1>5, <1>6 DEF ClientInv

LEMMA JoinFailsKeeps ==
    ASSUME ClientInv, NEW j \in Joins, JoinFails(j) PROVE ClientInv'
<1>1. PICK st : st = IF join[j].st = "registered" THEN "lost" ELSE "failed"
  OBVIOUS
<1>2. /\ join[j].st \in {"asked", "registered"} /\ TypeOK
      /\ join' = [join EXCEPT ![j].st = st]
      /\ UNCHANGED <<own, overlap, hosted, live, entry, clouded, login, cache, held, handlers, event, stored, cut>>
  BY <1>1 DEF JoinFails, Pending, homeVars, clientVars, eventVars, ClientInv
<1>3. /\ join' \in [Joins -> JoinSet]
      /\ join'[j].st = st /\ join'[j].home = join[j].home /\ join'[j].base = join[j].base
      /\ \A i \in Joins \ {j} : join'[i] = join[i]
  <2>1. join[j].st # "new" /\ st \in JoinStages \ {"new"}
    BY <1>1, <1>2 DEF JoinStages
  <2> QED BY <1>2, <2>1, JoinMoves
<1>4. TypeOK'
  BY <1>2, <1>3 DEF TypeOK
<1>5. JoinsAlone'
  BY <1>1, <1>2, <1>3 DEF ClientInv, JoinsAlone, Pending
<1>6. HostedIsNamed'
  BY <1>1, <1>2, <1>3 DEF ClientInv, HostedIsNamed
<1>7. SessionInv' /\ EventInv'
  BY <1>2, SessionFrame, EventFrame DEF ClientInv
<1> QED BY <1>4, <1>5, <1>6, <1>7 DEF ClientInv

(* The answer of a join that was alone names the home the profile had. *)
LEMMA JoinDoneKeeps ==
    ASSUME ClientInv, NEW j \in Joins, JoinDone(j) PROVE ClientInv'
<1>1. /\ join[j].st = "registered" /\ join' = [join EXCEPT ![j].st = "done"] /\ TypeOK
      /\ own' = IF join[j].base = None THEN join[j].home ELSE join[j].base
      /\ UNCHANGED <<overlap, hosted, live, entry, clouded, login, cache, held, handlers, event, stored, cut>>
  BY DEF JoinDone, Returned, homeVars, clientVars, eventVars, ClientInv
<1>2. /\ join' \in [Joins -> JoinSet] /\ join[j].home \in Homes /\ join[j].base \in Homes \cup {None}
      /\ join'[j].st = "done" /\ join'[j].home = join[j].home /\ join'[j].base = join[j].base
      /\ \A i \in Joins \ {j} : join'[i] = join[i]
  <2>1. join[j].st # "new" /\ "done" \in JoinStages \ {"new"}
    BY <1>1 DEF JoinStages
  <2> QED BY <1>1, <2>1, JoinMoves
<1>3. TypeOK'
  BY <1>1, <1>2 DEF TypeOK
<1>4. JoinsAlone'
  BY <1>1, <1>2 DEF ClientInv, JoinsAlone, Pending
<1>5. HostedIsNamed'
  <2> SUFFICES ASSUME NEW h \in hosted, ~overlap
               PROVE  \/ own' = h
                      \/ \E i \in Joins : /\ join'[i].home = h
                                          /\ \/ join'[i].st \in {"registered", "lost"}
                                             \/ join'[i].st = "done" /\ own' # None /\ join'[i].base = own'
    BY <1>1 DEF HostedIsNamed
  <2>1. join[j].base = own /\ \A i \in Joins : Pending(i) => i = j
    BY <1>1 DEF ClientInv, JoinsAlone, Pending
  <2>2. own' # None
    BY <1>1, <1>2, ClientAssumption
  <2>3. CASE own = h
    <3>1. own' = h
      BY <1>1, <2>1, <2>3, ClientAssumption DEF TypeOK
    <3> QED BY <3>1
  <2>4. CASE own # h
    <3>1. PICK i \in Joins : /\ join[i].home = h
                             /\ \/ join[i].st \in {"registered", "lost"}
                                \/ join[i].st = "done" /\ own # None /\ join[i].base = own
      BY <2>4 DEF ClientInv, HostedIsNamed
    <3>2. CASE i = j
      <4>1. CASE own = None
        BY <1>1, <2>1, <3>1, <3>2, <4>1
      <4>2. CASE own # None
        <5>1. join'[j].home = h /\ join'[j].st = "done" /\ join'[j].base = own'
          BY <1>1, <1>2, <2>1, <3>1, <3>2, <4>2
        <5> QED BY <2>2, <5>1
      <4> QED BY <4>1, <4>2
    <3>3. CASE i # j
      <4>1. join'[i] = join[i] /\ join[i].st # "registered"
        BY <1>2, <2>1, <3>3 DEF Pending
      <4>2. CASE join[i].st = "lost"
        BY <3>1, <4>1, <4>2
      <4>3. CASE join[i].st # "lost"
        <5>1. join[i].st = "done" /\ own' = own /\ join[i].base = own'
          BY <1>1, <2>1, <3>1, <4>1, <4>3
        <5> QED BY <2>2, <3>1, <4>1, <5>1
      <4> QED BY <4>2, <4>3
    <3> QED BY <3>2, <3>3
  <2> QED BY <2>3, <2>4
<1>6. SessionInv' /\ EventInv'
  BY <1>1, SessionFrame, EventFrame DEF ClientInv
<1> QED BY <1>3, <1>4, <1>5, <1>6 DEF ClientInv

-----------------------------------------------------------------------------
(* login and login_home, up to the answer *)

LEMMA PendingLogin ==
    ASSUME ClientInv, NEW l \in Logins, login[l].st \in {"new", "asked", "open"},
           UNCHANGED <<live, entry, clouded, cache, handlers, cut>>,
           \A k \in Logins \ {l} : login'[k] = login[k],
           l \in live => login'[l].home = login[l].home /\ login'[l].st \in {"done", "failed"},
           login'[l].st # "open"
    PROVE  SessionInv' /\ \A s \in live : login'[s].home = login[s].home
<1>1. live \subseteq Logins /\ \A h \in Homes : cache[h] \in Logins \cup {None}
  BY DEF ClientInv, TypeOK
<1>2. \A s \in live : login'[s].home = login[s].home /\ login'[s].st \in {"open", "done", "failed"}
  BY <1>1 DEF ClientInv, SessionInv, SessionsKnown
<1>3. \A h \in Homes : LiveAt(h)' = LiveAt(h)
  BY <1>2 DEF LiveAt
<1>4. SessionsKnown'
  BY <1>2 DEF ClientInv, SessionInv, SessionsKnown
<1>5. EntryIsLive' /\ LiveIsRouted'
  BY <1>3 DEF ClientInv, SessionInv, EntryIsLive, LiveIsRouted
<1>6. \A h \in Homes : cache[h] # None => login'[cache[h]] = login[cache[h]]
  BY CachedIsDone
<1>7. CacheKnown'
  BY <1>6 DEF ClientInv, SessionInv, CacheKnown
<1>8. HandledOnce'
  BY DEF ClientInv, SessionInv, HandledOnce
<1> QED BY <1>2, <1>4, <1>5, <1>7, <1>8 DEF SessionInv

LEMMA CacheHitKeeps ==
    ASSUME ClientInv, NEW l \in Logins, NEW h \in Homes, CacheHit(l, h) PROVE ClientInv'
<1>1. /\ login[l].st = "new" /\ cache[h] # None /\ held' = held \cup {cache[h]} /\ TypeOK
      /\ login' = [login EXCEPT ![l] = [login[l] EXCEPT !.st = "done"]]
      /\ UNCHANGED <<own, join, overlap, hosted, live, entry, clouded, cache, handlers, event, stored, cut>>
  BY DEF CacheHit, HitHandlers, joinVars, homeVars, eventVars, ClientInv
<1>2. login[l] = [st |-> "new", home |-> None] /\ login \in [Logins -> LoginSet]
  BY <1>1 DEF TypeOK, LoginSet
<1>3. [login[l] EXCEPT !.st = "done"] = [st |-> "done", home |-> None]
  BY <1>2
<1>4. /\ login' \in [Logins -> LoginSet] /\ login'[l].st = "done"
      /\ \A k \in Logins \ {l} : login'[k] = login[k]
  BY <1>1, <1>2, <1>3 DEF LoginSet
<1>5. TypeOK'
  BY <1>1, <1>4 DEF TypeOK
<1>6. l \notin live
  BY <1>1 DEF ClientInv, SessionInv, SessionsKnown
<1>7. SessionInv' /\ \A s \in live : login'[s].home = login[s].home
  BY <1>1, <1>4, <1>6, PendingLogin
<1>8. EventInv' /\ JoinsAlone' /\ HostedIsNamed'
  BY <1>1, <1>7, EventFrame, JoinFrame DEF ClientInv
<1> QED BY <1>5, <1>7, <1>8 DEF ClientInv

LEMMA LoginHomeKeeps ==
    ASSUME ClientInv, NEW l \in Logins, NEW h \in Homes, LoginHome(l, h) PROVE ClientInv'
<1>1. /\ login[l].st = "new" /\ TypeOK
      /\ login' = [login EXCEPT ![l] = [st |-> "asked", home |-> h]]
      /\ UNCHANGED <<own, join, overlap, hosted, live, entry, clouded, cache, held, handlers, event, stored, cut>>
  BY DEF LoginHome, Asked, joinVars, homeVars, clientVars, eventVars, ClientInv
<1>2. /\ login' \in [Logins -> LoginSet] /\ login'[l].st = "asked"
      /\ \A k \in Logins \ {l} : login'[k] = login[k]
  BY <1>1 DEF TypeOK, LoginSet, LoginStages
<1>3. TypeOK'
  BY <1>1, <1>2 DEF TypeOK
<1>4. l \notin live
  BY <1>1 DEF ClientInv, SessionInv, SessionsKnown
<1>5. SessionInv' /\ \A s \in live : login'[s].home = login[s].home
  BY <1>1, <1>2, <1>4, PendingLogin
<1>6. EventInv' /\ JoinsAlone' /\ HostedIsNamed'
  BY <1>1, <1>5, EventFrame, JoinFrame DEF ClientInv
<1> QED BY <1>3, <1>5, <1>6 DEF ClientInv

LEMMA LoginFailsKeeps ==
    ASSUME ClientInv, NEW l \in Logins, LoginFails(l) PROVE ClientInv'
<1>1. /\ login[l].st \in {"asked", "open"} /\ TypeOK
      /\ login' = [login EXCEPT ![l].st = "failed"]
      /\ UNCHANGED <<own, join, overlap, hosted, live, entry, clouded, cache, held, handlers, event, stored, cut>>
  BY DEF LoginFails, joinVars, homeVars, clientVars, eventVars, ClientInv
<1>2. login[l].home \in Homes /\ login \in [Logins -> LoginSet] /\ "failed" \in LoginStages \ {"new"}
  BY <1>1, LoginHasHome DEF TypeOK, LoginStages
<1>3. /\ login' \in [Logins -> LoginSet]
      /\ login'[l] = [st |-> "failed", home |-> login[l].home]
      /\ \A k \in Logins \ {l} : login'[k] = login[k]
  BY <1>1, <1>2, LoginMoves
<1>4. TypeOK'
  BY <1>1, <1>3 DEF TypeOK
<1>5. SessionInv' /\ \A s \in live : login'[s].home = login[s].home
  <2>1. /\ login'[l].home = login[l].home /\ login'[l].st = "failed"
    BY <1>3
  <2> QED BY <1>1, <1>3, <2>1, PendingLogin
<1>6. EventInv' /\ JoinsAlone' /\ HostedIsNamed'
  BY <1>1, <1>5, EventFrame, JoinFrame DEF ClientInv
<1> QED BY <1>4, <1>5, <1>6 DEF ClientInv

(* The home opens a session: alone, it becomes the entry. *)
LEMMA OpenKeeps ==
    ASSUME ClientInv, NEW l \in Logins, OpenSession(l) PROVE ClientInv'
<1>0. PICK g : g = login[l].home
  OBVIOUS
<1>1. /\ login[l].st = "asked" /\ login' = [login EXCEPT ![l].st = "open"] /\ TypeOK
      /\ live' = live \cup {l} /\ entry' = [entry EXCEPT ![g] = IF entry[g] = None THEN l ELSE entry[g]]
      /\ clouded' = IF LiveAt(g) = {} THEN clouded ELSE clouded \cup {g}
      /\ UNCHANGED <<own, join, overlap, hosted, cache, held, handlers, event, stored, cut>>
  BY <1>0 DEF OpenSession, Enter, joinVars, clientVars, eventVars, ClientInv
<1>2. g \in Homes /\ login \in [Logins -> LoginSet] /\ "open" \in LoginStages \ {"new"}
  BY <1>0, <1>1, LoginHasHome DEF TypeOK, LoginStages
<1>3. /\ login' \in [Logins -> LoginSet] /\ login'[l] = [st |-> "open", home |-> g]
      /\ \A k \in Logins \ {l} : login'[k] = login[k]
  BY <1>0, <1>1, <1>2, LoginMoves
<1>4. TypeOK'
  BY <1>1, <1>2, <1>3 DEF TypeOK
<1>5. l \notin live /\ live \subseteq Logins
  BY <1>1 DEF ClientInv, SessionInv, SessionsKnown, TypeOK
<1>6. \A s \in live : login'[s] = login[s]
  BY <1>3, <1>5
<1>7. /\ LiveAt(g)' = LiveAt(g) \cup {l}
      /\ \A h \in Homes \ {g} : LiveAt(h)' = LiveAt(h)
  BY <1>1, <1>3, <1>6 DEF LiveAt
<1>8. /\ entry'[g] = IF entry[g] = None THEN l ELSE entry[g]
      /\ \A h \in Homes \ {g} : entry'[h] = entry[h]
  BY <1>1, <1>2 DEF TypeOK
<1>9. SessionsKnown'
  BY <1>1, <1>2, <1>3, <1>6 DEF ClientInv, SessionInv, SessionsKnown
<1>10. EntryIsLive'
  BY <1>7, <1>8 DEF ClientInv, SessionInv, EntryIsLive
<1>11. LiveIsRouted'
  <2> SUFFICES ASSUME NEW h \in Homes, h \notin clouded', NEW s \in LiveAt(h)' PROVE entry'[h] = s
    BY DEF LiveIsRouted
  <2>1. h \notin clouded
    BY <1>1
  <2>2. CASE h = g
    <3>1. LiveAt(g) = {}
      BY <1>1, <2>2
    <3>2. s = l /\ entry[g] = None
      BY <1>2, <1>7, <2>2, <3>1 DEF ClientInv, SessionInv, EntryIsLive
    <3> QED BY <1>8, <2>2, <3>2
  <2>3. CASE h # g
    BY <1>7, <1>8, <2>1, <2>3 DEF ClientInv, SessionInv, LiveIsRouted
  <2> QED BY <2>2, <2>3
<1>12. \A h \in Homes : cache[h] # None => cache[h] \in Logins /\ login'[cache[h]] = login[cache[h]]
  BY <1>1, <1>3, CachedIsDone
<1>13. CacheKnown'
  BY <1>1, <1>12 DEF ClientInv, SessionInv, CacheKnown
<1>14. HandledOnce'
  BY <1>1, <1>3 DEF ClientInv, SessionInv, HandledOnce
<1>15. SessionInv'
  BY <1>9, <1>10, <1>11, <1>13, <1>14 DEF SessionInv
<1>16. EventInv' /\ JoinsAlone' /\ HostedIsNamed'
  BY <1>1, <1>6, EventFrame, JoinFrame DEF ClientInv
<1> QED BY <1>4, <1>15, <1>16 DEF ClientInv

(* The answer arrives: the session is cached and gets its one handler. *)
LEMMA CacheSessionKeeps ==
    ASSUME ClientInv, NEW l \in Logins, CacheSession(l) PROVE ClientInv'
<1>0. PICK g : g = login[l].home
  OBVIOUS
<1>1. /\ login[l].st = "open" /\ login' = [login EXCEPT ![l].st = "done"] /\ TypeOK
      /\ cache' = [cache EXCEPT ![g] = l] /\ held' = held \cup {l}
      /\ handlers' = [handlers EXCEPT ![l] = handlers[l] + 1]
      /\ UNCHANGED <<own, join, overlap, hosted, live, entry, clouded, event, stored, cut>>
  BY <1>0 DEF CacheSession, StartHandler, joinVars, homeVars, eventVars, ClientInv
<1>2. /\ g \in Homes /\ login \in [Logins -> LoginSet] /\ "done" \in LoginStages \ {"new"}
      /\ handlers[l] = 0 /\ l \in live
  BY <1>0, <1>1, LoginHasHome
     DEF TypeOK, LoginStages, ClientInv, SessionInv, SessionsKnown, HandledOnce
<1>3. /\ login' \in [Logins -> LoginSet] /\ login'[l] = [st |-> "done", home |-> g]
      /\ \A k \in Logins \ {l} : login'[k] = login[k]
  BY <1>0, <1>1, <1>2, LoginMoves
<1>4. /\ handlers' \in [Logins -> Nat] /\ handlers'[l] = 1
      /\ \A k \in Logins \ {l} : handlers'[k] = handlers[k]
  BY <1>1, <1>2 DEF TypeOK
<1>5. TypeOK'
  BY <1>1, <1>2, <1>3, <1>4 DEF TypeOK
<1>6. live \subseteq Logins /\ \A s \in live : login'[s].home = login[s].home
  <2>1. live \subseteq Logins
    BY <1>1 DEF TypeOK
  <2>2. login'[l].home = login[l].home
    BY <1>0, <1>3
  <2> QED BY <1>3, <2>1, <2>2
<1>7. \A h \in Homes : LiveAt(h)' = LiveAt(h)
  BY <1>1, <1>6 DEF LiveAt
<1>8. SessionsKnown'
  BY <1>1, <1>3, <1>6 DEF ClientInv, SessionInv, SessionsKnown
<1>9. EntryIsLive' /\ LiveIsRouted'
  BY <1>1, <1>7 DEF ClientInv, SessionInv, EntryIsLive, LiveIsRouted
<1>10. /\ cache'[g] = l /\ \A h \in Homes \ {g} : cache'[h] = cache[h]
       /\ \A h \in Homes : cache[h] # None => cache[h] \in Logins \ {l}
  <2>1. cache'[g] = l /\ \A h \in Homes \ {g} : cache'[h] = cache[h]
    BY <1>1, <1>2 DEF TypeOK
  <2>2. \A h \in Homes : cache[h] # None => cache[h] \in Logins \ {l}
    BY <1>1, CachedIsDone
  <2> QED BY <2>1, <2>2
<1>11. CacheKnown'
  BY <1>1, <1>2, <1>3, <1>4, <1>10 DEF ClientInv, SessionInv, CacheKnown
<1>12. HandledOnce'
  BY <1>3, <1>4 DEF ClientInv, SessionInv, HandledOnce
<1>13. SessionInv'
  BY <1>8, <1>9, <1>11, <1>12 DEF SessionInv
<1>14. EventInv' /\ JoinsAlone' /\ HostedIsNamed'
  BY <1>1, <1>6, EventFrame, JoinFrame DEF ClientInv
<1> QED BY <1>5, <1>13, <1>14 DEF ClientInv

-----------------------------------------------------------------------------
(* Letting go, leaving and the end of a session *)

LEMMA ReleaseKeeps ==
    ASSUME ClientInv, NEW s \in Logins, Release(s) PROVE ClientInv'
<1>1. /\ held' = held \ {s}
      /\ UNCHANGED <<own, join, overlap, hosted, live, entry, clouded, login, cache, handlers, event, stored, cut>>
  BY DEF Release, joinVars, homeVars, eventVars
<1>2. TypeOK'
  BY <1>1 DEF ClientInv, TypeOK
<1>3. SessionInv' /\ EventInv' /\ JoinsAlone' /\ HostedIsNamed'
  BY <1>1, SessionFrame, EventFrame, JoinFrame DEF ClientInv
<1> QED BY <1>2, <1>3 DEF ClientInv

LEMMA LeaveKeeps ==
    ASSUME ClientInv, NEW h \in Homes, LeaveHome(h) PROVE ClientInv'
<1>1. /\ hosted' = hosted \ {h} /\ entry' = [entry EXCEPT ![h] = None] /\ clouded' = clouded \cup {h}
      /\ UNCHANGED <<own, join, overlap, live, login, cache, held, handlers, event, stored, cut>>
  BY DEF LeaveHome, joinVars, clientVars, eventVars
<1>2. TypeOK'
  BY <1>1 DEF ClientInv, TypeOK
<1>3. entry'[h] = None /\ \A g \in Homes \ {h} : entry'[g] = entry[g]
  BY <1>1 DEF ClientInv, TypeOK
<1>4. \A g \in Homes : LiveAt(g)' = LiveAt(g)
  BY <1>1 DEF LiveAt
<1>5. EntryIsLive' /\ LiveIsRouted'
  BY <1>1, <1>3, <1>4 DEF ClientInv, SessionInv, EntryIsLive, LiveIsRouted
<1>6. SessionsKnown' /\ CacheKnown' /\ HandledOnce'
  BY <1>1 DEF ClientInv, SessionInv, SessionsKnown, CacheKnown, HandledOnce
<1>7. EventInv' /\ JoinsAlone' /\ HostedIsNamed'
  BY <1>1, EventFrame, JoinFrame DEF ClientInv
<1> QED BY <1>2, <1>5, <1>6, <1>7 DEF ClientInv, SessionInv

(***************************************************************************)
(* DropSession and LoseConnection: the entry goes, and so do the events of *)
(* the session.  A home that is not clouded had no other session.          *)
(***************************************************************************)
LEMMA EndEffect ==
    ASSUME ClientInv, NEW s \in live, EndSession(s)
    PROVE  /\ s \in Logins /\ login[s].home \in Homes
           /\ live' = live \ {s}
           /\ entry' = [entry EXCEPT ![login[s].home] = None]
           /\ clouded' = IF LiveAt(login[s].home) = {s} THEN clouded \ {login[s].home} ELSE clouded
           /\ event' \in [Events -> [st : EventStages, home : Homes \cup {None}, at : Logins \cup {None}]]
           /\ \A e \in Events :
                 /\ event'[e].home = event[e].home /\ event'[e].at = event[e].at
                 /\ event'[e].st \in {event[e].st, "missed"}
                 /\ event'[e] # event[e] => event[e].st = "kept" /\ event[e].at = s
                 /\ event[e].st = "kept" /\ event[e].at = s => event'[e].st = "missed"
           /\ UNCHANGED <<own, join, overlap, hosted, cache, held, handlers, stored>>
<1>1. s \in Logins /\ login[s].home \in Homes
  BY DEF ClientInv, TypeOK, SessionInv, SessionsKnown
<1>2. /\ live' = live \ {s} /\ entry' = [entry EXCEPT ![login[s].home] = None]
      /\ clouded' = IF LiveAt(login[s].home) = {s} THEN clouded \ {login[s].home} ELSE clouded
      /\ event' = [e \in Events |->
            IF event[e].st = "kept" /\ event[e].at = s
            THEN [event[e] EXCEPT !.st = "missed"] ELSE event[e]]
      /\ UNCHANGED <<own, join, overlap, hosted, cache, held, handlers, stored>>
  BY DEF EndSession, joinVars, clientVars
<1> DEFINE T == [st : EventStages, home : Homes \cup {None}, at : Logins \cup {None}]
<1>3. ASSUME NEW e \in Events
      PROVE  /\ event'[e] \in T
             /\ event'[e].home = event[e].home /\ event'[e].at = event[e].at
             /\ event'[e].st \in {event[e].st, "missed"}
             /\ event'[e] # event[e] => event[e].st = "kept" /\ event[e].at = s
             /\ event[e].st = "kept" /\ event[e].at = s => event'[e].st = "missed"
  <2>1. event[e] \in T
    BY DEF ClientInv, TypeOK
  <2>2. [event[e] EXCEPT !.st = "missed"] \in T
    BY <2>1 DEF EventStages
  <2>3. event'[e] = IF event[e].st = "kept" /\ event[e].at = s
                    THEN [event[e] EXCEPT !.st = "missed"] ELSE event[e]
    BY <1>2
  <2>4. CASE event[e].st = "kept" /\ event[e].at = s
    BY <2>1, <2>2, <2>3, <2>4
  <2>5. CASE ~(event[e].st = "kept" /\ event[e].at = s)
    BY <2>1, <2>3, <2>5
  <2> QED BY <2>4, <2>5
<1>4. event' \in [Events -> T]
  <2>1. event' = [e \in Events |-> event'[e]]
    BY <1>2
  <2> QED BY <1>3, <2>1
<1> QED BY <1>1, <1>2, <1>3, <1>4

LEMMA EndKeeps ==
    ASSUME ClientInv, NEW s \in live, EndSession(s), cut' \in SUBSET Logins, cut \subseteq cut',
           login' \in [Logins -> LoginSet],
           \A k \in Logins : /\ login'[k].home = login[k].home
                             /\ login'[k].st \in {login[k].st, "failed"}
                             /\ login[k].st # "open" => login'[k] = login[k],
           login'[s].st # "open",
           s \in cut' \/ cache[login[s].home] # s
    PROVE  ClientInv'
<1>0. PICK g : g = login[s].home
  OBVIOUS
<1>1. /\ s \in Logins /\ g \in Homes
      /\ live' = live \ {s} /\ entry' = [entry EXCEPT ![g] = None]
      /\ clouded' = IF LiveAt(g) = {s} THEN clouded \ {g} ELSE clouded
      /\ event' \in [Events -> [st : EventStages, home : Homes \cup {None}, at : Logins \cup {None}]]
      /\ \A e \in Events :
            /\ event'[e].home = event[e].home /\ event'[e].at = event[e].at
            /\ event'[e].st \in {event[e].st, "missed"}
            /\ event'[e] # event[e] => event[e].st = "kept" /\ event[e].at = s
            /\ event[e].st = "kept" /\ event[e].at = s => event'[e].st = "missed"
      /\ UNCHANGED <<own, join, overlap, hosted, cache, held, handlers, stored>>
  BY <1>0, EndEffect
<1>2. TypeOK'
  BY <1>1 DEF ClientInv, TypeOK
<1>3. live \subseteq Logins
  BY DEF ClientInv, TypeOK
<1>4. /\ entry'[g] = None /\ \A h \in Homes \ {g} : entry'[h] = entry[h]
      /\ LiveAt(g)' = LiveAt(g) \ {s} /\ s \in LiveAt(g)
      /\ \A h \in Homes \ {g} : LiveAt(h)' = LiveAt(h)
  BY <1>0, <1>1, <1>3 DEF ClientInv, TypeOK, LiveAt
<1>5. SessionsKnown'
  <2>1. \A k \in live' : login'[k].home \in Homes /\ login'[k].st \in {"open", "done", "failed"}
    BY <1>1, <1>3 DEF ClientInv, SessionInv, SessionsKnown
  <2>2. \A k \in Logins : login'[k].st = "open" => k \in live'
    BY <1>1 DEF ClientInv, SessionInv, SessionsKnown
  <2> QED BY <2>1, <2>2 DEF SessionsKnown
<1>6. EntryIsLive'
  BY <1>4 DEF ClientInv, SessionInv, EntryIsLive
<1>7. LiveIsRouted'
  <2> SUFFICES ASSUME NEW h \in Homes, h \notin clouded', NEW k \in LiveAt(h)' PROVE entry'[h] = k
    BY DEF LiveIsRouted
  <2>1. CASE h = g
    <3>1. k \in LiveAt(g) /\ k # s
      BY <1>4, <2>1
    <3>2. g \notin clouded
      BY <1>1, <2>1, <3>1
    <3>3. entry[g] = k /\ entry[g] = s
      BY <1>1, <1>4, <3>1, <3>2 DEF ClientInv, SessionInv, LiveIsRouted
    <3> QED BY <3>1, <3>3
  <2>2. CASE h # g
    <3>1. h \notin clouded
      BY <1>1, <2>2
    <3> QED BY <1>4, <2>2, <3>1 DEF ClientInv, SessionInv, LiveIsRouted
  <2> QED BY <2>1, <2>2
<1>8. CacheKnown'
  <2> SUFFICES ASSUME NEW h \in Homes, cache[h] # None
               PROVE  /\ cache[h] \in live' \cup cut'
                      /\ login'[cache[h]] = [st |-> "done", home |-> h]
                      /\ handlers[cache[h]] > 0
    BY <1>1 DEF CacheKnown
  <2>1. /\ cache[h] \in live \cup cut /\ login[cache[h]] = [st |-> "done", home |-> h]
        /\ handlers[cache[h]] > 0
    BY DEF ClientInv, SessionInv, CacheKnown
  <2>2. login'[cache[h]] = login[cache[h]]
    BY CachedIsDone
  <2>3. cache[h] = s => h = g
    BY <1>0, <2>1
  <2>4. cache[h] \in live' \cup cut'
    BY <1>0, <1>1, <2>1, <2>3
  <2> QED BY <2>1, <2>2, <2>4
<1>9. HandledOnce'
  BY <1>1 DEF ClientInv, SessionInv, HandledOnce
<1>10. EventInv'
  <2> SUFFICES ASSUME NEW e \in Events
               PROVE  /\ stored[e] <= 1
                      /\ event'[e].st \in {"new", "kept"} => stored[e] = 0
                      /\ event'[e].st = "kept" =>
                            event'[e].at \in live' /\ event'[e].home = login'[event'[e].at].home
    BY <1>1 DEF EventInv
  <2>1. stored[e] <= 1 /\ (event[e].st \in {"new", "kept"} => stored[e] = 0)
    BY DEF ClientInv, EventInv
  <2>2. event'[e].st \in {"new", "kept"} => event'[e].st = event[e].st
    BY <1>1
  <2>3. ASSUME event'[e].st = "kept"
        PROVE  event'[e].at \in live' /\ event'[e].home = login'[event'[e].at].home
    <3>1. event[e].st = "kept" /\ event[e].at # s
      BY <1>1, <2>2, <2>3
    <3>2. event[e].at \in live /\ event[e].home = login[event[e].at].home
      BY <3>1 DEF ClientInv, EventInv
    <3> QED BY <1>1, <1>3, <3>1, <3>2
  <2> QED BY <2>1, <2>2, <2>3
<1>11. JoinsAlone' /\ HostedIsNamed'
  BY <1>1, JoinFrame DEF ClientInv
<1>12. SessionInv'
  BY <1>5, <1>6, <1>7, <1>8, <1>9 DEF SessionInv
<1> QED BY <1>2, <1>10, <1>11, <1>12 DEF ClientInv

LEMMA DropKeeps ==
    ASSUME ClientInv, NEW s \in Logins, DropSession(s) PROVE ClientInv'
<1>1. /\ s \in live /\ EndSession(s) /\ UNCHANGED <<login, cut>>
      /\ cache[login[s].home] # s /\ login[s].st # "open"
  BY DEF DropSession, InUse, Mine
<1>2. cut' \in SUBSET Logins /\ login' \in [Logins -> LoginSet]
  BY <1>1 DEF ClientInv, TypeOK
<1> QED BY <1>1, <1>2, EndKeeps

LEMMA LoseKeeps ==
    ASSUME ClientInv, NEW s \in Logins, LoseConnection(s) PROVE ClientInv'
<1>1. /\ s \in live /\ EndSession(s) /\ cut' = cut \cup {s} /\ TypeOK
      /\ login' = [login EXCEPT ![s].st = IF login[s].st = "open" THEN "failed" ELSE login[s].st]
  BY DEF LoseConnection, ClientInv
<1>2. PICK st : st = IF login[s].st = "open" THEN "failed" ELSE login[s].st
  OBVIOUS
<1>3. st \in LoginStages \ {"new"} /\ login[s].home \in Homes /\ st # "open"
  BY <1>1, <1>2 DEF LoginStages, ClientInv, SessionInv, SessionsKnown
<1>4. /\ login' \in [Logins -> LoginSet]
      /\ login'[s] = [st |-> st, home |-> login[s].home]
      /\ \A k \in Logins \ {s} : login'[k] = login[k]
  BY <1>1, <1>2, <1>3, LoginMoves
<1>5. login[s] = [st |-> login[s].st, home |-> login[s].home]
  BY <1>1, <1>3, ClientAssumption DEF TypeOK, LoginSet
<1>6. \A k \in Logins : /\ login'[k].home = login[k].home
                        /\ login'[k].st \in {login[k].st, "failed"}
                        /\ login[k].st # "open" => login'[k] = login[k]
  BY <1>2, <1>4, <1>5
<1>7. cut' \in SUBSET Logins
  BY <1>1 DEF TypeOK
<1> QED BY <1>1, <1>3, <1>4, <1>6, <1>7, EndKeeps

-----------------------------------------------------------------------------
(* Pairing responses *)

LEMMA PushKeeps ==
    ASSUME ClientInv, NEW h \in Homes, NEW e \in Events, Push(h, e) PROVE ClientInv'
<1> DEFINE new == [st |-> IF entry[h] = None THEN "vanished" ELSE "kept", home |-> h, at |-> entry[h]]
<1>1. /\ event[e].st = "new" /\ event' = [event EXCEPT ![e] = new]
      /\ UNCHANGED <<own, join, overlap, hosted, live, entry, clouded, login, cache, held, handlers, stored, cut>>
  BY DEF Push, joinVars, homeVars, clientVars
<1>2. new \in [st : EventStages, home : Homes \cup {None}, at : Logins \cup {None}]
  BY DEF EventStages, ClientInv, TypeOK
<1>3. event'[e] = new /\ \A d \in Events \ {e} : event'[d] = event[d]
  BY <1>1 DEF ClientInv, TypeOK
<1>4. TypeOK'
  BY <1>1, <1>2 DEF ClientInv, TypeOK
<1>5. new.st = "kept" => new.at \in live /\ new.home = login[new.at].home
  BY DEF ClientInv, SessionInv, EntryIsLive, LiveAt
<1>6. new.st \in {"vanished", "kept"}
  OBVIOUS
<1> HIDE DEF new
<1>7. EventInv'
  BY <1>1, <1>3, <1>5, <1>6 DEF ClientInv, EventInv
<1>8. SessionInv' /\ JoinsAlone' /\ HostedIsNamed'
  BY <1>1, SessionFrame, JoinFrame DEF ClientInv
<1> QED BY <1>4, <1>7, <1>8 DEF ClientInv

LEMMA DeliverKeeps ==
    ASSUME ClientInv, NEW e \in Events, Deliver(e) PROVE ClientInv'
<1>0. PICK s : s = event[e].at
  OBVIOUS
<1>1. /\ event[e].st = "kept"
      /\ \/ /\ stored' = [stored EXCEPT ![e] = stored[e] + handlers[s]]
            /\ event' = [event EXCEPT ![e].st = "stored"]
         \/ /\ event' = [event EXCEPT ![e].st = "missed"] /\ stored' = stored
      /\ UNCHANGED <<own, join, overlap, hosted, live, entry, clouded, login, cache, held, handlers, cut>>
  BY <1>0 DEF Deliver, joinVars, homeVars, clientVars
<1>2. stored[e] = 0 /\ s \in live
  BY <1>0, <1>1 DEF ClientInv, EventInv
<1>3. s \in Logins
  BY <1>2 DEF ClientInv, TypeOK
<1>4. handlers[s] \in {0, 1}
  <2>1. handlers[s] \in Nat
    BY <1>3 DEF ClientInv, TypeOK
  <2>2. handlers[s] <= 1
    BY <1>3 DEF ClientInv, SessionInv, HandledOnce
  <2> QED BY <2>1, <2>2
<1>5. /\ event' \in [Events -> [st : EventStages, home : Homes \cup {None}, at : Logins \cup {None}]]
      /\ event'[e].st \in {"stored", "missed"}
      /\ \A d \in Events \ {e} : event'[d] = event[d]
  <2> DEFINE EventSet == [st : EventStages, home : Homes \cup {None}, at : Logins \cup {None}]
  <2>1. event \in [Events -> EventSet]
    BY DEF ClientInv, TypeOK
  <2>2. PICK st \in {"stored", "missed"} : event' = [event EXCEPT ![e].st = st]
    BY <1>1
  <2>3. event[e] \in EventSet /\ event' = [event EXCEPT ![e] = [event[e] EXCEPT !.st = st]]
    BY <2>1, <2>2
  <2>4. [event[e] EXCEPT !.st = st] \in EventSet /\ [event[e] EXCEPT !.st = st].st = st
    BY <2>2, <2>3 DEF EventStages
  <2> HIDE DEF EventSet
  <2>5. event' \in [Events -> EventSet] /\ event'[e] = [event[e] EXCEPT !.st = st]
        /\ \A d \in Events \ {e} : event'[d] = event[d]
    BY <2>1, <2>3, <2>4
  <2> QED BY <2>2, <2>4, <2>5 DEF EventSet
<1>6. /\ stored' \in [Events -> Nat] /\ stored'[e] \in {0, 1}
      /\ \A d \in Events \ {e} : stored'[d] = stored[d]
  <2>1. stored \in [Events -> Nat] /\ stored[e] + handlers[s] \in {0, 1}
    BY <1>2, <1>4 DEF ClientInv, TypeOK
  <2> QED BY <1>1, <1>2, <2>1
<1>7. TypeOK'
  BY <1>1, <1>5, <1>6 DEF ClientInv, TypeOK
<1>8. EventInv'
  BY <1>1, <1>5, <1>6 DEF ClientInv, EventInv
<1>9. SessionInv' /\ JoinsAlone' /\ HostedIsNamed'
  BY <1>1, SessionFrame, JoinFrame DEF ClientInv
<1> QED BY <1>7, <1>8, <1>9 DEF ClientInv

-----------------------------------------------------------------------------
(***************************************************************************)
(* What the client caches was logged in to that home and has one handler,  *)
(* the registry entries are live sessions, one alone at its home is the    *)
(* entry, and events in sessions are not stored yet.                       *)
(***************************************************************************)
THEOREM ClientInvCorrect == Spec => []ClientInv
<1>1. ClientInv /\ [Next]_vars => ClientInv'
  <2> SUFFICES ASSUME ClientInv, [Next]_vars PROVE ClientInv'
    OBVIOUS
  <2>1. CASE Next
    <3>1. CASE \E j \in Joins : Registered(j) \/ JoinFails(j) \/ JoinDone(j)
      BY <3>1, RegisteredKeeps, JoinFailsKeeps, JoinDoneKeeps
    <3>2. CASE \E j \in Joins, h \in Homes : JoinHome(j, h)
      BY <3>2, JoinHomeKeeps
    <3>3. CASE \E l \in Logins, h \in Homes : CacheHit(l, h) \/ LoginHome(l, h)
      BY <3>3, CacheHitKeeps, LoginHomeKeeps
    <3>4. CASE \E l \in Logins : OpenSession(l) \/ CacheSession(l) \/ LoginFails(l)
      BY <3>4, OpenKeeps, CacheSessionKeeps, LoginFailsKeeps
    <3>5. CASE \E s \in Logins : Release(s) \/ DropSession(s) \/ LoseConnection(s)
      BY <3>5, ReleaseKeeps, DropKeeps, LoseKeeps
    <3>6. CASE \E h \in Homes : LeaveHome(h)
      BY <3>6, LeaveKeeps
    <3>7. CASE \E h \in Homes, e \in Events : Push(h, e)
      BY <3>7, PushKeeps
    <3>8. CASE \E e \in Events : Deliver(e)
      BY <3>8, DeliverKeeps
    <3> QED BY <2>1, <3>1, <3>2, <3>3, <3>4, <3>5, <3>6, <3>7, <3>8 DEF Next
  <2>2. CASE UNCHANGED vars
    <3>1. UNCHANGED <<own, join, overlap, hosted, live, entry, clouded, login, cache, held, handlers, event, stored, cut>>
      BY <2>2 DEF vars, joinVars, homeVars, clientVars, eventVars
    <3>2. TypeOK'
      BY <3>1 DEF ClientInv, TypeOK
    <3>3. SessionInv' /\ EventInv' /\ JoinsAlone' /\ HostedIsNamed'
      BY <3>1, SessionFrame, EventFrame, JoinFrame DEF ClientInv
    <3> QED BY <3>2, <3>3 DEF ClientInv
  <2> QED BY <2>1, <2>2
<1> QED BY <1>1, InitialInv, PTL DEF Spec

(***************************************************************************)
(* The calls, the cache and the sessions of a client keep their types.     *)
(***************************************************************************)
THEOREM ClientTypeCorrect == Spec => []TypeOK
<1>1. ClientInv => TypeOK
  BY DEF ClientInv
<1> QED BY <1>1, ClientInvCorrect, PTL

(* A cached live session is alone at its home, hence the entry. *)
LEMMA Routed == ClientInv => CachedIsRouted
<1> SUFFICES ASSUME ClientInv, NEW h \in Homes, cache[h] \in live, h \notin clouded
             PROVE  entry[h] = cache[h]
  BY DEF CachedIsRouted
<1>1. cache[h] # None
  BY ClientAssumption DEF ClientInv, TypeOK
<1>2. login[cache[h]] = [st |-> "done", home |-> h]
  BY <1>1 DEF ClientInv, SessionInv, CacheKnown
<1>3. cache[h] \in LiveAt(h)
  BY <1>2 DEF LiveAt
<1> QED BY <1>3 DEF ClientInv, SessionInv, LiveIsRouted

(***************************************************************************)
(* The cached session is the one the home pushes to, unless logins         *)
(* overlapped at that home or the profile left it.                         *)
(***************************************************************************)
THEOREM CachedIsRoutedCorrect == Spec => []CachedIsRouted
  BY Routed, ClientInvCorrect, PTL

(***************************************************************************)
(* The cache never holds a session that ended for another reason than a    *)
(* lost connection.                                                        *)
(***************************************************************************)
THEOREM CachedIsUsableCorrect == Spec => []CachedIsUsable
<1>1. ClientInv => CachedIsUsable
  BY DEF ClientInv, SessionInv, CacheKnown, CachedIsUsable
<1> QED BY <1>1, ClientInvCorrect, PTL

(***************************************************************************)
(* A pairing response is stored as a relation at most once.                *)
(***************************************************************************)
THEOREM StoredOnceCorrect == Spec => []StoredOnce
<1>1. ClientInv => StoredOnce
  BY DEF ClientInv, EventInv, StoredOnce
<1> QED BY <1>1, ClientInvCorrect, PTL

(***************************************************************************)
(* Every home that hosts the profile is named by it or was joined after    *)
(* the one it names, unless an answer was lost or joins overlapped.        *)
(***************************************************************************)
THEOREM HostedIsNamedCorrect == Spec => []HostedIsNamed
<1>1. ClientInv => HostedIsNamed
  BY DEF ClientInv
<1> QED BY <1>1, ClientInvCorrect, PTL

(* No step loses an event of a session that is cached and alone. *)
LEMMA MissedStep ==
    ASSUME ClientInv, Next, NEW e \in Events, event'[e] # event[e],
           event'[e].st \in {"missed", "vanished"},
           cache[event'[e].home] \in live', event'[e].home \notin clouded
    PROVE  FALSE
<1>1. ASSUME NEW h \in Homes, cache[h] \in live, h \notin clouded
      PROVE  entry[h] = cache[h] /\ cache[h] # None /\ handlers[cache[h]] > 0
  <2>1. cache[h] # None
    BY <1>1, ClientAssumption DEF ClientInv, TypeOK
  <2> QED BY <1>1, <2>1, Routed DEF CachedIsRouted, ClientInv, SessionInv, CacheKnown
<1>2. CASE \E h \in Homes, d \in Events : Push(h, d)
  <2>1. PICK h \in Homes, d \in Events : Push(h, d)
    BY <1>2
  <2>2. event' = [event EXCEPT ![d] = [st |-> IF entry[h] = None THEN "vanished" ELSE "kept",
                                       home |-> h, at |-> entry[h]]] /\ live' = live
    BY <2>1 DEF Push, homeVars
  <2>3. d = e
    BY <2>2 DEF ClientInv, TypeOK
  <2>4. event'[e].home = h /\ entry[h] = None
    BY <2>2, <2>3 DEF ClientInv, TypeOK
  <2> QED BY <1>1, <2>2, <2>4
<1>3. ASSUME NEW s \in live, EndSession(s) PROVE FALSE
  <2>1. event[e].st = "kept" /\ event[e].at = s /\ event'[e].home = event[e].home /\ live' = live \ {s}
    BY <1>3, EndEffect
  <2>2. PICK h : h = event[e].home
    OBVIOUS
  <2>3. h = login[s].home /\ h \in Homes
    BY <2>1, <2>2 DEF ClientInv, EventInv, SessionInv, SessionsKnown
  <2>4. entry[h] = cache[h] /\ cache[h] # s
    BY <1>1, <2>1, <2>2, <2>3
  <2>5. entry[h] = s
    BY <2>1, <2>2, <2>3 DEF LiveAt, ClientInv, SessionInv, LiveIsRouted
  <2> QED BY <2>4, <2>5
<1>4. CASE \E d \in Events : Deliver(d)
  <2>1. PICK d \in Events : Deliver(d)
    BY <1>4
  <2>2. PICK s, h : s = event[d].at /\ h = event[d].home
    OBVIOUS
  <2>3. /\ event[d].st = "kept" /\ live' = live
        /\ \/ event' = [event EXCEPT ![d].st = "stored"]
           \/ /\ event' = [event EXCEPT ![d].st = "missed"]
              /\ ~(Mine(s) /\ handlers[s] > 0)
    BY <2>1, <2>2 DEF Deliver, homeVars
  <2>4. d = e
    BY <2>3 DEF ClientInv, TypeOK
  <2>5. event'[e].home = h /\ (event'[e].st = "stored" \/ ~(Mine(s) /\ handlers[s] > 0))
    BY <2>2, <2>3, <2>4 DEF ClientInv, TypeOK
  <2>6. s \in live /\ h = login[s].home /\ h \in Homes
    BY <2>2, <2>3 DEF ClientInv, EventInv, SessionInv, SessionsKnown
  <2>7. entry[h] = cache[h] /\ handlers[cache[h]] > 0
    BY <1>1, <2>3, <2>5, <2>6
  <2>8. entry[h] = s
    BY <2>5, <2>6 DEF LiveAt, ClientInv, SessionInv, LiveIsRouted
  <2>9. Mine(s) /\ handlers[s] > 0
    BY <2>6, <2>7, <2>8 DEF Mine
  <2> QED BY <2>5, <2>9
<1>5. ASSUME NEW s \in Logins, DropSession(s) \/ LoseConnection(s) PROVE FALSE
  BY <1>3, <1>5 DEF DropSession, LoseConnection
<1>6. event' # event
  OBVIOUS
<1>7. ~ \E j \in Joins : Registered(j) \/ JoinFails(j) \/ JoinDone(j)
  BY <1>6 DEF Registered, JoinFails, JoinDone, eventVars
<1>8. ~ \E j \in Joins, h \in Homes : JoinHome(j, h)
  BY <1>6 DEF JoinHome, eventVars
<1>9. ~ \E l \in Logins, h \in Homes : CacheHit(l, h) \/ LoginHome(l, h)
  BY <1>6 DEF CacheHit, LoginHome, eventVars
<1>10. ~ \E l \in Logins : OpenSession(l) \/ CacheSession(l) \/ LoginFails(l) \/ Release(l)
  BY <1>6 DEF OpenSession, CacheSession, LoginFails, Release, eventVars
<1>11. ~ \E h \in Homes : LeaveHome(h)
  BY <1>6 DEF LeaveHome, eventVars
<1> QED BY <1>2, <1>4, <1>5, <1>7, <1>8, <1>9, <1>10, <1>11 DEF Next

(***************************************************************************)
(* A pairing response is lost only while the client has no usable session  *)
(* with that home, or the home was logged in to twice or left.             *)
(***************************************************************************)
THEOREM NoEventMissedCorrect == Spec => NoEventMissed
<1>1. ClientInv /\ [Next]_vars =>
         [\A e \in Events :
             event'[e] # event[e] /\ event'[e].st \in {"missed", "vanished"} =>
                cache[event'[e].home] \notin live' \/ event'[e].home \in clouded]_vars
  BY MissedStep
<1> QED BY <1>1, ClientInvCorrect, PTL DEF Spec, NoEventMissed
=============================================================================
