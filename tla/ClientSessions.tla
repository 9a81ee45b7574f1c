---------------------------- MODULE ClientSessions ----------------------------
(***************************************************************************)
(* One profile's client, MyProfileImpl (connect/src/profile.rs): it joins  *)
(* and leaves homes, logs in, caches a session for each home, and stores   *)
(* the relations that arrive as pairing responses.  Of a home only the     *)
(* registry entry of this profile is modelled, as in HomeServer.           *)
(*                                                                         *)
(* join_home and login are chains of futures; between an answer of the     *)
(* home and its processing, other chains run, and the caller may drop the  *)
(* future (as an unsubscribing dApp does).  Every login that is not served *)
(* from the cache makes a connection and a session of its own, named after *)
(* the login.                                                              *)
(***************************************************************************)
EXTENDS Naturals

CONSTANTS
    Homes,
    Joins,     \* calls of join_home
    Logins,    \* calls of login and login_home
    Events,    \* pairing responses pushed to this profile
    None

JoinStages == {"new", "asked", "registered", "done", "failed", "lost"}
LoginStages == {"new", "asked", "open", "done", "failed"}
EventStages == {"new", "kept", "stored", "missed", "vanished"}

ASSUME ClientAssumption == None \notin Homes \cup Logins

VARIABLES
    own,        \* home named by own_profile and the profile repository's copy
    join,       \* stage, home and own home sent along, of each join_home
    hosted,     \* homes at which the profile is registered
    login,      \* stage and home of each login
    cache,      \* session_cache
    held,       \* sessions that callers of login hold on to
    live,       \* sessions that exist at their home
    entry,      \* the profile's entry in each home's registry
    handlers,   \* event handlers started on each session
    event,      \* stage, home and session of each pairing response
    stored,     \* how often each pairing response was pushed to relations
    overlap,    \* history: two join_home calls were in flight at once
    clouded,    \* history: homes with a second session or an unregister
    cut         \* history: sessions whose connection was lost

joinVars == <<own, join, overlap>>
homeVars == <<hosted, live, entry, clouded>>
clientVars == <<cache, held, handlers>>
eventVars == <<event, stored>>
vars == <<joinVars, homeVars, login, clientVars, eventVars, cut>>

Init ==
    /\ own = None /\ overlap = FALSE
    /\ join = [j \in Joins |-> [st |-> "new", home |-> None, base |-> None]]
    /\ hosted = {} /\ live = {} /\ clouded = {} /\ cut = {}
    /\ login = [l \in Logins |-> [st |-> "new", home |-> None]]
    /\ cache = [h \in Homes |-> None]
    /\ held = {}
    /\ entry = [h \in Homes |-> None]
    /\ handlers = [l \in Logins |-> 0]
    /\ event = [e \in Events |-> [st |-> "new", home |-> None, at |-> None]]
    /\ stored = [e \in Events |-> 0]

LiveAt(h) == {s \in live : login[s].home = h}

(* The client has references to the session. *)
Mine_NotCached(s) == s \in held

Mine(s) == s \in held \/ cache[login[s].home] = s

-----------------------------------------------------------------------------
(* join_home *)

Pending(j) == join[j].st \in {"asked", "registered"}

JoinHome(j, h) ==
    /\ join[j].st = "new"
    /\ join' = [join EXCEPT ![j] = [st |-> "asked", home |-> h, base |-> own]]
    /\ overlap' = (overlap \/ \E i \in Joins : Pending(i))
    /\ UNCHANGED <<own, homeVars, login, clientVars, eventVars, cut>>

(* The home registers the profile, if it is not registered already. *)
Registered(j) ==
    /\ join[j].st = "asked"
    /\ join[j].home \notin hosted
    /\ hosted' = hosted \cup {join[j].home}
    /\ join' = [join EXCEPT ![j].st = "registered"]
    /\ UNCHANGED <<own, overlap, live, entry, clouded, login, clientVars, eventVars, cut>>

(***************************************************************************)
(* The answer is an error, or there is none: if the home registered the    *)
(* profile, the client does not know, and joining again will be refused.   *)
(***************************************************************************)
JoinFails(j) ==
    /\ Pending(j)
    /\ join' = [join EXCEPT ![j].st = IF @ = "registered" THEN "lost" ELSE "failed"]
    /\ UNCHANGED <<own, overlap, homeVars, login, clientVars, eventVars, cut>>

(***************************************************************************)
(* own_profile_cell.replace: the home added itself to the profile it was   *)
(* sent, which the client read when join_home was called.  Of the homes in *)
(* a message the receiver keeps only the first.                            *)
(***************************************************************************)
Returned_LastHome(j) == join[j].home

Returned(j) == IF join[j].base = None THEN join[j].home ELSE join[j].base

JoinDone(j) ==
    /\ join[j].st = "registered"
    /\ join' = [join EXCEPT ![j].st = "done"]
    /\ own' = Returned(j)
    /\ UNCHANGED <<overlap, homeVars, login, clientVars, eventVars, cut>>

-----------------------------------------------------------------------------
(* login_home, login and leave_home *)

StartHandler_Never(s) == UNCHANGED handlers

StartHandler(s) == handlers' = [handlers EXCEPT ![s] = @ + 1]

(***************************************************************************)
(* A cached session is returned at once, be it usable or not: login_home   *)
(* looks for the session of its home, login takes any.                     *)
(***************************************************************************)
HitHandlers_Restart(s) == StartHandler(s)

HitHandlers(s) == UNCHANGED handlers

CacheHit(l, h) ==
    /\ login[l].st = "new"
    /\ cache[h] # None
    /\ login' = [login EXCEPT ![l].st = "done"]
    /\ held' = held \cup {cache[h]}
    /\ HitHandlers(cache[h])
    /\ UNCHANGED <<joinVars, homeVars, cache, eventVars, cut>>

(***************************************************************************)
(* login_home(h) needs the profile to have a proof of home h; login, when  *)
(* nothing is cached, goes to the home that the profile names.             *)
(***************************************************************************)
Asked(h) == [st |-> "asked", home |-> h]

LoginHome(l, h) ==
    /\ login[l].st = "new"
    /\ cache[h] = None /\ h = own
    /\ login' = [login EXCEPT ![l] = Asked(h)]
    /\ UNCHANGED <<joinVars, homeVars, clientVars, eventVars, cut>>

(* Home::login: an entry that is there stays. *)
Enter_Never(h, s) == UNCHANGED entry

Enter(h, s) == entry' = [entry EXCEPT ![h] = IF @ = None THEN s ELSE @]

OpenSession(l) ==
    LET h == login[l].home IN
    /\ login[l].st = "asked" /\ h \in hosted
    /\ login' = [login EXCEPT ![l].st = "open"]
    /\ live' = live \cup {l}
    /\ Enter(h, l)
    /\ clouded' = IF LiveAt(h) = {} THEN clouded ELSE clouded \cup {h}
    /\ UNCHANGED <<joinVars, hosted, clientVars, eventVars, cut>>

(***************************************************************************)
(* The answer arrived: MyHomeSessionImpl::new starts to read the events,   *)
(* the cache is overwritten and the event handler added, all in one poll.  *)
(***************************************************************************)
CacheSession(l) ==
    /\ login[l].st = "open"
    /\ login' = [login EXCEPT ![l].st = "done"]
    /\ cache' = [cache EXCEPT ![login[l].home] = l]
    /\ held' = held \cup {l}
    /\ StartHandler(l)
    /\ UNCHANGED <<joinVars, homeVars, eventVars, cut>>

(* The home refuses, is not reached, or the caller drops the future. *)
LoginFails(l) ==
    /\ login[l].st \in {"asked", "open"}
    /\ login' = [login EXCEPT ![l].st = "failed"]
    /\ UNCHANGED <<joinVars, homeVars, clientVars, eventVars, cut>>

(* A caller lets go of the session it was given. *)
Release(s) ==
    /\ s \in held
    /\ held' = held \ {s}
    /\ UNCHANGED <<joinVars, homeVars, login, cache, handlers, eventVars, cut>>

(***************************************************************************)
(* leave_home: unregister over the session that login_home yielded, which  *)
(* another login may have replaced in the cache since.  Neither the cache  *)
(* nor the profile is changed.                                             *)
(***************************************************************************)
LeaveHome(h) ==
    /\ \E s \in LiveAt(h) : Mine(s)
    /\ h \in hosted
    /\ hosted' = hosted \ {h}
    /\ entry' = [entry EXCEPT ![h] = None]
    /\ clouded' = clouded \cup {h}
    /\ UNCHANGED <<joinVars, live, login, clientVars, eventVars, cut>>

-----------------------------------------------------------------------------
(* The session's end at the home *)

InUse(s) == Mine(s) \/ login[s].st = "open"

EndSession(s) ==
    LET h == login[s].home IN
    /\ live' = live \ {s}
    /\ entry' = [entry EXCEPT ![h] = None]
    /\ clouded' = IF LiveAt(h) = {s} THEN clouded \ {h} ELSE clouded
    /\ event' = [e \in Events |->
          IF event[e].st = "kept" /\ event[e].at = s
          THEN [event[e] EXCEPT !.st = "missed"] ELSE event[e]]
    /\ UNCHANGED <<joinVars, hosted, clientVars, stored>>

(* The client has no reference to the session any more. *)
DropSession(s) ==
    /\ s \in live /\ ~InUse(s)
    /\ EndSession(s)
    /\ UNCHANGED <<login, cut>>

LoseConnection(s) ==
    /\ s \in live
    /\ EndSession(s)
    /\ cut' = cut \cup {s}
    /\ login' = [login EXCEPT ![s].st = IF @ = "open" THEN "failed" ELSE @]

-----------------------------------------------------------------------------
(* A peer's pairing response *)

(* The home keeps it in the session it finds, if any. *)
Push(h, e) ==
    /\ event[e].st = "new" /\ h \in hosted
    /\ event' = [event EXCEPT ![e] =
          [st |-> IF entry[h] = None THEN "vanished" ELSE "kept", home |-> h, at |-> entry[h]]]
    /\ UNCHANGED <<joinVars, homeVars, login, clientVars, stored, cut>>

(***************************************************************************)
(* forward_event_safe and on_new_relation: each handler of the session     *)
(* stores the relation.  If the MyHomeSessionImpl is gone, the event is    *)
(* dropped and forwarding ends.                                            *)
(***************************************************************************)
Deliver(e) ==
    LET s == event[e].at IN
    /\ event[e].st = "kept" /\ login[s].st = "done"
    /\ \/ /\ Mine(s) /\ handlers[s] > 0
          /\ stored' = [stored EXCEPT ![e] = @ + handlers[s]]
          /\ event' = [event EXCEPT ![e].st = "stored"]
       \/ /\ ~(Mine(s) /\ handlers[s] > 0)
          /\ event' = [event EXCEPT ![e].st = "missed"]
          /\ UNCHANGED stored
    /\ UNCHANGED <<joinVars, homeVars, login, clientVars, cut>>

-----------------------------------------------------------------------------
Next ==
    \/ \E j \in Joins : Registered(j) \/ JoinFails(j) \/ JoinDone(j)
    \/ \E j \in Joins, h \in Homes : JoinHome(j, h)
    \/ \E l \in Logins, h \in Homes : CacheHit(l, h) \/ LoginHome(l, h)
    \/ \E l \in Logins : OpenSession(l) \/ CacheSession(l) \/ LoginFails(l)
    \/ \E s \in Logins : Release(s) \/ DropSession(s) \/ LoseConnection(s)
    \/ \E h \in Homes : LeaveHome(h)
    \/ \E h \in Homes, e \in Events : Push(h, e)
    \/ \E e \in Events : Deliver(e)

Spec == Init /\ [][Next]_vars

-----------------------------------------------------------------------------
(* Properties *)

JoinSet == [st : {"new"}, home : {None}, base : {None}]
      \cup [st : JoinStages \ {"new"}, home : Homes, base : Homes \cup {None}]
LoginSet == [st : {"new", "done"}, home : {None}]
       \cup [st : LoginStages \ {"new"}, home : Homes]

TypeOK ==
    /\ own \in Homes \cup {None} /\ hosted \in SUBSET Homes
    /\ join \in [Joins -> JoinSet]
    /\ login \in [Logins -> LoginSet]
    /\ cache \in [Homes -> Logins \cup {None}]
    /\ held \in SUBSET Logins /\ live \in SUBSET Logins /\ cut \in SUBSET Logins
    /\ entry \in [Homes -> Logins \cup {None}]
    /\ handlers \in [Logins -> Nat]
    /\ event \in [Events -> [st : EventStages, home : Homes \cup {None}, at : Logins \cup {None}]]
    /\ stored \in [Events -> Nat]
    /\ overlap \in BOOLEAN
    /\ clouded \in SUBSET Homes

(***************************************************************************)
(* The session the client works with is the one the home pushes events to, *)
(* unless logins overlapped at that home or the profile left it.           *)
(***************************************************************************)
CachedIsRouted ==
    \A h \in Homes : cache[h] \in live => entry[h] = cache[h] \/ h \in clouded

(***************************************************************************)
(* The cache never holds a session that ended for another reason than a    *)
(* lost connection, whatever logins fail, are abandoned or overwrite it.   *)
(***************************************************************************)
CachedIsUsable ==
    \A h \in Homes : cache[h] # None => cache[h] \in live \cup cut

(***************************************************************************)
(* A pairing response is stored as a relation once, although each login    *)
(* starts an event handler of its own.                                     *)
(***************************************************************************)
StoredOnce == \A e \in Events : stored[e] <= 1

(***************************************************************************)
(* A pairing response is lost only while the client has no usable session  *)
(* with that home, or is one of those logged in twice or unregistered;     *)
(* not if it arrives between the login at the home and its answer.         *)
(***************************************************************************)
NoEventMissed ==
    [][\A e \in Events :
          event'[e] # event[e] /\ event'[e].st \in {"missed", "vanished"} =>
             cache[event'[e].home] \notin live' \/ event'[e].home \in clouded]_vars

(***************************************************************************)
(* A home that hosts the profile is the one the profile names, or was      *)
(* joined when the profile named that other one already: only the first    *)
(* home is kept, and it is not replaced by a later one.  Excepted are a    *)
(* home whose answer is on its way or was lost, and overlapping calls of   *)
(* join_home, where the answer that comes last wins.                       *)
(***************************************************************************)
HostedIsNamed ==
    \A h \in hosted :
       \/ own = h \/ overlap
       \/ \E j \in Joins :
             /\ join[j].home = h
             /\ \/ join[j].st \in {"registered", "lost"}
                \/ join[j].st = "done" /\ own # None /\ join[j].base = own

-----------------------------------------------------------------------------
(***************************************************************************)
(* The inductive invariant, in three parts.  Sessions: a session that is   *)
(* open or in a registry entry exists; one alone at its home is the entry; *)
(* a cached one was logged in to that home and has its handler.            *)
(***************************************************************************)
SessionsKnown ==
    /\ \A s \in live : login[s].home \in Homes /\ login[s].st \in {"open", "done", "failed"}
    /\ \A l \in Logins : login[l].st = "open" => l \in live

EntryIsLive == \A h \in Homes : entry[h] # None => entry[h] \in LiveAt(h)

LiveIsRouted == \A h \in Homes \ clouded : \A s \in LiveAt(h) : entry[h] = s

CacheKnown ==
    \A h \in Homes : cache[h] # None =>
       /\ cache[h] \in live \cup cut
       /\ login[cache[h]] = [st |-> "done", home |-> h]
       /\ handlers[cache[h]] > 0

HandledOnce ==
    \A l \in Logins :
       handlers[l] <= 1 /\ (login[l].st \in {"new", "asked", "open"} => handlers[l] = 0)

SessionInv == SessionsKnown /\ EntryIsLive /\ LiveIsRouted /\ CacheKnown /\ HandledOnce

(* Events: a kept event is in a session of its home, and not stored yet. *)
EventInv ==
    \A e \in Events :
       /\ stored[e] <= 1
       /\ event[e].st \in {"new", "kept"} => stored[e] = 0
       /\ event[e].st = "kept" => event[e].at \in live /\ event[e].home = login[event[e].at].home

(* Joins: one that is alone is told of the home that the profile names. *)
JoinsAlone ==
    overlap \/ \A i \in Joins : Pending(i) =>
                  join[i].base = own /\ \A j \in Joins : Pending(j) => i = j

ClientInv == TypeOK /\ SessionInv /\ EventInv /\ JoinsAlone /\ HostedIsNamed
=============================================================================
