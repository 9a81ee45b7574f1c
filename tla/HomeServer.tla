------------------------------ MODULE HomeServer ------------------------------
(***************************************************************************)
(* A home node: the profile stores of HostedProfiles composed with the     *)
(* registry of client sessions and the events pushed through it            *)
(* (home-node/src/server.rs).                                              *)
(*                                                                         *)
(*   sessions  HomeServer.sessions, a map from profile ids to weak         *)
(*             references of sessions;                                     *)
(*   alive     the HomeSessionServer objects that exist (some Rc is held); *)
(*   peer      context.peer_id() of a session, the client its connection   *)
(*             belongs to: update, unregister and Drop act on this profile;*)
(*   name      the profile that the proof_of_home of a session's login     *)
(*             names: login looks this one up and enters the session under *)
(*             it.  Nothing in login compares the two.                     *)
(*   sink      HomeSessionServer.events as its pushers see it: "buffer",   *)
(*             "channel", or "broken" when the channel's receiver is gone. *)
(*                                                                         *)
(* Events travel through a session as through the mailbox of module        *)
(* Mailbox, which ServerSink refines.  Session names are reused after a    *)
(* session is dropped; a name without a session keeps its initial values,  *)
(* and an entry left pointing to it is Dangling from then on.              *)
(***************************************************************************)
EXTENDS HostedProfiles

CONSTANTS
    Sessions,    \* names for HomeSessionServer objects
    Lookups,     \* slots for login and pairing requests in flight
    Events,      \* pairing events; each is pushed at most once
    Dangling     \* a weak reference whose session is gone

(* The chain of a login or pairing request, at what it does next. *)
LookupOps == {"login", "response", "push"}

ASSUME ServerAssumption ==
    /\ None \notin Sessions /\ None \notin Events /\ None \notin LookupOps
    /\ Dangling \notin Sessions \cup {None}

VARIABLES
    sessions, alive, peer, name, sink,
    lookup,      \* login, pair_request and pair_response chains in flight
    event,       \* where each event is
    clouded      \* history: profiles for which a second session was opened,
                 \* or one between two profiles, or which unregistered, as long
                 \* as a session concerned lives or a dead entry is left

sessionVars == <<sessions, alive, peer, name, sink, clouded>>
serverVars == <<storeVars, sessionVars, lookup, event>>

NoLookup == [op |-> None, profile |-> None, by |-> None, event |-> None]

SinkStates == {"buffer", "channel", "broken"}

(***************************************************************************)
(* "new" was not sent yet, "pushing" is in a chain, "kept" is accepted by  *)
(* session `at', "draining" is left in the channel of a dropped session;   *)
(* "vanished" with an Ok result although no session took it; "gone" when   *)
(* the client received it, it was refused with an error, or it was lost    *)
(* with the session or the channel that kept it.                           *)
(***************************************************************************)
EventStates == {"new", "pushing", "kept", "draining", "vanished", "gone"}

LiveOf(p) == {s \in alive : peer[s] = p}

(* The live sessions that can read, set or remove the entry of p. *)
Concerned(p) == {s \in alive : p \in {peer[s], name[s]}}

Away(st) == [st |-> st, to |-> None, at |-> None]

Mark(e, st) == event' = [event EXCEPT ![e] = Away(st)]

Keep(e, p, s) == event' = [event EXCEPT ![e] = [st |-> "kept", to |-> p, at |-> s]]

KeptAt(s) == {e \in Events : event[e].st = "kept" /\ event[e].at = s}

EndLookup_ClearsOpOnly(k) == lookup' = [lookup EXCEPT ![k].op = None]

EndLookup(k) == lookup' = [lookup EXCEPT ![k] = NoLookup]

Init ==
    /\ StoreInit
    /\ sessions = [p \in Profiles |-> None]
    /\ alive = {}
    /\ peer = [s \in Sessions |-> None]
    /\ name = [s \in Sessions |-> None]
    /\ sink = [s \in Sessions |-> "buffer"]
    /\ lookup = [k \in Lookups |-> NoLookup]
    /\ event = [e \in Events |-> Away("new")]
    /\ clouded = {}

-----------------------------------------------------------------------------
(* HomeConnectionServer::login on a connection of q, with a proof naming p *)

Login(k, p, q) ==
    /\ lookup[k] = NoLookup
    /\ GetOk(p)
    /\ lookup' = [lookup EXCEPT ![k] = [op |-> "login", profile |-> p, by |-> q, event |-> None]]
    /\ UNCHANGED <<storeVars, sessionVars, event>>

(***************************************************************************)
(* entry(profile_id).or_insert(weak): an entry that is there stays.        *)
(***************************************************************************)
Enter_Never(p, s) == UNCHANGED sessions

Enter(p, s) == sessions' = [sessions EXCEPT ![p] = IF @ = None THEN s ELSE @]

(***************************************************************************)
(* The lookup answered Ok: HomeSessionServer::new with an empty buffer and *)
(* the connection's context, entered under the profile of the proof.       *)
(***************************************************************************)
OpenSession(k, s) ==
    LET p == lookup[k].profile  q == lookup[k].by IN
    /\ lookup[k].op = "login"
    /\ s \notin alive
    /\ alive' = alive \cup {s}
    /\ peer' = [peer EXCEPT ![s] = q]
    /\ name' = [name EXCEPT ![s] = p]
    /\ Enter(p, s)
    /\ clouded' = clouded \cup {x \in {p, q} : p # q \/ Concerned(x) # {}}
    /\ EndLookup(k)
    /\ UNCHANGED <<storeVars, event, sink>>

(***************************************************************************)
(* Drop for HomeSessionServer: the last reference is gone (the client let  *)
(* go of the session or its connection closed).  Whatever the entry of the *)
(* connection's profile points to, it is removed; an entry of another      *)
(* profile that refers to the session stays.  Buffered events are gone;    *)
(* those in a channel whose stream is still served may yet be received.    *)
(***************************************************************************)
Dropped(s) ==
    [p \in Profiles |-> IF p = peer[s] THEN None
                        ELSE IF sessions[p] = s THEN Dangling ELSE sessions[p]]

DropSession(s) ==
    /\ s \in alive
    /\ alive' = alive \ {s}
    /\ peer' = [peer EXCEPT ![s] = None]
    /\ name' = [name EXCEPT ![s] = None]
    /\ sink' = [sink EXCEPT ![s] = "buffer"]
    /\ sessions' = Dropped(s)
    /\ clouded' = clouded \ {x \in Profiles : Concerned(x) = {s} /\ Dropped(s)[x] = None}
    /\ \E draining \in SUBSET KeptAt(s) :
          /\ sink[s] # "channel" => draining = {}
          /\ event' = [e \in Events |->
                IF e \in KeptAt(s)
                THEN Away(IF e \in draining THEN "draining" ELSE "gone")
                ELSE event[e]]
    /\ UNCHANGED <<storeVars, lookup>>

-----------------------------------------------------------------------------
(* HomeSessionServer::update, ::unregister and ::events *)

SessionUpdate(s, r, c) ==
    /\ s \in alive
    /\ Update(r, peer[s], c)
    /\ UNCHANGED <<sessionVars, lookup, event>>

(***************************************************************************)
(* The entry is removed and both stores are cleared, the session object    *)
(* lives on.                                                               *)
(***************************************************************************)
SessionUnregister(s) ==
    LET p == peer[s] IN
    /\ s \in alive
    /\ Unregister(p)
    /\ sessions' = [sessions EXCEPT ![p] = None]
    /\ clouded' = clouded \cup {p}
    /\ UNCHANGED <<alive, peer, name, sink, lookup, event>>

(* A first or repeated events(): the sink is the sender of a new channel. *)
OpenEvents(s) ==
    /\ s \in alive
    /\ sink' = [sink EXCEPT ![s] = "channel"]
    /\ UNCHANGED <<storeVars, sessions, alive, peer, name, clouded, lookup, event>>

(* The stream's receiver is gone, with any of the accepted events in it. *)
CloseEvents(s) ==
    /\ s \in alive
    /\ sink[s] = "channel"
    /\ sink' = [sink EXCEPT ![s] = "broken"]
    /\ \E lost \in SUBSET KeptAt(s) :
          event' = [e \in Events |->
                IF e \in lost THEN Away("gone") ELSE event[e]]
    /\ UNCHANGED <<storeVars, sessions, alive, peer, name, clouded, lookup>>

(* The client is handed an event by the stream of a session, *)
ReceiveEvent(e) ==
    /\ event[e].st = "kept"
    /\ sink[event[e].at] # "buffer"
    /\ Mark(e, "gone")
    /\ UNCHANGED <<storeVars, sessionVars, lookup>>

(* or by the stream of a session that was dropped; or that stream ends. *)
DrainEvent(e) ==
    /\ event[e].st = "draining"
    /\ Mark(e, "gone")
    /\ UNCHANGED <<storeVars, sessionVars, lookup>>

-----------------------------------------------------------------------------
(* HomeConnectionServer::pair_request and ::pair_response *)

StartPush(k, op, p, e) ==
    /\ lookup[k] = NoLookup
    /\ event[e].st = "new"
    /\ lookup' = [lookup EXCEPT ![k] = [op |-> op, profile |-> p, by |-> None, event |-> e]]
    /\ Mark(e, "pushing")
    /\ UNCHANGED <<storeVars, sessionVars>>

(* push_event's get_live_session makes the only lookup of pair_request. *)
PairRequest(k, p, e) == GetOk(p) /\ StartPush(k, "push", p, e)

(* pair_response looks the peer up for its public key first. *)
PairResponse(k, p, e) == GetOk(p) /\ StartPush(k, "response", p, e)

(* The relation proof is valid: push_event looks the peer up again. *)
PushResponse(k) ==
    LET p == lookup[k].profile  e == lookup[k].event IN
    /\ lookup[k].op = "response"
    /\ \/ /\ GetOk(p)
          /\ lookup' = [lookup EXCEPT ![k].op = "push"]
          /\ UNCHANGED event
       \/ /\ GetErr(p)
          /\ EndLookup(k)
          /\ Mark(e, "gone")
    /\ UNCHANGED <<storeVars, sessionVars>>

(***************************************************************************)
(* get_live_session: the session the entry of p refers to, if it lives.    *)
(***************************************************************************)
LiveSession_AnyProfile(p) == IF alive = {} THEN None ELSE CHOOSE s \in alive : TRUE

LiveSession_OnlyListening(p) ==
    IF sessions[p] \in alive /\ sink[sessions[p]] # "buffer" THEN sessions[p] ELSE None

LiveSession(p) == IF sessions[p] \in alive THEN sessions[p] ELSE None

(***************************************************************************)
(* push_event once the lookup answered Ok: without a live session the      *)
(* event is dropped and the result is Ok.                                  *)
(***************************************************************************)
PushEvent(k) ==
    LET s == LiveSession(lookup[k].profile)  e == lookup[k].event IN
    /\ lookup[k].op = "push"
    /\ \/ s = None /\ Mark(e, "vanished")
       \/ s # None /\ sink[s] = "broken" /\ Mark(e, "gone")
       \/ s # None /\ sink[s] # "broken" /\ Keep(e, lookup[k].profile, s)
    /\ EndLookup(k)
    /\ UNCHANGED <<storeVars, sessionVars>>

-----------------------------------------------------------------------------
(* The process stops and starts anew with the files of db only. *)
ServerRestart ==
    /\ Restart
    /\ sessions' = [p \in Profiles |-> None]
    /\ alive' = {}
    /\ clouded' = {}
    /\ lookup' = [k \in Lookups |-> NoLookup]
    /\ event' = [e \in Events |->
          IF event[e].st \in {"pushing", "kept", "draining"}
          THEN Away("gone") ELSE event[e]]
    /\ peer' = [s \in Sessions |-> None]
    /\ name' = [s \in Sessions |-> None]
    /\ sink' = [s \in Sessions |-> "buffer"]

StoreStep ==
    /\ \/ \E r \in Requests, p \in Profiles, c \in Contents : Register(r, p, c)
       \/ ChainStep
    /\ UNCHANGED <<sessionVars, lookup, event>>

SessionStep ==
    \/ \E k \in Lookups, s \in Sessions : OpenSession(k, s)
    \/ \E s \in Sessions : DropSession(s)
    \/ \E s \in Sessions, r \in Requests, c \in Contents : SessionUpdate(s, r, c)
    \/ \E s \in Sessions : SessionUnregister(s)
    \/ \E s \in Sessions : OpenEvents(s)
    \/ \E s \in Sessions : CloseEvents(s)

EventStep ==
    \/ \E k \in Lookups, p \in Profiles, e \in Events : PairRequest(k, p, e)
    \/ \E k \in Lookups, p \in Profiles, e \in Events : PairResponse(k, p, e)
    \/ \E k \in Lookups : PushResponse(k)
    \/ \E k \in Lookups : PushEvent(k)
    \/ \E e \in Events : ReceiveEvent(e)
    \/ \E e \in Events : DrainEvent(e)

Next ==
    \/ StoreStep
    \/ \E k \in Lookups, p, q \in Profiles : Login(k, p, q)
    \/ SessionStep
    \/ EventStep
    \/ ServerRestart

Spec == Init /\ [][Next]_serverVars

-----------------------------------------------------------------------------
(* Properties *)

TypeOK ==
    /\ StoreTypeOK
    /\ sessions \in [Profiles -> Sessions \cup {None, Dangling}]
    /\ alive \in SUBSET Sessions
    /\ peer \in [Sessions -> Profiles \cup {None}]
    /\ name \in [Sessions -> Profiles \cup {None}]
    /\ sink \in [Sessions -> SinkStates]
    /\ lookup \in [Lookups -> [op : {"login"}, profile : Profiles, by : Profiles, event : {None}]
                      \cup [op : {"response", "push"}, profile : Profiles, by : {None}, event : Events]
                      \cup {NoLookup}]
    /\ event \in [Events -> [st : EventStates, to : Profiles \cup {None},
                             at : Sessions \cup {None}]]
    /\ clouded \in SUBSET Profiles

(***************************************************************************)
(* Session s lives and its login named p; its connection is p's own unless *)
(* p is clouded.                                                           *)
(***************************************************************************)
StandsFor(s, p) == s \in alive /\ name[s] = p /\ (peer[s] = p \/ p \in clouded)

(***************************************************************************)
(* An entry of the registry points to a live session that logged in with   *)
(* the profile it is stored under, and to that profile's own connection    *)
(* unless the profile is clouded.  Only there can a dead reference stay.   *)
(***************************************************************************)
EntryIsNamed ==
    \A p \in Profiles : sessions[p] # None =>
        \/ sessions[p] = Dangling /\ p \in clouded
        \/ StandsFor(sessions[p], p)

(***************************************************************************)
(* The registry finds a live session: only a second session of the         *)
(* profile, a login whose proof names another profile than its             *)
(* connection's, or an unregister can hide a live session from             *)
(* get_live_session, and once all sessions concerned are dropped and no    *)
(* dead entry is left the next login is found again.                       *)
(***************************************************************************)
LiveIsReachable ==
    \A s \in alive : peer[s] \in clouded \/ LiveSession(peer[s]) = s

(***************************************************************************)
(* An accepted event waits in a live session whose login named the profile *)
(* the event was sent to, however sessions came and went between the       *)
(* pushes; and that session's connection is the recipient's own unless the *)
(* recipient is clouded.                                                   *)
(***************************************************************************)
KeptByRecipient ==
    \A e \in Events : event[e].st = "kept" => StandsFor(event[e].at, event[e].to)

(***************************************************************************)
(* push_event reports Ok and drops the event only if no session of the     *)
(* profile is live, or the profile is clouded by a second session, a login *)
(* that named another profile than its connection's, or an unregister.     *)
(***************************************************************************)
NoSilentDrop ==
    [][\A e \in Events : event[e].st # "vanished" /\ event'[e].st = "vanished" =>
          \E k \in Lookups : /\ lookup[k].op = "push" /\ lookup[k].event = e
                             /\ \/ LiveOf(lookup[k].profile) = {}
                                \/ lookup[k].profile \in clouded]_serverVars

(***************************************************************************)
(* The inductive invariant behind the registry's properties: two live      *)
(* sessions that concern one profile cloud it, so a drop that removes the  *)
(* entry of the other one is accounted for; and so does a session between  *)
(* two profiles.                                                           *)
(***************************************************************************)
PeersKnown == \A s \in alive : peer[s] \in Profiles /\ name[s] \in Profiles

OneUnlessClouded ==
    \A p \in Profiles : \A s, t \in Concerned(p) : s # t => p \in clouded

OwnUnlessClouded ==
    \A s \in alive : peer[s] # name[s] => {peer[s], name[s]} \subseteq clouded

RegistryInv ==
    /\ TypeOK
    /\ PeersKnown
    /\ OneUnlessClouded
    /\ OwnUnlessClouded
    /\ EntryIsNamed
    /\ LiveIsReachable
    /\ KeptByRecipient
=============================================================================
