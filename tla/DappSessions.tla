---------------------------- MODULE DappSessions ----------------------------
(***************************************************************************)
(* The service a dApp talks to (connect/src/service.rs and jsonrpc/): a    *)
(* connection over the local socket, the session that get_session opens    *)
(* for a profile of the user's choice, and the forwarding of the session's *)
(* events that subscribe_events starts and unsubscribe_events ends.        *)
(*                                                                         *)
(* A connection's requests are handled one after the other, each until its *)
(* response is in the response channel.  A response is sent by a fresh     *)
(* clone of the channel's sender, which always has room; the sender of a   *)
(* subscription waits.  Several connections, and the administration, load  *)
(* profiles at the same time.  The library that reads requests and keeps   *)
(* subscriptions (jsonrpc) is external; a closed connection drops all that *)
(* belongs to it.                                                          *)
(***************************************************************************)
EXTENDS Naturals, FiniteSets

CONSTANTS
    Connections,
    Loads,      \* calls of dapp_session, and of AdminSession::profile
    Subs,       \* subscribe_events calls that start forwarding
    MyProfiles, \* my_profile_ids
    Signers,    \* profiles that the SignerFactory has a signer for
    Capacity,   \* CHANNEL_CAPACITY
    MaxOut,     \* bound: responses waiting when a request is read
    MaxPending, \* bound: events waiting for a forwarding task
    None

ASSUME DappAssumption ==
    /\ Capacity \in Nat /\ MaxOut \in Nat /\ MaxPending \in Nat
    /\ Signers \subseteq MyProfiles
    /\ None \notin Loads \cup Subs \cup Connections \cup MyProfiles

VARIABLES
    conn,       \* life of each connection
    busy,       \* the request that each connection waits for
    session,    \* SessionData::dapp_session: the MyProfile it works with
    slot,       \* SessionData::cancel_events
    out,        \* messages in each connection's response channel
    load,       \* stage, connection, profile and MyProfile of each load
    cache,      \* MyProfileFactory::cache
    fwd         \* stage and connection of each forwarding task, its events
                \* and whether it was cancelled

connVars == <<conn, busy, session, slot, out>>
vars == <<connVars, load, cache, fwd>>

Init ==
    /\ conn = [c \in Connections |-> "new"]
    /\ busy = [c \in Connections |-> None]
    /\ session = [c \in Connections |-> None]
    /\ slot = [c \in Connections |-> None]
    /\ out = [c \in Connections |-> 0]
    /\ load = [l \in Loads |-> [st |-> "new", conn |-> None, profile |-> None, my |-> None]]
    /\ cache = [p \in MyProfiles |-> None]
    /\ fwd = [f \in Subs |-> [st |-> "new", conn |-> None, pending |-> 0, cancelled |-> FALSE]]

Running(f) == fwd[f].st \in {"login", "streaming"}

-----------------------------------------------------------------------------
(* Connections: UdsServer::dispatch and serve_duplex_stream *)

Connect(c) ==
    /\ conn[c] = "new"
    /\ conn' = [conn EXCEPT ![c] = "open"]
    /\ UNCHANGED <<busy, session, slot, out, load, cache, fwd>>

(* The next request is read when the last one is answered. *)
MayAsk(c) == conn[c] = "open" /\ busy[c] = None /\ out[c] < MaxOut

Respond(c) == out' = [out EXCEPT ![c] = @ + 1]

(* The oneshot of a task is used, or dropped: the task will see it. *)
Cancelled(f) ==
    IF f = None THEN fwd ELSE [fwd EXCEPT ![f].cancelled = TRUE]

(***************************************************************************)
(* The client hangs up, or one of the three futures of the connection      *)
(* fails: the request at work is dropped and the session with it.          *)
(***************************************************************************)
Close(c) ==
    /\ conn[c] = "open"
    /\ conn' = [conn EXCEPT ![c] = "closed"]
    /\ load' = IF busy[c] = None THEN load ELSE [load EXCEPT ![busy[c]].st = "dropped"]
    /\ busy' = [busy EXCEPT ![c] = None]
    /\ session' = [session EXCEPT ![c] = None]
    /\ fwd' = Cancelled(slot[c])
    /\ slot' = [slot EXCEPT ![c] = None]
    /\ out' = [out EXCEPT ![c] = 0]
    /\ UNCHANGED cache

(* The client reads a response or notification. *)
ClientReads(c) ==
    /\ out[c] > 0
    /\ out' = [out EXCEPT ![c] = @ - 1]
    /\ UNCHANGED <<conn, busy, session, slot, load, cache, fwd>>

-----------------------------------------------------------------------------
(* get_session, and the administration's profile and profiles *)

GetSession(c, l) ==
    /\ MayAsk(c) /\ load[l].st = "new"
    /\ load' = [load EXCEPT ![l].st = "selecting", ![l].conn = c]
    /\ busy' = [busy EXCEPT ![c] = l]
    /\ UNCHANGED <<conn, session, slot, out, cache, fwd>>

(* Parameters that are no Request *)
BadRequest(c) ==
    /\ MayAsk(c)
    /\ Respond(c)
    /\ UNCHANGED <<conn, busy, session, slot, load, cache, fwd>>

AdminProfile(l, p) ==
    /\ load[l].st = "new"
    /\ load' = [load EXCEPT ![l].st = "loading", ![l].profile = p]
    /\ UNCHANGED <<connVars, cache, fwd>>

SelectProfile(l, p) ==
    /\ load[l].st = "selecting"
    /\ load' = [load EXCEPT ![l].st = "loading", ![l].profile = p]
    /\ UNCHANGED <<connVars, cache, fwd>>

(* The request of the load, if it has one, is answered. *)
Answered(l, my) ==
    LET c == load[l].conn IN
    IF c = None THEN UNCHANGED <<busy, session, out>>
    ELSE /\ busy' = [busy EXCEPT ![c] = None]
         /\ session' = IF my = None THEN session ELSE [session EXCEPT ![c] = my]
         /\ Respond(c)

(***************************************************************************)
(* MyProfileFactory::create, after the profile was read from the store:    *)
(* the MyProfile of the cache, or a new one, named after the load.         *)
(***************************************************************************)
Created_Again(l) == l

Created(l) == IF cache[load[l].profile] # None THEN cache[load[l].profile] ELSE l

LoadDone(l) ==
    LET p == load[l].profile IN
    /\ load[l].st = "loading"
    /\ cache[p] # None \/ p \in Signers
    /\ cache' = [cache EXCEPT ![p] = Created(l)]
    /\ load' = [load EXCEPT ![l].st = "done", ![l].my = Created(l)]
    /\ Answered(l, Created(l))
    /\ UNCHANGED <<conn, slot, fwd>>

(* No profile was selected, it is not in the store, or has no signer. *)
LoadFails(l) ==
    /\ load[l].st \in {"selecting", "loading"}
    /\ load' = [load EXCEPT ![l].st = "failed"]
    /\ Answered(l, None)
    /\ UNCHANGED <<conn, slot, cache, fwd>>

-----------------------------------------------------------------------------
(***************************************************************************)
(* subscribe_events: without a session the client is told that it is       *)
(* subscribed, and no event will follow.  Otherwise the oneshot of an      *)
(* earlier subscription is replaced.                                       *)
(***************************************************************************)
SubscribeNothing(c) ==
    /\ MayAsk(c) /\ session[c] = None
    /\ Respond(c)
    /\ UNCHANGED <<conn, busy, session, slot, load, cache, fwd>>

Superseded_Kept(f) == fwd

Superseded(f) == Cancelled(f)

Subscribe(c, f) ==
    /\ MayAsk(c) /\ session[c] # None /\ fwd[f].st = "new"
    /\ fwd' = [Superseded(slot[c]) EXCEPT ![f].st = "login", ![f].conn = c]
    /\ slot' = [slot EXCEPT ![c] = f]
    /\ Respond(c)
    /\ UNCHANGED <<conn, busy, session, load, cache>>

(* unsubscribe_events: an error if there is nothing to cancel *)
Unsubscribe(c) ==
    /\ MayAsk(c)
    /\ fwd' = Cancelled(slot[c])
    /\ slot' = [slot EXCEPT ![c] = None]
    /\ Respond(c)
    /\ UNCHANGED <<conn, busy, session, load, cache>>

-----------------------------------------------------------------------------
(* The forwarding task: checkin, then forward, selected with the oneshot *)

Ended(f) == fwd' = [fwd EXCEPT ![f].st = "ended", ![f].pending = 0]

Checkin(f) ==
    /\ fwd[f].st = "login"
    /\ fwd' = [fwd EXCEPT ![f].st = "streaming"]
    /\ UNCHANGED <<connVars, load, cache>>

(* No home answers, or the streams of the home session end. *)
StreamEnds(f) ==
    /\ Running(f)
    /\ Ended(f)
    /\ UNCHANGED <<connVars, load, cache>>

(* A call or a pairing response for the application *)
NewEvent(f) ==
    /\ fwd[f].st = "streaming" /\ fwd[f].pending < MaxPending
    /\ fwd' = [fwd EXCEPT ![f].pending = @ + 1]
    /\ UNCHANGED <<connVars, load, cache>>

(* Each sender has a place of its own in the channel. *)
HasRoom(c) == out[c] <= Capacity

Forward(f) ==
    LET c == fwd[f].conn IN
    /\ Running(f) /\ fwd[f].pending > 0
    /\ conn[c] = "open" /\ HasRoom(c)
    /\ fwd' = [fwd EXCEPT ![f].pending = @ - 1]
    /\ Respond(c)
    /\ UNCHANGED <<conn, busy, session, slot, load, cache>>

(* select polls the oneshot also while forward waits for room. *)
SeesCancel_Idle(f) == fwd[f].cancelled /\ fwd[f].pending = 0

SeesCancel(f) == fwd[f].cancelled

Cancel(f) ==
    /\ Running(f) /\ SeesCancel(f)
    /\ Ended(f)
    /\ UNCHANGED <<connVars, load, cache>>

-----------------------------------------------------------------------------
Next ==
    \/ \E c \in Connections :
          \/ Connect(c) \/ Close(c) \/ ClientReads(c) \/ BadRequest(c)
          \/ SubscribeNothing(c) \/ Unsubscribe(c)
          \/ \E l \in Loads : GetSession(c, l)
          \/ \E f \in Subs : Subscribe(c, f)
    \/ \E l \in Loads, p \in MyProfiles : AdminProfile(l, p) \/ SelectProfile(l, p)
    \/ \E l \in Loads : LoadDone(l) \/ LoadFails(l)
    \/ \E f \in Subs : Checkin(f) \/ StreamEnds(f) \/ NewEvent(f) \/ Forward(f) \/ Cancel(f)

Spec == Init /\ [][Next]_vars

(***************************************************************************)
(* The reactor polls what was woken.  A poll of a forwarding task forwards *)
(* what it can, which the channel bounds, and then looks at the oneshot.   *)
(* No client has to read and no event to come.                             *)
(***************************************************************************)
FairSpec == Spec /\ \A f \in Subs : WF_vars(Cancel(f))

-----------------------------------------------------------------------------
(* Properties *)

LoadSet == [st : {"new", "selecting", "loading", "done", "failed", "dropped"},
            conn : Connections \cup {None}, profile : MyProfiles \cup {None},
            my : Loads \cup {None}]
TaskSet == [st : {"new", "login", "streaming", "ended"}, conn : Connections \cup {None},
            pending : Nat, cancelled : BOOLEAN]

TypeOK ==
    /\ conn \in [Connections -> {"new", "open", "closed"}]
    /\ busy \in [Connections -> Loads \cup {None}]
    /\ session \in [Connections -> Loads \cup {None}]
    /\ slot \in [Connections -> Subs \cup {None}]
    /\ out \in [Connections -> Nat]
    /\ load \in [Loads -> LoadSet]
    /\ cache \in [MyProfiles -> Loads \cup {None}]
    /\ fwd \in [Subs -> TaskSet]

(***************************************************************************)
(* All sessions of a profile, of whatever connections and however their    *)
(* loads overlap, work with one MyProfile, so that they share relations    *)
(* and home sessions.                                                      *)
(***************************************************************************)
OneMyProfile ==
    \A k, l \in Loads :
       load[k].my # None /\ load[l].my # None /\ load[k].profile = load[l].profile
          => load[k].my = load[l].my

(***************************************************************************)
(* A forwarding task that is not cancelled can be: its connection is open  *)
(* and holds its oneshot.  So a connection has at most one such task.      *)
(***************************************************************************)
Stoppable ==
    \A f \in Subs : Running(f) /\ ~fwd[f].cancelled =>
       conn[fwd[f].conn] = "open" /\ slot[fwd[f].conn] = f

(***************************************************************************)
(* A subscription that was cancelled, replaced by a later one, or whose    *)
(* connection closed, ends, even if its client reads nothing: until then   *)
(* it holds up the events of the whole profile.                            *)
(***************************************************************************)
CancelledEnds == \A f \in Subs : fwd[f].cancelled ~> fwd[f].st = "ended"

-----------------------------------------------------------------------------
(***************************************************************************)
(* The inductive invariant: a load has a profile once it reads the store,  *)
(* and what it ends with is in the cache, where it stays.                  *)
(***************************************************************************)
LoadsCached ==
    \A l \in Loads :
       /\ load[l].st = "loading" => load[l].profile \in MyProfiles
       /\ load[l].st \in {"new", "selecting", "loading"} => load[l].my = None
       /\ load[l].my # None =>
             load[l].profile \in MyProfiles /\ cache[load[l].profile] = load[l].my

RunningIsOwned == \A f \in Subs : Running(f) => fwd[f].conn \in Connections

DappInv == TypeOK /\ LoadsCached /\ RunningIsOwned /\ Stoppable
=============================================================================
