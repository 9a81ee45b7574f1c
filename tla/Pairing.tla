------------------------------- MODULE Pairing -------------------------------
(***************************************************************************)
(* Two clients pair: initiate_relation, the pairing request that the       *)
(* peer's home passes on, accept_relation, the response that comes back    *)
(* through the initiator's home, the event handlers that store the         *)
(* relation, and the calls that rest on it (connect/src/profile.rs and     *)
(* sdk.rs, home-node/src/server.rs, and the proxies in between).           *)
(*                                                                         *)
(* Every profile has one home.  Of the home only one fact is kept, whether *)
(* the profile has a session to push events to: HomeServer and ServerSink  *)
(* model the session itself.  A home keeps no event for a profile that is  *)
(* away, and reports success.                                              *)
(*                                                                         *)
(* A client may be given the same request again and may accept it again;   *)
(* relations is a vector in the code, here the set of its members.         *)
(***************************************************************************)
EXTENDS Relations, FiniteSets

CONSTANTS
    Profiles,   \* ids of the paired profiles
    Types,      \* relation types, which are ids of applications
    Requests,   \* calls of initiate_relation
    Accepts,    \* calls of accept_relation
    Calls,      \* calls of Contact::call
    None

ASSUME PairingAssumption == Profiles \subseteq Nat /\ None \notin Profiles

Stages == {"new", "sent", "answered", "refused", "failed", "done"}

Signatures == {Sign(p, SignablePart(t, q, r)) : p, q, r \in Profiles, t \in Types}
Halves == [type : Types, signer : Profiles, peer : Profiles, sig : Signatures]
Proofs == [type : Types, a : Profiles, aSig : Signatures, b : Profiles, bSig : Signatures]
EventSet == [kind : {"request"}, half : Halves] \cup [kind : {"response"}, proof : Proofs]

VARIABLES
    request,    \* stage, client and half proof of each initiate_relation
    accept,     \* stage, client and proof of each accept_relation
    call,       \* stage, client and proof of each call
    online,     \* profiles with a session at their home
    inbox,      \* events on their way to each profile's client
    offers,     \* half proofs that each profile's applications were shown
    relations,  \* relations of each MyProfileImpl
    lost        \* history: proofs that did not reach a client or were forgotten

chainVars == <<request, accept, call>>
clientVars == <<offers, relations>>
vars == <<chainVars, online, inbox, clientVars, lost>>

Idle == [st |-> "new", by |-> None, with |-> None]

Init ==
    /\ request = [r \in Requests |-> Idle]
    /\ accept = [a \in Accepts |-> Idle]
    /\ call = [c \in Calls |-> Idle]
    /\ online = {}
    /\ inbox = [p \in Profiles |-> {}]
    /\ offers = [p \in Profiles |-> {}]
    /\ relations = [p \in Profiles |-> {}]
    /\ lost = {}

-----------------------------------------------------------------------------
(***************************************************************************)
(* push_event: an event for a profile without a session is dropped.        *)
(***************************************************************************)
PushEvent(to, event) ==
    IF to \in online
    THEN /\ inbox' = [inbox EXCEPT ![to] = @ \cup {event}]
         /\ UNCHANGED lost
    ELSE /\ lost' = IF event.kind = "response" THEN lost \cup {<<to, event.proof>>} ELSE lost
         /\ UNCHANGED inbox

(* initiate_relation: the peer is looked up, then its home connected to. *)
Initiate(r, p, peer, type) ==
    /\ request[r].st = "new"
    /\ request' = [request EXCEPT ![r] =
          [st |-> "sent", by |-> p, with |-> HalfProof(type, peer, p)]]
    /\ UNCHANGED <<accept, call, online, inbox, clientVars, lost>>

(* Home::pair_request at the home of the half proof's peer *)
AcceptsRequest(half, client) == half.signer = client /\ ValidHalfProof(half, Key(client))

RequestTarget_Signer(half) == half.signer

RequestTarget(half) == half.peer

PairRequest(r) ==
    LET half == HalfProofSent(request[r].with) IN
    /\ request[r].st = "sent"
    /\ IF AcceptsRequest(half, request[r].by)
       THEN /\ request' = [request EXCEPT ![r].st = "answered"]
            /\ PushEvent(RequestTarget(half), RequestEvent(half))
       ELSE /\ request' = [request EXCEPT ![r].st = "refused"]
            /\ UNCHANGED <<inbox, lost>>
    /\ UNCHANGED <<accept, call, online, clientVars>>

(* Lookup, connection or delivery failed before the home had the request. *)
RequestFails(r) ==
    /\ request[r].st = "sent"
    /\ request' = [request EXCEPT ![r].st = "failed"]
    /\ UNCHANGED <<accept, call, online, inbox, clientVars, lost>>

-----------------------------------------------------------------------------
(* accept_relation signs at once, then sends the proof. *)
Accept(a, p, half) ==
    /\ accept[a].st = "new"
    /\ half \in offers[p] /\ MaySign(half, p)
    /\ accept' = [accept EXCEPT ![a] =
          [st |-> "sent", by |-> p, with |-> SignRemainingHalf(half, p)]]
    /\ UNCHANGED <<request, call, online, inbox, clientVars, lost>>

(* Home::pair_response at the home of the profile that asked *)
AcceptsProof(proof, client) ==
    /\ IsParty(proof, client)
    /\ LET peer == PeerId(proof, client)
       IN  ValidRelationProof(proof, client, Key(client), peer, Key(peer))

PairResponse(a) ==
    LET proof == ProofSent(accept[a].with) IN
    /\ accept[a].st = "sent"
    /\ IF AcceptsProof(proof, accept[a].by)
       THEN /\ accept' = [accept EXCEPT ![a].st = "answered"]
            /\ PushEvent(PeerId(proof, accept[a].by), ResponseEvent(proof))
       ELSE /\ accept' = [accept EXCEPT ![a].st = "refused"]
            /\ UNCHANGED <<inbox, lost>>
    /\ UNCHANGED <<request, call, online, clientVars>>

(* on_new_relation *)
OnNewRelation(p, proof) == [relations EXCEPT ![p] = @ \cup {proof}]

(* The home's answer arrives, and only then the acceptor stores the proof. *)
AcceptDone(a) ==
    /\ accept[a].st = "answered"
    /\ accept' = [accept EXCEPT ![a].st = "done"]
    /\ relations' = OnNewRelation(accept[a].by, accept[a].with)
    /\ UNCHANGED <<request, call, online, inbox, offers, lost>>

(* The proof did not get to the home, or the home's answer did not come. *)
AcceptFails(a) ==
    /\ accept[a].st \in {"sent", "answered"}
    /\ accept' = [accept EXCEPT ![a].st = "failed"]
    /\ lost' = lost \cup {<<accept[a].by, accept[a].with>>}
    /\ UNCHANGED <<request, call, online, inbox, clientVars>>

-----------------------------------------------------------------------------
(***************************************************************************)
(* An event arrives: start_event_handler stores the proof of a response as *)
(* it is, a request is for the applications.                               *)
(***************************************************************************)
StoreResponse_Never(p, event) == relations

StoreResponse(p, event) ==
    IF event.kind = "response" THEN OnNewRelation(p, event.proof) ELSE relations

Deliver(p, event) ==
    LET got == EventSent(event) IN
    /\ event \in inbox[p]
    /\ inbox' = [inbox EXCEPT ![p] = @ \ {event}]
    /\ relations' = StoreResponse(p, got)
    /\ offers' = IF got.kind = "request" THEN [offers EXCEPT ![p] = @ \cup {got.half}] ELSE offers
    /\ UNCHANGED <<chainVars, online, lost>>

GoOnline(p) ==
    /\ p \notin online
    /\ online' = online \cup {p}
    /\ UNCHANGED <<chainVars, inbox, clientVars, lost>>

Responses(events) == {e \in events : e.kind = "response"}

(* The session ends, and the events that it still held are gone with it. *)
GoOffline(p) ==
    /\ p \in online
    /\ online' = online \ {p}
    /\ inbox' = [inbox EXCEPT ![p] = {}]
    /\ lost' = lost \cup {<<p, e.proof>> : e \in Responses(inbox[p])}
    /\ UNCHANGED <<chainVars, clientVars>>

(***************************************************************************)
(* The client's process starts anew: nothing of MyProfileImpl::relations   *)
(* is stored anywhere, and its pending calls are gone.                     *)
(***************************************************************************)
Stopped(chain, p) ==
    [i \in DOMAIN chain |->
       IF chain[i].by = p /\ chain[i].st \in {"sent", "answered"}
       THEN [chain[i] EXCEPT !.st = "failed"] ELSE chain[i]]

Restart(p) ==
    /\ online' = online \ {p}
    /\ inbox' = [inbox EXCEPT ![p] = {}]
    /\ offers' = [offers EXCEPT ![p] = {}]
    /\ relations' = [relations EXCEPT ![p] = {}]
    /\ request' = Stopped(request, p)
    /\ accept' = Stopped(accept, p)
    /\ call' = Stopped(call, p)
    /\ lost' = lost \cup {<<p, proof>> : proof \in relations[p]}
                    \cup {<<p, e.proof>> : e \in Responses(inbox[p])}
                    \cup {<<p, accept[a].with>> : a \in {b \in Accepts : accept[b].by = p}}

-----------------------------------------------------------------------------
(* relations_with_peer: filtered by peer, application and relation type *)
RelationsWithPeer(p, peer, apps, types) ==
    {proof \in relations[p] :
        /\ IsParty(proof, p) /\ PeerId(proof, p) = peer
        /\ \E app \in apps : AccessibleBy(proof, app)
        /\ proof.type \in types}

(* Contact::call with one of contacts_with_profile *)
Call(c, p, peer, app) ==
    /\ call[c].st = "new"
    /\ \E proof \in RelationsWithPeer(p, peer, {app}, Types) :
          call' = [call EXCEPT ![c] = [st |-> "sent", by |-> p, with |-> proof]]
    /\ UNCHANGED <<request, accept, online, inbox, clientVars, lost>>

(* Home::call at the peer's home, up to what IncomingCalls models *)
CallHome(c) ==
    /\ call[c].st = "sent"
    /\ call' = [call EXCEPT ![c].st =
          IF AcceptsProof(ProofSent(call[c].with), call[c].by) THEN "answered" ELSE "refused"]
    /\ UNCHANGED <<request, accept, online, inbox, clientVars, lost>>

-----------------------------------------------------------------------------
Next ==
    \/ \E r \in Requests, p, peer \in Profiles, t \in Types : Initiate(r, p, peer, t)
    \/ \E r \in Requests : PairRequest(r) \/ RequestFails(r)
    \/ \E a \in Accepts, p \in Profiles : \E half \in offers[p] : Accept(a, p, half)
    \/ \E a \in Accepts : PairResponse(a) \/ AcceptDone(a) \/ AcceptFails(a)
    \/ \E p \in Profiles : \E event \in inbox[p] : Deliver(p, event)
    \/ \E p \in Profiles : GoOnline(p) \/ GoOffline(p) \/ Restart(p)
    \/ \E c \in Calls, p, peer \in Profiles, t \in Types : Call(c, p, peer, t)
    \/ \E c \in Calls : CallHome(c)

Spec == Init /\ [][Next]_vars

-----------------------------------------------------------------------------
(* Properties *)

Chains(things) == [st : Stages \ {"new"}, by : Profiles, with : things] \cup {Idle}

(* Events and requests reach the profile they name, proofs a party of them. *)
Addressed ==
    \A p \in Profiles :
       /\ \A event \in inbox[p] :
             IF event.kind = "request" THEN event.half.peer = p ELSE IsParty(event.proof, p)
       /\ \A half \in offers[p] : half.peer = p
       /\ \A proof \in relations[p] : IsParty(proof, p)

(***************************************************************************)
(* The variables have their types; a profile is shown only requests that   *)
(* name it and holds only proofs that it is a party of.                    *)
(***************************************************************************)
TypeOK ==
    /\ request \in [Requests -> Chains(Halves)]
    /\ accept \in [Accepts -> Chains(Proofs)]
    /\ call \in [Calls -> Chains(Proofs)]
    /\ online \in SUBSET Profiles
    /\ inbox \in [Profiles -> SUBSET EventSet]
    /\ offers \in [Profiles -> SUBSET Halves]
    /\ relations \in [Profiles -> SUBSET Proofs]
    /\ lost \in SUBSET (Profiles \X Proofs)
    /\ Addressed

(***************************************************************************)
(* Clients and homes agree on what is signed and in which order: whatever  *)
(* crossed, repeated or delayed requests a proof comes from, no home ever  *)
(* finds a request, a response or a call of a client invalid.              *)
(***************************************************************************)
NeverRefused ==
    /\ \A r \in Requests : request[r].st # "refused"
    /\ \A a \in Accepts : accept[a].st # "refused"
    /\ \A c \in Calls : call[c].st # "refused"

(***************************************************************************)
(* Two profiles know one proof of a relation, even if each asked and each  *)
(* accepted (RelationProof::new puts the ids in order).                    *)
(***************************************************************************)
SameProof ==
    \A p, q \in Profiles : \A f \in relations[p], g \in relations[q] :
       f.type = g.type /\ {f.a, f.b} = {g.a, g.b} => f = g

(* The proof is with the profile, on its way to it, or was lost. *)
Holds(p, proof) ==
    \/ proof \in relations[p]
    \/ ResponseEvent(proof) \in inbox[p]
    \/ \E a \in Accepts : accept[a] = [st |-> "answered", by |-> p, with |-> proof]
    \/ <<p, proof>> \in lost

(***************************************************************************)
(* A profile holds a relation that its peer does not hold only while the   *)
(* proof or the home's answer is on its way, or because one was lost: the  *)
(* acceptor stores it after the home's answer, the initiator on the event. *)
(***************************************************************************)
NotOneSided ==
    \A p \in Profiles : \A proof \in relations[p] : Holds(PeerId(proof, p), proof)

-----------------------------------------------------------------------------
(***************************************************************************)
(* The inductive invariant: all half proofs and proofs, wherever they are, *)
(* are signed by those they name, proofs in the order of the ids; and each *)
(* proof on its way to one party is held by the other.                     *)
(***************************************************************************)
GenuineHalf(half) ==
    /\ half \in Halves
    /\ half.sig = Sign(half.signer, SignablePart(half.type, half.signer, half.peer))

GenuineProof(proof) ==
    /\ proof \in Proofs /\ proof.a <= proof.b
    /\ proof.aSig = Sign(proof.a, SignablePart(proof.type, proof.a, proof.b))
    /\ proof.bSig = Sign(proof.b, SignablePart(proof.type, proof.b, proof.a))

GenuineEvent(event) ==
    IF event.kind = "request" THEN GenuineHalf(event.half) ELSE GenuineProof(event.proof)

AllGenuine ==
    /\ \A r \in Requests : request[r].st # "new" =>
          GenuineHalf(request[r].with) /\ request[r].by = request[r].with.signer
    /\ \A a \in Accepts : accept[a].st # "new" =>
          GenuineProof(accept[a].with) /\ IsParty(accept[a].with, accept[a].by)
    /\ \A c \in Calls : call[c].st # "new" =>
          GenuineProof(call[c].with) /\ IsParty(call[c].with, call[c].by)
    /\ \A p \in Profiles :
          /\ \A event \in inbox[p] : GenuineEvent(event)
          /\ \A half \in offers[p] : GenuineHalf(half)
          /\ \A proof \in relations[p] : GenuineProof(proof)

AnswersAreShared ==
    /\ \A p \in Profiles : \A event \in Responses(inbox[p]) :
          Holds(PeerId(event.proof, p), event.proof)
    /\ \A a \in Accepts : accept[a].st = "answered" =>
          Holds(PeerId(accept[a].with, accept[a].by), accept[a].with)

PairingInv == TypeOK /\ AllGenuine /\ NeverRefused /\ NotOneSided /\ AnswersAreShared
=============================================================================
