---------------------------- MODULE PairingProofs ----------------------------
(***************************************************************************)
(* Proofs about pairing, for any number of profiles, relation types,       *)
(* requests, acceptances and calls; and about connecting, for any homes,   *)
(* any addresses of theirs and any lengths of their introductions.         *)
(***************************************************************************)
EXTENDS Pairing, Connecting, SequenceTheorems, TLAPS

(* What a profile signs of a relation is one of the signatures. *)
LEMMA SignedIsSignature ==
    ASSUME NEW t \in Types, NEW p \in Profiles, NEW q \in Profiles
    PROVE  Sign(p, SignablePart(t, p, q)) \in Signatures
  BY DEF Signatures

(***************************************************************************)
(* RelationHalfProof::new makes a half proof that the peer's home accepts. *)
(***************************************************************************)
LEMMA HalfIsGenuine ==
    ASSUME NEW t \in Types, NEW p \in Profiles, NEW q \in Profiles
    PROVE  GenuineHalf(HalfProof(t, q, p)) /\ HalfProof(t, q, p).signer = p
  BY SignedIsSignature DEF GenuineHalf, HalfProof, Halves

LEMMA GenuineIsAccepted ==
    ASSUME NEW half, GenuineHalf(half)
    PROVE  AcceptsRequest(half, half.signer)
  BY DEF GenuineHalf, AcceptsRequest, ValidHalfProof, ValidSignature, Sign

(***************************************************************************)
(* Whoever completes a half proof, the result is the same.                 *)
(***************************************************************************)
LEMMA CompletedIsGenuine ==
    ASSUME NEW half, GenuineHalf(half), NEW p \in Profiles, MaySign(half, p)
    PROVE  GenuineProof(SignRemainingHalf(half, p)) /\ IsParty(SignRemainingHalf(half, p), p)
<1> DEFINE t == half.type
           s == half.signer
           sSig == Sign(s, SignablePart(t, s, p))
           pSig == Sign(p, SignablePart(t, p, s))
<1>1. t \in Types /\ s \in Profiles /\ half.peer = p /\ half.sig = sSig
  BY DEF GenuineHalf, Halves, MaySign
<1>2. sSig \in Signatures /\ pSig \in Signatures
  BY <1>1, SignedIsSignature
<1>3. s \in Nat /\ p \in Nat
  BY <1>1, PairingAssumption
<1>4. SignRemainingHalf(half, p) = IF s < p THEN Proof(t, s, sSig, p, pSig)
                                            ELSE Proof(t, p, pSig, s, sSig)
  BY <1>1 DEF SignRemainingHalf, RelationProof
<1> HIDE DEF t, s
<1>5. CASE s < p
  BY <1>1, <1>2, <1>3, <1>4, <1>5 DEF GenuineProof, Proofs, Proof, IsParty
<1>6. CASE ~(s < p)
  BY <1>1, <1>2, <1>3, <1>4, <1>6 DEF GenuineProof, Proofs, Proof, IsParty
<1> QED BY <1>5, <1>6

(* Every home finds a genuine proof valid, whichever party presents it. *)
LEMMA GenuineIsValid ==
    ASSUME NEW proof, GenuineProof(proof), NEW p, IsParty(proof, p)
    PROVE  AcceptsProof(proof, p)
  BY DEF GenuineProof, IsParty, AcceptsProof, PeerId, ValidRelationProof, ValidSignature, Sign

(* The parties of a relation are each other's peers. *)
LEMMA PeersOfEachOther ==
    ASSUME NEW proof, GenuineProof(proof), NEW p, IsParty(proof, p)
    PROVE  /\ p \in Profiles /\ PeerId(proof, p) \in Profiles
           /\ IsParty(proof, PeerId(proof, p))
           /\ PeerId(proof, PeerId(proof, p)) = p
  BY DEF GenuineProof, Proofs, IsParty, PeerId

(* A relation has one genuine proof. *)
LEMMA GenuineIsUnique ==
    ASSUME NEW f, NEW g, GenuineProof(f), GenuineProof(g),
           f.type = g.type, {f.a, f.b} = {g.a, g.b}
    PROVE  f = g
<1>1. f.a \in Nat /\ f.b \in Nat /\ g.a \in Nat /\ g.b \in Nat /\ f.a <= f.b /\ g.a <= g.b
  BY PairingAssumption DEF GenuineProof, Proofs
<1>2. (f.a = g.a /\ f.b = g.b) \/ (f.a = g.b /\ f.b = g.a)
  OBVIOUS
<1>3. f.a = g.a /\ f.b = g.b
  BY <1>1, <1>2
<1> QED BY <1>3 DEF GenuineProof, Proofs

(* Messages keep what they carry. *)
LEMMA SentIsSame ==
    /\ \A half \in Halves : HalfProofSent(half) = half
    /\ \A proof \in Proofs : ProofSent(proof) = proof
    /\ \A event \in EventSet : EventSent(event) = event
<1>1. \A half \in Halves : HalfProofSent(half) = half
  BY DEF Halves, HalfProofSent
<1>2. \A proof \in Proofs : ProofSent(proof) = proof
  BY DEF Proofs, ProofSent
<1>3. ASSUME NEW event \in EventSet PROVE EventSent(event) = event
  <2>1. CASE event \in [kind : {"request"}, half : Halves]
    BY <1>1, <2>1 DEF EventSent, RequestEvent
  <2>2. CASE event \in [kind : {"response"}, proof : Proofs]
    BY <1>2, <2>2 DEF EventSent, ResponseEvent
  <2> QED BY <2>1, <2>2 DEF EventSet
<1> QED BY <1>1, <1>2, <1>3

(* A response is the event of its proof. *)
LEMMA EventShape ==
    ASSUME NEW event \in EventSet
    PROVE  /\ event.kind = "request" => event.half \in Halves
           /\ event.kind = "request" <=> event.kind # "response"
           /\ event.kind = "response" => event.proof \in Proofs /\ event = ResponseEvent(event.proof)
<1>1. CASE event \in [kind : {"request"}, half : Halves]
  BY <1>1
<1>2. CASE event \in [kind : {"response"}, proof : Proofs]
  BY <1>2 DEF ResponseEvent
<1> QED BY <1>1, <1>2 DEF EventSet

-----------------------------------------------------------------------------
(* Shapes *)

LEMMA ChainShape ==
    ASSUME NEW T, NEW x \in Chains(T), x.st # "new"
    PROVE  /\ x \in [st : Stages \ {"new"}, by : Profiles, with : T]
           /\ x.by \in Profiles /\ x.with \in T /\ x.st \in Stages \ {"new"}
  BY DEF Chains, Idle

LEMMA ChainMoves ==
    ASSUME NEW I, NEW T, NEW chain \in [I -> Chains(T)], NEW i \in I, chain[i].st # "new",
           NEW now \in Stages \ {"new"}, NEW after, after = [chain EXCEPT ![i].st = now]
    PROVE  /\ after \in [I -> Chains(T)]
           /\ after[i].st = now /\ after[i].by = chain[i].by /\ after[i].with = chain[i].with
           /\ \A j \in I \ {i} : after[j] = chain[j]
           /\ chain[i].by \in Profiles /\ chain[i].with \in T
<1>1. chain[i] \in [st : Stages \ {"new"}, by : Profiles, with : T]
  BY ChainShape
<1>2. [chain[i] EXCEPT !.st = now] \in [st : Stages \ {"new"}, by : Profiles, with : T]
  BY <1>1
<1>3. after = [chain EXCEPT ![i] = [chain[i] EXCEPT !.st = now]]
  OBVIOUS
<1>4. after \in [I -> Chains(T)]
  BY <1>2, <1>3 DEF Chains
<1>5. after[i] = [chain[i] EXCEPT !.st = now] /\ \A j \in I \ {i} : after[j] = chain[j]
  BY <1>3
<1> QED BY <1>1, <1>4, <1>5

LEMMA ChainBegins ==
    ASSUME NEW T, NEW p \in Profiles, NEW x \in T
    PROVE  [st |-> "sent", by |-> p, with |-> x] \in Chains(T)
  BY DEF Chains, Stages

(* A client that stops fails its chains and keeps what they were about. *)
LEMMA StoppedShape ==
    ASSUME NEW I, NEW T, NEW chain \in [I -> Chains(T)], NEW p
    PROVE  /\ Stopped(chain, p) \in [I -> Chains(T)]
           /\ \A i \in I : /\ Stopped(chain, p)[i].by = chain[i].by
                           /\ Stopped(chain, p)[i].with = chain[i].with
                           /\ Stopped(chain, p)[i].st \in {chain[i].st, "failed"}
                           /\ chain[i].st = "new" => Stopped(chain, p)[i].st = "new"
                           /\ chain[i].by # p => Stopped(chain, p)[i] = chain[i]
                           /\ Stopped(chain, p)[i].st = "answered" => Stopped(chain, p)[i] = chain[i]
<1>1. ASSUME NEW i \in I
      PROVE  /\ Stopped(chain, p)[i] \in Chains(T)
             /\ Stopped(chain, p)[i].by = chain[i].by
             /\ Stopped(chain, p)[i].with = chain[i].with
             /\ Stopped(chain, p)[i].st \in {chain[i].st, "failed"}
             /\ chain[i].st = "new" => Stopped(chain, p)[i].st = "new"
             /\ chain[i].by # p => Stopped(chain, p)[i] = chain[i]
             /\ Stopped(chain, p)[i].st = "answered" => Stopped(chain, p)[i] = chain[i]
  <2>1. Stopped(chain, p)[i] = IF chain[i].by = p /\ chain[i].st \in {"sent", "answered"}
                               THEN [chain[i] EXCEPT !.st = "failed"] ELSE chain[i]
    BY DEF Stopped
  <2>2. CASE chain[i].by = p /\ chain[i].st \in {"sent", "answered"}
    <3>1. chain[i] \in [st : Stages \ {"new"}, by : Profiles, with : T]
      BY <2>2, ChainShape
    <3>2. [chain[i] EXCEPT !.st = "failed"] \in [st : Stages \ {"new"}, by : Profiles, with : T]
      BY <3>1 DEF Stages
    <3> QED BY <2>1, <2>2, <3>1, <3>2 DEF Chains
  <2>3. CASE ~(chain[i].by = p /\ chain[i].st \in {"sent", "answered"})
    BY <2>1, <2>3
  <2> QED BY <2>2, <2>3
<1>2. DOMAIN chain = I
  OBVIOUS
<1> QED BY <1>1, <1>2 DEF Stopped

(* One more member for one profile *)
LEMMA Grown ==
    ASSUME NEW S, NEW f \in [Profiles -> SUBSET S], NEW p \in Profiles, NEW x \in S,
           NEW g, g = [f EXCEPT ![p] = @ \cup {x}]
    PROVE  /\ g \in [Profiles -> SUBSET S] /\ x \in g[p]
           /\ \A q \in Profiles : /\ f[q] \subseteq g[q]
                                  /\ \A y \in g[q] : y \in f[q] \/ (q = p /\ y = x)
<1>1. f[p] \cup {x} \in SUBSET S /\ g = [f EXCEPT ![p] = f[p] \cup {x}]
  OBVIOUS
<1>2. g[p] = f[p] \cup {x} /\ \A q \in Profiles \ {p} : g[q] = f[q]
  BY <1>1
<1>3. g \in [Profiles -> SUBSET S]
  BY <1>1
<1>4. ASSUME NEW q \in Profiles
      PROVE  f[q] \subseteq g[q] /\ \A y \in g[q] : y \in f[q] \/ (q = p /\ y = x)
  <2>1. CASE q = p
    BY <1>2, <2>1
  <2>2. CASE q # p
    BY <1>2, <2>2
  <2> QED BY <2>1, <2>2
<1>5. x \in g[p]
  BY <1>2
<1> QED BY <1>3, <1>4, <1>5

-----------------------------------------------------------------------------
(* Pushing an event *)

LEMMA PushEffect ==
    ASSUME TypeOK, NEW to \in Profiles, NEW event \in EventSet, PushEvent(to, event)
    PROVE  /\ inbox' \in [Profiles -> SUBSET EventSet]
           /\ lost' \in SUBSET (Profiles \X Proofs)
           /\ lost \subseteq lost'
           /\ \A p \in Profiles : /\ inbox[p] \subseteq inbox'[p]
                                  /\ inbox'[p] \subseteq inbox[p] \cup {event}
                                  /\ p # to => inbox'[p] = inbox[p]
           /\ event.kind = "response" => event \in inbox'[to] \/ <<to, event.proof>> \in lost'
<1>1. CASE to \in online
  BY <1>1 DEF TypeOK, PushEvent
<1>2. CASE to \notin online
  <2>1. event.kind = "response" => event.proof \in Proofs
    BY EventShape
  <2> QED BY <1>2, <2>1 DEF TypeOK, PushEvent
<1> QED BY <1>1, <1>2

-----------------------------------------------------------------------------
(* Types and genuine proofs: one lemma for each action *)

LEMMA InitialInv == Init => PairingInv
<1> SUFFICES ASSUME Init PROVE PairingInv
  OBVIOUS
<1>1. TypeOK
  BY DEF Init, TypeOK, Addressed, Chains
<1>2. AllGenuine /\ NeverRefused
  BY DEF Init, AllGenuine, NeverRefused, Idle
<1>3. NotOneSided /\ AnswersAreShared
  BY DEF Init, NotOneSided, AnswersAreShared, Responses, Idle
<1> QED BY <1>1, <1>2, <1>3 DEF PairingInv

LEMMA InitiateKeeps ==
    ASSUME PairingInv, NEW r \in Requests, NEW p \in Profiles, NEW q \in Profiles,
           NEW t \in Types, Initiate(r, p, q, t)
    PROVE  TypeOK' /\ AllGenuine' /\ NeverRefused'
<1>1. GenuineHalf(HalfProof(t, q, p)) /\ HalfProof(t, q, p).signer = p
  BY HalfIsGenuine
<1>2. HalfProof(t, q, p) \in Halves
  BY <1>1 DEF GenuineHalf
<1>3. [st |-> "sent", by |-> p, with |-> HalfProof(t, q, p)] \in Chains(Halves)
  BY <1>2, ChainBegins
<1>4. request' \in [Requests -> Chains(Halves)]
  BY <1>3 DEF PairingInv, TypeOK, Initiate
<1>5. TypeOK'
  BY <1>4 DEF PairingInv, TypeOK, Initiate, clientVars, Addressed
<1>6. AllGenuine' /\ NeverRefused'
  BY <1>1 DEF PairingInv, TypeOK, AllGenuine, NeverRefused, Initiate, clientVars
<1> QED BY <1>5, <1>6

LEMMA PairRequestKeeps ==
    ASSUME PairingInv, NEW r \in Requests, PairRequest(r)
    PROVE  TypeOK' /\ AllGenuine' /\ NeverRefused'
<1> DEFINE half == request[r].with
           event == RequestEvent(half)
<1>1. request[r].st = "sent" /\ request \in [Requests -> Chains(Halves)]
  BY DEF PairRequest, PairingInv, TypeOK
<1>2. GenuineHalf(half) /\ request[r].by = half.signer /\ half \in Halves /\ HalfProofSent(half) = half
  BY <1>1, SentIsSame DEF PairingInv, AllGenuine, GenuineHalf
<1>3. AcceptsRequest(half, request[r].by)
  BY <1>2, GenuineIsAccepted
<1>4. /\ request' = [request EXCEPT ![r].st = "answered"]
      /\ PushEvent(half.peer, event)
      /\ UNCHANGED <<accept, call, online, offers, relations>>
  BY <1>2, <1>3 DEF PairRequest, RequestTarget, clientVars
<1>5. /\ half.peer \in Profiles /\ event \in EventSet
      /\ event.kind = "request" /\ event.half = half /\ GenuineEvent(event)
  BY <1>2 DEF Halves, RequestEvent, EventSet, GenuineEvent
<1>6. /\ request' \in [Requests -> Chains(Halves)]
      /\ request'[r].st = "answered" /\ request'[r].by = request[r].by /\ request'[r].with = half
      /\ \A i \in Requests \ {r} : request'[i] = request[i]
  <2>1. "answered" \in Stages \ {"new"} /\ request[r].st # "new"
    BY <1>1 DEF Stages
  <2> QED BY <1>1, <1>4, <2>1, ChainMoves
<1> HIDE DEF half, event
<1>7. /\ inbox' \in [Profiles -> SUBSET EventSet]
      /\ lost' \in SUBSET (Profiles \X Proofs)
      /\ \A p \in Profiles : /\ inbox'[p] \subseteq inbox[p] \cup {event}
                             /\ p # half.peer => inbox'[p] = inbox[p]
  BY <1>4, <1>5, PushEffect DEF PairingInv
<1>8. Addressed'
  BY <1>4, <1>5, <1>7 DEF PairingInv, TypeOK, Addressed
<1>9. TypeOK'
  BY <1>4, <1>6, <1>7, <1>8 DEF PairingInv, TypeOK
<1>10. AllGenuine'
  <2>1. \A i \in Requests : request'[i].st # "new" =>
           GenuineHalf(request'[i].with) /\ request'[i].by = request'[i].with.signer
    BY <1>2, <1>6 DEF PairingInv, AllGenuine
  <2>2. \A p \in Profiles : \A e \in inbox'[p] : GenuineEvent(e)
    BY <1>5, <1>7 DEF PairingInv, AllGenuine
  <2> QED BY <1>4, <2>1, <2>2 DEF PairingInv, AllGenuine
<1>11. NeverRefused'
  BY <1>4, <1>6 DEF PairingInv, NeverRefused
<1> QED BY <1>9, <1>10, <1>11

LEMMA RequestFailsKeeps ==
    ASSUME PairingInv, NEW r \in Requests, RequestFails(r)
    PROVE  TypeOK' /\ AllGenuine' /\ NeverRefused'
<1>1. /\ request[r].st = "sent" /\ request \in [Requests -> Chains(Halves)]
      /\ request' = [request EXCEPT ![r].st = "failed"]
      /\ UNCHANGED <<accept, call, online, inbox, offers, relations, lost>>
  BY DEF RequestFails, PairingInv, TypeOK, clientVars
<1>2. /\ request' \in [Requests -> Chains(Halves)]
      /\ request'[r].st = "failed" /\ request'[r].by = request[r].by
      /\ request'[r].with = request[r].with
      /\ \A i \in Requests \ {r} : request'[i] = request[i]
  BY <1>1, ChainMoves DEF Stages
<1>3. TypeOK'
  BY <1>1, <1>2 DEF PairingInv, TypeOK, Addressed
<1>4. \A i \in Requests : request'[i].st # "new" =>
         GenuineHalf(request'[i].with) /\ request'[i].by = request'[i].with.signer
  BY <1>1, <1>2 DEF PairingInv, AllGenuine
<1>5. AllGenuine'
  BY <1>1, <1>4 DEF PairingInv, AllGenuine
<1>6. NeverRefused'
  BY <1>1, <1>2 DEF PairingInv, NeverRefused
<1> QED BY <1>3, <1>5, <1>6

LEMMA AcceptKeeps ==
    ASSUME PairingInv, NEW a \in Accepts, NEW p \in Profiles, NEW half \in offers[p],
           Accept(a, p, half)
    PROVE  TypeOK' /\ AllGenuine' /\ NeverRefused'
<1> DEFINE proof == SignRemainingHalf(half, p)
<1>1. GenuineProof(proof) /\ IsParty(proof, p)
  BY CompletedIsGenuine DEF Accept, PairingInv, AllGenuine
<1> DEFINE new == [st |-> "sent", by |-> p, with |-> proof]
<1>2. accept' = [accept EXCEPT ![a] = new]
      /\ UNCHANGED <<request, call, online, inbox, offers, relations, lost>>
  BY DEF Accept, clientVars
<1> HIDE DEF proof
<1>3. new \in Chains(Proofs) /\ new.st = "sent" /\ new.by = p /\ new.with = proof
  BY <1>1, ChainBegins DEF GenuineProof
<1> HIDE DEF new
<1>4. /\ accept' \in [Accepts -> Chains(Proofs)] /\ accept'[a] = new
      /\ \A b \in Accepts \ {a} : accept'[b] = accept[b]
  BY <1>2, <1>3 DEF PairingInv, TypeOK
<1>5. TypeOK'
  BY <1>2, <1>4 DEF PairingInv, TypeOK, Addressed
<1>6. \A b \in Accepts : accept'[b].st # "new" =>
         GenuineProof(accept'[b].with) /\ IsParty(accept'[b].with, accept'[b].by)
  BY <1>1, <1>3, <1>4 DEF PairingInv, AllGenuine
<1>7. AllGenuine'
  BY <1>2, <1>6 DEF PairingInv, AllGenuine
<1>8. NeverRefused'
  BY <1>2, <1>3, <1>4 DEF PairingInv, NeverRefused
<1> QED BY <1>5, <1>7, <1>8

(* What a response does: it is accepted, and its proof sent to the peer. *)
LEMMA PairResponseEffect ==
    ASSUME PairingInv, NEW a \in Accepts, PairResponse(a)
    PROVE  LET proof == accept[a].with
               peer == PeerId(proof, accept[a].by)
           IN  /\ accept' \in [Accepts -> Chains(Proofs)]
               /\ accept'[a] = [st |-> "answered", by |-> accept[a].by, with |-> proof]
               /\ \A b \in Accepts \ {a} : accept'[b] = accept[b]
               /\ accept[a].st = "sent"
               /\ GenuineProof(proof) /\ IsParty(proof, accept[a].by)
               /\ PushEvent(peer, ResponseEvent(proof))
               /\ UNCHANGED <<request, call, online, offers, relations>>
<1> DEFINE proof == accept[a].with
<1>1. accept[a].st = "sent" /\ accept \in [Accepts -> Chains(Proofs)]
  BY DEF PairResponse, PairingInv, TypeOK
<1>2. GenuineProof(proof) /\ IsParty(proof, accept[a].by) /\ ProofSent(proof) = proof
  BY <1>1, SentIsSame DEF PairingInv, AllGenuine, GenuineProof
<1>3. AcceptsProof(proof, accept[a].by)
  BY <1>2, GenuineIsValid
<1>4. /\ accept' = [accept EXCEPT ![a].st = "answered"]
      /\ PushEvent(PeerId(proof, accept[a].by), ResponseEvent(proof))
      /\ UNCHANGED <<request, call, online, offers, relations>>
  BY <1>2, <1>3 DEF PairResponse, clientVars
<1>5. accept[a] \in [st : Stages \ {"new"}, by : Profiles, with : Proofs]
  BY <1>1, ChainShape
<1>6. accept'[a] = [st |-> "answered", by |-> accept[a].by, with |-> proof]
  BY <1>1, <1>4, <1>5
<1>7. accept' \in [Accepts -> Chains(Proofs)] /\ \A b \in Accepts \ {a} : accept'[b] = accept[b]
  BY <1>1, <1>4, ChainMoves DEF Stages
<1> QED BY <1>1, <1>2, <1>4, <1>6, <1>7

LEMMA PairResponseKeeps ==
    ASSUME PairingInv, NEW a \in Accepts, PairResponse(a)
    PROVE  TypeOK' /\ AllGenuine' /\ NeverRefused'
<1> DEFINE proof == accept[a].with
           by == accept[a].by
           peer == PeerId(proof, by)
           event == ResponseEvent(proof)
<1>1. /\ accept' \in [Accepts -> Chains(Proofs)]
      /\ accept'[a] = [st |-> "answered", by |-> by, with |-> proof]
      /\ \A b \in Accepts \ {a} : accept'[b] = accept[b]
      /\ GenuineProof(proof) /\ IsParty(proof, by)
      /\ PushEvent(peer, event)
      /\ UNCHANGED <<request, call, online, offers, relations>>
  BY PairResponseEffect
<1>2. peer \in Profiles /\ IsParty(proof, peer)
  BY <1>1, PeersOfEachOther
<1>3. event \in EventSet /\ event.kind = "response" /\ event.proof = proof /\ GenuineEvent(event)
  BY <1>1 DEF ResponseEvent, EventSet, GenuineProof, GenuineEvent
<1> HIDE DEF proof, by, peer, event
<1>4. /\ inbox' \in [Profiles -> SUBSET EventSet]
      /\ lost' \in SUBSET (Profiles \X Proofs)
      /\ \A p \in Profiles : /\ inbox'[p] \subseteq inbox[p] \cup {event}
                             /\ p # peer => inbox'[p] = inbox[p]
  BY <1>1, <1>2, <1>3, PushEffect DEF PairingInv
<1>5. Addressed'
  BY <1>1, <1>2, <1>3, <1>4 DEF PairingInv, TypeOK, Addressed
<1>6. TypeOK'
  BY <1>1, <1>4, <1>5 DEF PairingInv, TypeOK
<1>7. AllGenuine'
  <2>1. \A b \in Accepts : accept'[b].st # "new" =>
           GenuineProof(accept'[b].with) /\ IsParty(accept'[b].with, accept'[b].by)
    BY <1>1 DEF PairingInv, AllGenuine
  <2>2. \A p \in Profiles : \A e \in inbox'[p] : GenuineEvent(e)
    BY <1>3, <1>4 DEF PairingInv, AllGenuine
  <2> QED BY <1>1, <2>1, <2>2 DEF PairingInv, AllGenuine
<1>8. NeverRefused'
  BY <1>1 DEF PairingInv, NeverRefused
<1> QED BY <1>6, <1>7, <1>8

LEMMA AcceptDoneKeeps ==
    ASSUME PairingInv, NEW a \in Accepts, AcceptDone(a)
    PROVE  TypeOK' /\ AllGenuine' /\ NeverRefused'
<1>1. /\ accept[a].st = "answered" /\ accept \in [Accepts -> Chains(Proofs)]
      /\ accept' = [accept EXCEPT ![a].st = "done"]
      /\ relations' = [relations EXCEPT ![accept[a].by] = @ \cup {accept[a].with}]
      /\ UNCHANGED <<request, call, online, inbox, offers, lost>>
  BY DEF AcceptDone, OnNewRelation, PairingInv, TypeOK
<1>2. GenuineProof(accept[a].with) /\ IsParty(accept[a].with, accept[a].by)
  BY <1>1 DEF PairingInv, AllGenuine
<1>3. /\ accept' \in [Accepts -> Chains(Proofs)]
      /\ accept'[a].st = "done" /\ accept'[a].by = accept[a].by /\ accept'[a].with = accept[a].with
      /\ \A b \in Accepts \ {a} : accept'[b] = accept[b]
      /\ accept[a].by \in Profiles /\ accept[a].with \in Proofs
  <2>1. accept[a].st # "new" /\ "done" \in Stages \ {"new"}
    BY <1>1 DEF Stages
  <2> QED BY <1>1, <2>1, ChainMoves
<1>4. /\ relations' \in [Profiles -> SUBSET Proofs]
      /\ \A p \in Profiles : \A f \in relations'[p] :
            f \in relations[p] \/ (p = accept[a].by /\ f = accept[a].with)
  <2>1. relations \in [Profiles -> SUBSET Proofs]
    BY DEF PairingInv, TypeOK
  <2> QED BY <1>1, <1>3, <2>1, Grown
<1>5. Addressed'
  BY <1>1, <1>2, <1>4 DEF PairingInv, TypeOK, Addressed
<1>6. TypeOK'
  BY <1>1, <1>3, <1>4, <1>5 DEF PairingInv, TypeOK
<1>7. \A b \in Accepts : accept'[b].st # "new" =>
         GenuineProof(accept'[b].with) /\ IsParty(accept'[b].with, accept'[b].by)
  BY <1>2, <1>3 DEF PairingInv, AllGenuine
<1>8. AllGenuine'
  BY <1>1, <1>2, <1>4, <1>7 DEF PairingInv, AllGenuine
<1>9. NeverRefused'
  BY <1>1, <1>3 DEF PairingInv, NeverRefused
<1> QED BY <1>6, <1>8, <1>9

LEMMA AcceptFailsKeeps ==
    ASSUME PairingInv, NEW a \in Accepts, AcceptFails(a)
    PROVE  TypeOK' /\ AllGenuine' /\ NeverRefused'
<1>1. /\ accept[a].st \in {"sent", "answered"} /\ accept \in [Accepts -> Chains(Proofs)]
      /\ accept' = [accept EXCEPT ![a].st = "failed"]
      /\ lost' = lost \cup {<<accept[a].by, accept[a].with>>}
      /\ UNCHANGED <<request, call, online, inbox, offers, relations>>
  BY DEF AcceptFails, PairingInv, TypeOK, clientVars
<1>2. /\ accept' \in [Accepts -> Chains(Proofs)]
      /\ accept'[a].st = "failed" /\ accept'[a].by = accept[a].by /\ accept'[a].with = accept[a].with
      /\ \A b \in Accepts \ {a} : accept'[b] = accept[b]
      /\ accept[a].by \in Profiles /\ accept[a].with \in Proofs
  <2>1. accept[a].st # "new" /\ "failed" \in Stages \ {"new"}
    BY <1>1 DEF Stages
  <2> QED BY <1>1, <2>1, ChainMoves
<1>3. TypeOK'
  BY <1>1, <1>2 DEF PairingInv, TypeOK, Addressed
<1>4. \A b \in Accepts : accept'[b].st # "new" =>
         GenuineProof(accept'[b].with) /\ IsParty(accept'[b].with, accept'[b].by)
  BY <1>1, <1>2 DEF PairingInv, AllGenuine
<1>5. AllGenuine'
  BY <1>1, <1>4 DEF PairingInv, AllGenuine
<1>6. NeverRefused'
  BY <1>1, <1>2 DEF PairingInv, NeverRefused
<1> QED BY <1>3, <1>5, <1>6

(* What an event does: a response is stored, a request is shown. *)
LEMMA DeliverEffect ==
    ASSUME PairingInv, NEW p \in Profiles, NEW event \in inbox[p], Deliver(p, event)
    PROVE  /\ event \in EventSet
           /\ inbox' = [inbox EXCEPT ![p] = @ \ {event}]
           /\ UNCHANGED <<request, accept, call, online, lost>>
           /\ event.kind = "request" =>
                 /\ relations' = relations
                 /\ offers' = [offers EXCEPT ![p] = @ \cup {event.half}]
           /\ event.kind # "request" =>
                 /\ relations' = [relations EXCEPT ![p] = @ \cup {event.proof}]
                 /\ offers' = offers
<1>1. event \in EventSet /\ EventSent(event) = event
  BY SentIsSame DEF PairingInv, TypeOK
<1>2. event.kind = "request" <=> event.kind # "response"
  BY <1>1, EventShape
<1> QED BY <1>1, <1>2 DEF Deliver, StoreResponse, OnNewRelation, chainVars

LEMMA DeliverKeeps ==
    ASSUME PairingInv, NEW p \in Profiles, NEW event \in inbox[p], Deliver(p, event)
    PROVE  TypeOK' /\ AllGenuine' /\ NeverRefused'
<1>1. /\ event \in EventSet /\ inbox' = [inbox EXCEPT ![p] = @ \ {event}]
      /\ UNCHANGED <<request, accept, call, online, lost>>
  BY DeliverEffect
<1>2. GenuineEvent(event)
      /\ IF event.kind = "request" THEN event.half.peer = p ELSE IsParty(event.proof, p)
  BY DEF PairingInv, TypeOK, AllGenuine, Addressed
<1>3. inbox' \in [Profiles -> SUBSET EventSet] /\ \A q \in Profiles : inbox'[q] \subseteq inbox[q]
  BY <1>1 DEF PairingInv, TypeOK
<1>4. CASE event.kind = "request"
  <2>1. relations' = relations /\ offers' = [offers EXCEPT ![p] = @ \cup {event.half}]
    BY <1>4, DeliverEffect
  <2>2. GenuineHalf(event.half) /\ event.half \in Halves /\ event.half.peer = p
    BY <1>2, <1>4 DEF GenuineEvent, GenuineHalf
  <2>3. /\ offers' \in [Profiles -> SUBSET Halves]
        /\ \A q \in Profiles : \A h \in offers'[q] : h \in offers[q] \/ (q = p /\ h = event.half)
    <3>1. offers \in [Profiles -> SUBSET Halves]
      BY DEF PairingInv, TypeOK
    <3> QED BY <2>1, <2>2, <3>1, Grown
  <2>4. Addressed'
    BY <1>3, <2>1, <2>2, <2>3 DEF PairingInv, TypeOK, Addressed
  <2>5. TypeOK'
    BY <1>1, <1>3, <2>1, <2>3, <2>4 DEF PairingInv, TypeOK
  <2>6. AllGenuine'
    BY <1>1, <1>3, <2>1, <2>2, <2>3 DEF PairingInv, AllGenuine
  <2> QED BY <1>1, <2>5, <2>6 DEF PairingInv, NeverRefused
<1>5. CASE event.kind # "request"
  <2>1. offers' = offers /\ relations' = [relations EXCEPT ![p] = @ \cup {event.proof}]
    BY <1>5, DeliverEffect
  <2>2. GenuineProof(event.proof) /\ event.proof \in Proofs /\ IsParty(event.proof, p)
    BY <1>2, <1>5 DEF GenuineEvent, GenuineProof
  <2>3. /\ relations' \in [Profiles -> SUBSET Proofs]
        /\ \A q \in Profiles : \A f \in relations'[q] : f \in relations[q] \/ (q = p /\ f = event.proof)
    <3>1. relations \in [Profiles -> SUBSET Proofs]
      BY DEF PairingInv, TypeOK
    <3> QED BY <2>1, <2>2, <3>1, Grown
  <2>4. Addressed'
    BY <1>3, <2>1, <2>2, <2>3 DEF PairingInv, TypeOK, Addressed
  <2>5. TypeOK'
    BY <1>1, <1>3, <2>1, <2>3, <2>4 DEF PairingInv, TypeOK
  <2>6. AllGenuine'
    BY <1>1, <1>3, <2>1, <2>2, <2>3 DEF PairingInv, AllGenuine
  <2> QED BY <1>1, <2>5, <2>6 DEF PairingInv, NeverRefused
<1> QED BY <1>4, <1>5

LEMMA SessionKeeps ==
    ASSUME PairingInv, NEW p \in Profiles, GoOnline(p) \/ GoOffline(p)
    PROVE  TypeOK' /\ AllGenuine' /\ NeverRefused'
<1>1. UNCHANGED <<request, accept, call, offers, relations>>
  BY DEF GoOnline, GoOffline, chainVars, clientVars
<1>2. \A e \in Responses(inbox[p]) : e.proof \in Proofs
  BY EventShape DEF PairingInv, TypeOK, Responses
<1>3. /\ online' \in SUBSET Profiles /\ inbox' \in [Profiles -> SUBSET EventSet]
      /\ lost' \in SUBSET (Profiles \X Proofs)
      /\ \A q \in Profiles : inbox'[q] \subseteq inbox[q]
  BY <1>2 DEF PairingInv, TypeOK, GoOnline, GoOffline
<1>4. Addressed'
  BY <1>1, <1>3 DEF PairingInv, TypeOK, Addressed
<1>5. TypeOK'
  BY <1>1, <1>3, <1>4 DEF PairingInv, TypeOK
<1>6. AllGenuine' /\ NeverRefused'
  BY <1>1, <1>3 DEF PairingInv, AllGenuine, NeverRefused
<1> QED BY <1>5, <1>6

LEMMA RestartKeeps ==
    ASSUME PairingInv, NEW p \in Profiles, Restart(p)
    PROVE  TypeOK' /\ AllGenuine' /\ NeverRefused'
<1>1. /\ request \in [Requests -> Chains(Halves)] /\ accept \in [Accepts -> Chains(Proofs)]
      /\ call \in [Calls -> Chains(Proofs)]
      /\ request' = Stopped(request, p) /\ accept' = Stopped(accept, p) /\ call' = Stopped(call, p)
  BY DEF PairingInv, TypeOK, Restart
<1>2. /\ request' \in [Requests -> Chains(Halves)]
      /\ \A r \in Requests : /\ request'[r].by = request[r].by /\ request'[r].with = request[r].with
                             /\ request'[r].st \in {request[r].st, "failed"}
                             /\ request[r].st = "new" => request'[r].st = "new"
  BY <1>1, StoppedShape
<1>3. /\ accept' \in [Accepts -> Chains(Proofs)]
      /\ \A a \in Accepts : /\ accept'[a].by = accept[a].by /\ accept'[a].with = accept[a].with
                            /\ accept'[a].st \in {accept[a].st, "failed"}
                            /\ accept[a].st = "new" => accept'[a].st = "new"
  BY <1>1, StoppedShape
<1>4. /\ call' \in [Calls -> Chains(Proofs)]
      /\ \A c \in Calls : /\ call'[c].by = call[c].by /\ call'[c].with = call[c].with
                          /\ call'[c].st \in {call[c].st, "failed"}
                          /\ call[c].st = "new" => call'[c].st = "new"
  BY <1>1, StoppedShape
<1>5. \A e \in Responses(inbox[p]) : e.proof \in Proofs
  BY EventShape DEF PairingInv, TypeOK, Responses
<1>6. ASSUME NEW a \in Accepts, accept[a].by = p PROVE accept[a].with \in Proofs
  <2>1. accept[a].st # "new"
    BY <1>1, <1>6, PairingAssumption DEF Chains, Idle
  <2> QED BY <1>1, <2>1, ChainShape
<1>7. lost' \in SUBSET (Profiles \X Proofs)
  BY <1>5, <1>6 DEF PairingInv, TypeOK, Restart
<1>8. /\ online' \in SUBSET Profiles /\ inbox' \in [Profiles -> SUBSET EventSet]
      /\ offers' \in [Profiles -> SUBSET Halves] /\ relations' \in [Profiles -> SUBSET Proofs]
      /\ \A q \in Profiles : /\ inbox'[q] \subseteq inbox[q] /\ offers'[q] \subseteq offers[q]
                             /\ relations'[q] \subseteq relations[q]
  BY DEF PairingInv, TypeOK, Restart
<1>9. Addressed'
  BY <1>8 DEF PairingInv, TypeOK, Addressed
<1>10. TypeOK'
  BY <1>2, <1>3, <1>4, <1>7, <1>8, <1>9 DEF TypeOK
<1>11. AllGenuine'
  <2>1. \A r \in Requests : request'[r].st # "new" =>
           GenuineHalf(request'[r].with) /\ request'[r].by = request'[r].with.signer
    BY <1>2 DEF PairingInv, AllGenuine
  <2>2. \A a \in Accepts : accept'[a].st # "new" =>
           GenuineProof(accept'[a].with) /\ IsParty(accept'[a].with, accept'[a].by)
    BY <1>3 DEF PairingInv, AllGenuine
  <2>3. \A c \in Calls : call'[c].st # "new" =>
           GenuineProof(call'[c].with) /\ IsParty(call'[c].with, call'[c].by)
    BY <1>4 DEF PairingInv, AllGenuine
  <2> QED BY <1>8, <2>1, <2>2, <2>3 DEF PairingInv, AllGenuine
<1>12. NeverRefused'
  BY <1>2, <1>3, <1>4 DEF PairingInv, NeverRefused
<1> QED BY <1>10, <1>11, <1>12

LEMMA CallKeeps ==
    ASSUME PairingInv, NEW c \in Calls,
           \/ \E p, peer \in Profiles, t \in Types : Call(c, p, peer, t)
           \/ CallHome(c)
    PROVE  TypeOK' /\ AllGenuine' /\ NeverRefused'
<1>1. UNCHANGED <<request, accept, online, inbox, offers, relations, lost>>
  BY DEF Call, CallHome, clientVars
<1>2. /\ call' \in [Calls -> Chains(Proofs)]
      /\ call'[c].st # "refused" /\ GenuineProof(call'[c].with) /\ IsParty(call'[c].with, call'[c].by)
      /\ \A d \in Calls \ {c} : call'[d] = call[d]
  <2>1. CASE \E p, peer \in Profiles, t \in Types : Call(c, p, peer, t)
    <3>1. PICK p \in Profiles : \E proof \in relations[p] :
             call' = [call EXCEPT ![c] = [st |-> "sent", by |-> p, with |-> proof]]
      BY <2>1 DEF Call, RelationsWithPeer
    <3>2. PICK proof \in relations[p] :
             call' = [call EXCEPT ![c] = [st |-> "sent", by |-> p, with |-> proof]]
      BY <3>1
    <3>3. GenuineProof(proof) /\ IsParty(proof, p) /\ proof \in Proofs
      BY DEF PairingInv, TypeOK, AllGenuine, Addressed
    <3>4. [st |-> "sent", by |-> p, with |-> proof] \in Chains(Proofs)
      BY <3>3, ChainBegins
    <3> QED BY <3>2, <3>3, <3>4 DEF PairingInv, TypeOK
  <2>2. CASE CallHome(c)
    <3>1. call[c].st = "sent" /\ call \in [Calls -> Chains(Proofs)]
      BY <2>2 DEF CallHome, PairingInv, TypeOK
    <3>2. GenuineProof(call[c].with) /\ IsParty(call[c].with, call[c].by)
          /\ ProofSent(call[c].with) = call[c].with
      BY <3>1, SentIsSame DEF PairingInv, AllGenuine, GenuineProof
    <3>3. AcceptsProof(ProofSent(call[c].with), call[c].by)
      BY <3>2, GenuineIsValid
    <3>4. call' = [call EXCEPT ![c].st = "answered"]
      BY <2>2, <3>3 DEF CallHome
    <3>5. call[c].st # "new" /\ "answered" \in Stages \ {"new"}
      BY <3>1 DEF Stages
    <3>6. /\ call' \in [Calls -> Chains(Proofs)]
          /\ call'[c].st = "answered" /\ call'[c].by = call[c].by /\ call'[c].with = call[c].with
          /\ \A d \in Calls \ {c} : call'[d] = call[d]
      BY <3>1, <3>4, <3>5, ChainMoves
    <3> QED BY <3>2, <3>6
  <2> QED BY <2>1, <2>2
<1>3. TypeOK'
  BY <1>1, <1>2 DEF PairingInv, TypeOK, Addressed
<1>4. \A d \in Calls : call'[d].st # "new" =>
         GenuineProof(call'[d].with) /\ IsParty(call'[d].with, call'[d].by)
  BY <1>2 DEF PairingInv, AllGenuine
<1>5. AllGenuine'
  BY <1>1, <1>4 DEF PairingInv, AllGenuine
<1>6. NeverRefused'
  BY <1>1, <1>2 DEF PairingInv, NeverRefused
<1> QED BY <1>3, <1>5, <1>6

LEMMA NextKeeps ==
    ASSUME PairingInv, Next
    PROVE  TypeOK' /\ AllGenuine' /\ NeverRefused'
  BY InitiateKeeps, PairRequestKeeps, RequestFailsKeeps, AcceptKeeps, PairResponseKeeps,
     AcceptDoneKeeps, AcceptFailsKeeps, DeliverKeeps, SessionKeeps, RestartKeeps, CallKeeps
     DEF Next

-----------------------------------------------------------------------------
(***************************************************************************)
(* Both sides of a relation.  Holds never becomes false: what leaves the   *)
(* relations, the inbox or the answered calls goes on to the next of these *)
(* places or is lost.                                                      *)
(***************************************************************************)
LEMMA HeldWhereNothingLeaves ==
    ASSUME \A q \in Profiles : relations[q] \subseteq relations'[q] /\ inbox[q] \subseteq inbox'[q],
           lost \subseteq lost',
           \A a \in Accepts : accept[a].st = "answered" => accept'[a] = accept[a],
           NEW p \in Profiles, NEW proof, Holds(p, proof)
    PROVE  Holds(p, proof)'
<1>1. ASSUME NEW a \in Accepts, accept[a] = [st |-> "answered", by |-> p, with |-> proof]
      PROVE  accept'[a] = [st |-> "answered", by |-> p, with |-> proof]
  BY <1>1
<1> QED BY <1>1 DEF Holds

(* Only new relations, responses and answers are owed to the other side. *)
LEMMA SharedWithOld ==
    ASSUME PairingInv, \A p \in Profiles, f \in Proofs : Holds(p, f) => Holds(p, f)',
           \A p \in Profiles : \A f \in relations'[p] :
              f \in relations[p] \/ Holds(PeerId(f, p), f)',
           \A p \in Profiles : \A e \in Responses(inbox'[p]) :
              e \in Responses(inbox[p]) \/ Holds(PeerId(e.proof, p), e.proof)',
           \A a \in Accepts : accept'[a].st = "answered" =>
              \/ accept'[a] = accept[a]
              \/ Holds(PeerId(accept[a].with, accept[a].by), accept[a].with)'
    PROVE  NotOneSided' /\ AnswersAreShared'
<1>1. ASSUME NEW p \in Profiles, NEW f \in relations[p] PROVE Holds(PeerId(f, p), f)'
  <2>1. PeerId(f, p) \in Profiles /\ f \in Proofs
    BY PeersOfEachOther DEF PairingInv, TypeOK, Addressed, AllGenuine
  <2> QED BY <2>1 DEF PairingInv, NotOneSided
<1>2. ASSUME NEW p \in Profiles, NEW e \in Responses(inbox[p])
      PROVE  Holds(PeerId(e.proof, p), e.proof)'
  <2>1. e \in inbox[p] /\ e.kind = "response" /\ e.kind # "request"
    BY DEF Responses
  <2>2. GenuineProof(e.proof) /\ IsParty(e.proof, p)
    BY <2>1 DEF PairingInv, TypeOK, Addressed, AllGenuine, GenuineEvent
  <2>3. PeerId(e.proof, p) \in Profiles /\ e.proof \in Proofs
    BY <2>2, PeersOfEachOther DEF GenuineProof
  <2> QED BY <2>3 DEF PairingInv, AnswersAreShared
<1>3. ASSUME NEW a \in Accepts, accept[a].st = "answered", NEW f, NEW p,
             f = accept[a].with, p = accept[a].by
      PROVE  Holds(PeerId(f, p), f)'
  <2>1. GenuineProof(f) /\ IsParty(f, p)
    BY <1>3 DEF PairingInv, AllGenuine
  <2>2. PeerId(f, p) \in Profiles /\ f \in Proofs
    BY <2>1, PeersOfEachOther DEF GenuineProof
  <2> QED BY <1>3, <2>2 DEF PairingInv, AnswersAreShared
<1>4. NotOneSided'
  BY <1>1 DEF NotOneSided
<1>5. ASSUME NEW a \in Accepts, accept'[a].st = "answered"
      PROVE  Holds(PeerId(accept[a].with, accept[a].by), accept[a].with)'
  <2>1. CASE accept'[a] = accept[a]
    <3>1. PICK f, p : f = accept[a].with /\ p = accept[a].by
      OBVIOUS
    <3>2. accept[a].st = "answered" /\ f = accept'[a].with /\ p = accept'[a].by
      BY <1>5, <2>1, <3>1
    <3>3. Holds(PeerId(f, p), f)'
      BY <1>3, <3>1, <3>2
    <3> QED BY <3>2, <3>3
  <2> QED BY <1>5, <2>1
<1>6. AnswersAreShared'
  BY <1>2, <1>5 DEF AnswersAreShared
<1> QED BY <1>4, <1>6

LEMMA QuietStep ==
    ASSUME PairingInv, UNCHANGED <<relations, lost>>,
           UNCHANGED inbox,
           \A a \in Accepts : accept[a].st = "answered" => accept'[a] = accept[a],
           \A a \in Accepts : accept'[a].st = "answered" => accept'[a] = accept[a]
    PROVE  NotOneSided' /\ AnswersAreShared'
<1>1. \A p \in Profiles, f \in Proofs : Holds(p, f) => Holds(p, f)'
  BY HeldWhereNothingLeaves
<1> QED BY <1>1, SharedWithOld

LEMMA RequestShares ==
    ASSUME PairingInv, NEW r \in Requests, PairRequest(r)
    PROVE  NotOneSided' /\ AnswersAreShared'
<1> DEFINE half == request[r].with
           event == RequestEvent(half)
<1>1. request[r].st = "sent" /\ GenuineHalf(half) /\ request[r].by = half.signer
  BY DEF PairRequest, PairingInv, AllGenuine
<1>2. half \in Halves /\ HalfProofSent(half) = half /\ AcceptsRequest(half, request[r].by)
  BY <1>1, SentIsSame, GenuineIsAccepted DEF GenuineHalf
<1>3. PushEvent(half.peer, event) /\ UNCHANGED <<accept, relations>>
  BY <1>2 DEF PairRequest, RequestTarget, clientVars
<1>4. half.peer \in Profiles /\ event \in EventSet /\ event.kind = "request"
  BY <1>2 DEF Halves, RequestEvent, EventSet
<1> HIDE DEF half, event
<1>5. /\ lost \subseteq lost'
      /\ \A p \in Profiles : inbox[p] \subseteq inbox'[p] /\ inbox'[p] \subseteq inbox[p] \cup {event}
  BY <1>3, <1>4, PushEffect DEF PairingInv
<1>6. \A p \in Profiles : Responses(inbox'[p]) \subseteq Responses(inbox[p])
  BY <1>4, <1>5 DEF Responses
<1>7. \A p \in Profiles, f \in Proofs : Holds(p, f) => Holds(p, f)'
  BY <1>3, <1>5, HeldWhereNothingLeaves
<1> QED BY <1>3, <1>6, <1>7, SharedWithOld

(* The home sends the initiator the proof before it answers the acceptor. *)
LEMMA ResponseShares ==
    ASSUME PairingInv, NEW a \in Accepts, PairResponse(a)
    PROVE  NotOneSided' /\ AnswersAreShared'
<1>0. PICK proof, by, peer, event : /\ proof = accept[a].with /\ by = accept[a].by
                                   /\ peer = PeerId(proof, by) /\ event = ResponseEvent(proof)
  OBVIOUS
<1>1. /\ accept'[a] = [st |-> "answered", by |-> by, with |-> proof]
      /\ \A b \in Accepts \ {a} : accept'[b] = accept[b]
      /\ accept[a].st = "sent" /\ GenuineProof(proof) /\ IsParty(proof, by)
      /\ PushEvent(peer, event) /\ UNCHANGED relations
  BY <1>0, PairResponseEffect
<1>2. peer \in Profiles /\ by \in Profiles /\ PeerId(proof, peer) = by /\ proof \in Proofs
  BY <1>0, <1>1, PeersOfEachOther DEF GenuineProof
<1>3. event \in EventSet /\ event.kind = "response" /\ event.proof = proof
  BY <1>0, <1>2 DEF ResponseEvent, EventSet
<1>4. /\ lost \subseteq lost' /\ (event \in inbox'[peer] \/ <<peer, proof>> \in lost')
      /\ \A p \in Profiles : /\ inbox[p] \subseteq inbox'[p] /\ inbox'[p] \subseteq inbox[p] \cup {event}
                             /\ p # peer => inbox'[p] = inbox[p]
  BY <1>1, <1>2, <1>3, PushEffect DEF PairingInv
<1>5. \A b \in Accepts : accept[b].st = "answered" => accept'[b] = accept[b]
  BY <1>1
<1>6. \A p \in Profiles, f \in Proofs : Holds(p, f) => Holds(p, f)'
  BY <1>1, <1>4, <1>5, HeldWhereNothingLeaves
<1>7. Holds(by, proof)' /\ Holds(peer, proof)'
  BY <1>0, <1>1, <1>4 DEF Holds
<1>8. ASSUME NEW p \in Profiles, NEW e \in Responses(inbox'[p]), e \notin Responses(inbox[p])
      PROVE  Holds(PeerId(e.proof, p), e.proof)'
  <2>1. e = event /\ p = peer
    BY <1>4, <1>8 DEF Responses
  <2> QED BY <1>2, <1>3, <1>7, <2>1
<1>9. Holds(PeerId(accept[a].with, accept[a].by), accept[a].with)'
  <2>1. accept'[a].with = proof /\ accept'[a].by = by
    BY <1>1
  <2>2. Holds(PeerId(proof, by), proof)'
    BY <1>0, <1>7
  <2> QED BY <2>1, <2>2
<1> QED BY <1>1, <1>6, <1>8, <1>9, SharedWithOld

(* The acceptor's answer becomes its relation; the initiator has its event. *)
LEMMA DoneShares ==
    ASSUME PairingInv, NEW a \in Accepts, AcceptDone(a)
    PROVE  NotOneSided' /\ AnswersAreShared'
<1>0. PICK proof, by : proof = accept[a].with /\ by = accept[a].by
  OBVIOUS
<1>1. /\ accept[a].st = "answered" /\ accept \in [Accepts -> Chains(Proofs)]
      /\ accept' = [accept EXCEPT ![a].st = "done"]
      /\ relations' = [relations EXCEPT ![by] = @ \cup {proof}]
      /\ UNCHANGED <<inbox, lost>> /\ relations \in [Profiles -> SUBSET Proofs]
  BY <1>0 DEF AcceptDone, OnNewRelation, PairingInv, TypeOK
<1>2. GenuineProof(proof) /\ IsParty(proof, by) /\ proof \in Proofs
  BY <1>0, <1>1 DEF PairingInv, AllGenuine, GenuineProof
<1>3. by \in Profiles /\ PeerId(proof, by) \in Profiles
  BY <1>2, PeersOfEachOther
<1>4. accept'[a].st = "done" /\ \A b \in Accepts \ {a} : accept'[b] = accept[b]
  BY <1>1
<1>5. /\ proof \in relations'[by]
      /\ \A q \in Profiles : /\ relations[q] \subseteq relations'[q]
                             /\ \A f \in relations'[q] : f \in relations[q] \/ (q = by /\ f = proof)
  BY <1>1, <1>2, <1>3, Grown
<1>6. ASSUME NEW p \in Profiles, NEW f \in Proofs, Holds(p, f) PROVE Holds(p, f)'
  <2>1. CASE accept[a] = [st |-> "answered", by |-> p, with |-> f]
    <3>1. f \in relations'[p]
      BY <1>0, <1>5, <2>1
    <3> QED BY <3>1 DEF Holds
  <2>2. CASE accept[a] # [st |-> "answered", by |-> p, with |-> f]
    BY <1>1, <1>4, <1>5, <1>6, <2>2 DEF Holds
  <2> QED BY <2>1, <2>2
<1>7. Holds(PeerId(proof, by), proof)
  BY <1>0, <1>1 DEF PairingInv, AnswersAreShared
<1>8. Holds(PeerId(proof, by), proof)'
  BY <1>2, <1>3, <1>6, <1>7
<1>9. \A p \in Profiles : \A f \in relations'[p] : f \in relations[p] \/ Holds(PeerId(f, p), f)'
  BY <1>5, <1>8
<1>10. \A b \in Accepts : accept'[b].st = "answered" => accept'[b] = accept[b]
  BY <1>4
<1> QED BY <1>1, <1>6, <1>9, <1>10, SharedWithOld

(* An answer that does not come is lost. *)
LEMMA FailShares ==
    ASSUME PairingInv, NEW a \in Accepts, AcceptFails(a)
    PROVE  NotOneSided' /\ AnswersAreShared'
<1>1. /\ accept \in [Accepts -> Chains(Proofs)]
      /\ accept' = [accept EXCEPT ![a].st = "failed"]
      /\ lost' = lost \cup {<<accept[a].by, accept[a].with>>}
      /\ UNCHANGED <<inbox, relations>> /\ accept[a].st \in {"sent", "answered"}
  BY DEF AcceptFails, PairingInv, TypeOK, clientVars
<1>2. accept'[a].st = "failed" /\ \A b \in Accepts \ {a} : accept'[b] = accept[b]
  BY <1>1
<1>3. ASSUME NEW p \in Profiles, NEW f \in Proofs, Holds(p, f) PROVE Holds(p, f)'
  <2>1. CASE accept[a] = [st |-> "answered", by |-> p, with |-> f]
    <3>1. <<p, f>> \in lost'
      BY <1>1, <2>1
    <3> QED BY <3>1 DEF Holds
  <2>2. CASE accept[a] # [st |-> "answered", by |-> p, with |-> f]
    BY <1>1, <1>2, <1>3, <2>2 DEF Holds
  <2> QED BY <2>1, <2>2
<1>4. \A b \in Accepts : accept'[b].st = "answered" => accept'[b] = accept[b]
  BY <1>2
<1> QED BY <1>1, <1>3, <1>4, SharedWithOld

(* The initiator's event becomes its relation. *)
LEMMA DeliverShares ==
    ASSUME PairingInv, NEW p \in Profiles, NEW event \in inbox[p], Deliver(p, event)
    PROVE  NotOneSided' /\ AnswersAreShared'
<1>1. /\ event \in EventSet /\ UNCHANGED <<accept, lost>>
      /\ inbox' = [inbox EXCEPT ![p] = @ \ {event}]
      /\ event.kind = "request" => relations' = relations
      /\ event.kind # "request" => relations' = [relations EXCEPT ![p] = @ \cup {event.proof}]
  BY DeliverEffect
<1>2. inbox \in [Profiles -> SUBSET EventSet] /\ relations \in [Profiles -> SUBSET Proofs]
  BY DEF PairingInv, TypeOK
<1>3. \A q \in Profiles : /\ inbox'[q] \subseteq inbox[q]
                          /\ \A e \in inbox[q] : e \in inbox'[q] \/ (q = p /\ e = event)
  BY <1>1, <1>2
<1>4. \A q \in Profiles : Responses(inbox'[q]) \subseteq Responses(inbox[q])
  BY <1>3 DEF Responses
<1>5. CASE event.kind = "request"
  <2>1. \A f \in Proofs : ResponseEvent(f) # event
    BY <1>5 DEF ResponseEvent
  <2>2. \A q \in Profiles, f \in Proofs : Holds(q, f) => Holds(q, f)'
    BY <1>1, <1>3, <1>5, <2>1 DEF Holds
  <2> QED BY <1>1, <1>4, <1>5, <2>2, SharedWithOld
<1>6. CASE event.kind # "request"
  <2>1. PICK proof : proof = event.proof
    OBVIOUS
  <2>2. /\ event.kind = "response" /\ proof \in Proofs /\ event = ResponseEvent(proof)
        /\ GenuineProof(proof) /\ IsParty(proof, p)
    BY <1>1, <1>6, <2>1, EventShape
       DEF PairingInv, TypeOK, Addressed, AllGenuine, GenuineEvent
  <2>3. relations' = [relations EXCEPT ![p] = @ \cup {proof}]
    BY <1>1, <1>6, <2>1
  <2>4. /\ proof \in relations'[p]
        /\ \A q \in Profiles : /\ relations[q] \subseteq relations'[q]
                               /\ \A f \in relations'[q] : f \in relations[q] \/ (q = p /\ f = proof)
    BY <1>2, <2>2, <2>3, Grown
  <2>5. \A f \in Proofs : ResponseEvent(f) = event => f = proof
    BY <2>2 DEF ResponseEvent
  <2>6. \A q \in Profiles, f \in Proofs : Holds(q, f) => Holds(q, f)'
    BY <1>1, <1>3, <2>4, <2>5 DEF Holds
  <2>7. event \in Responses(inbox[p])
    BY <2>2 DEF Responses
  <2>8. PeerId(proof, p) \in Profiles
    BY <2>2, PeersOfEachOther
  <2>9. Holds(PeerId(proof, p), proof)'
    BY <2>1, <2>2, <2>6, <2>7, <2>8 DEF PairingInv, AnswersAreShared
  <2>10. \A q \in Profiles : \A f \in relations'[q] : f \in relations[q] \/ Holds(PeerId(f, q), f)'
    BY <2>4, <2>9
  <2> QED BY <1>1, <1>4, <2>6, <2>10, SharedWithOld
<1> QED BY <1>5, <1>6

(* A session that ends loses the events that it held. *)
LEMMA OfflineShares ==
    ASSUME PairingInv, NEW p \in Profiles, GoOffline(p)
    PROVE  NotOneSided' /\ AnswersAreShared'
<1>1. /\ UNCHANGED <<accept, relations>> /\ inbox \in [Profiles -> SUBSET EventSet]
      /\ inbox' = [inbox EXCEPT ![p] = {}]
      /\ lost' = lost \cup {<<p, e.proof>> : e \in Responses(inbox[p])}
  BY DEF GoOffline, PairingInv, TypeOK, chainVars, clientVars
<1>2. \A q \in Profiles : Responses(inbox'[q]) \subseteq Responses(inbox[q])
  BY <1>1 DEF Responses
<1>3. ASSUME NEW f \in Proofs, ResponseEvent(f) \in inbox[p] PROVE <<p, f>> \in lost'
  <2>1. ResponseEvent(f) \in Responses(inbox[p]) /\ ResponseEvent(f).proof = f
    BY <1>3 DEF Responses, ResponseEvent
  <2> QED BY <1>1, <2>1
<1>4. \A q \in Profiles \ {p} : inbox'[q] = inbox[q]
  BY <1>1
<1>5. \A q \in Profiles, f \in Proofs : Holds(q, f) => Holds(q, f)'
  BY <1>1, <1>3, <1>4 DEF Holds
<1> QED BY <1>1, <1>2, <1>5, SharedWithOld

(* A client that restarts loses all that it had. *)
LEMMA RestartShares ==
    ASSUME PairingInv, NEW p \in Profiles, Restart(p)
    PROVE  NotOneSided' /\ AnswersAreShared'
<1>1. /\ inbox \in [Profiles -> SUBSET EventSet] /\ relations \in [Profiles -> SUBSET Proofs]
      /\ accept \in [Accepts -> Chains(Proofs)] /\ accept' = Stopped(accept, p)
      /\ inbox' = [inbox EXCEPT ![p] = {}] /\ relations' = [relations EXCEPT ![p] = {}]
      /\ lost' = lost \cup {<<p, proof>> : proof \in relations[p]}
                      \cup {<<p, e.proof>> : e \in Responses(inbox[p])}
                      \cup {<<p, accept[a].with>> : a \in {b \in Accepts : accept[b].by = p}}
  BY DEF Restart, PairingInv, TypeOK
<1>2. /\ \A q \in Profiles : inbox'[q] \subseteq inbox[q] /\ relations'[q] \subseteq relations[q]
      /\ \A q \in Profiles \ {p} : inbox'[q] = inbox[q] /\ relations'[q] = relations[q]
  BY <1>1
<1>3. \A a \in Accepts : /\ accept[a].by # p => accept'[a] = accept[a]
                         /\ accept'[a].st = "answered" => accept'[a] = accept[a]
  BY <1>1, StoppedShape
<1>4. lost \subseteq lost'
  BY <1>1
<1>5. ASSUME NEW f \in Proofs, ResponseEvent(f) \in inbox[p] PROVE <<p, f>> \in lost'
  <2>1. ResponseEvent(f) \in Responses(inbox[p]) /\ ResponseEvent(f).proof = f
    BY <1>5 DEF Responses, ResponseEvent
  <2> QED BY <1>1, <2>1
<1>6. ASSUME NEW f \in relations[p] PROVE <<p, f>> \in lost'
  BY <1>1
<1>7. ASSUME NEW a \in Accepts, accept[a].by = p PROVE <<p, accept[a].with>> \in lost'
  BY <1>1, <1>7
<1>8. ASSUME NEW q \in Profiles, NEW f \in Proofs, Holds(q, f) PROVE Holds(q, f)'
  <2>1. CASE q = p
    <3>1. <<p, f>> \in lost'
      BY <1>4, <1>5, <1>6, <1>7, <1>8, <2>1 DEF Holds
    <3> QED BY <2>1, <3>1 DEF Holds
  <2>2. CASE q # p
    BY <1>2, <1>3, <1>4, <1>8, <2>2 DEF Holds
  <2> QED BY <2>1, <2>2
<1>9. \A q \in Profiles : Responses(inbox'[q]) \subseteq Responses(inbox[q])
  BY <1>2 DEF Responses
<1> QED BY <1>2, <1>3, <1>8, <1>9, SharedWithOld

(* A new acceptance is not answered yet. *)
LEMMA AcceptShares ==
    ASSUME PairingInv, NEW a \in Accepts, NEW p \in Profiles, NEW half \in offers[p],
           Accept(a, p, half)
    PROVE  NotOneSided' /\ AnswersAreShared'
<1>1. /\ UNCHANGED <<relations, lost, inbox>> /\ accept \in [Accepts -> Chains(Proofs)]
      /\ accept[a].st = "new" /\ accept'[a].st = "sent"
      /\ \A b \in Accepts \ {a} : accept'[b] = accept[b]
  BY DEF Accept, clientVars, PairingInv, TypeOK
<1>2. \A b \in Accepts : accept[b].st = "answered" => accept'[b] = accept[b]
  BY <1>1
<1>3. \A b \in Accepts : accept'[b].st = "answered" => accept'[b] = accept[b]
  BY <1>1
<1> QED BY <1>1, <1>2, <1>3, QuietStep

LEMMA NextShares ==
    ASSUME PairingInv, Next
    PROVE  NotOneSided' /\ AnswersAreShared'
<1>1. ASSUME UNCHANGED <<accept, inbox, relations, lost>>
      PROVE  NotOneSided' /\ AnswersAreShared'
  BY <1>1, QuietStep
<1>2. CASE \E r \in Requests, p, q \in Profiles, t \in Types : Initiate(r, p, q, t)
  BY <1>1, <1>2 DEF Initiate, clientVars
<1>3. CASE \E r \in Requests : PairRequest(r) \/ RequestFails(r)
  <2>1. CASE \E r \in Requests : RequestFails(r)
    BY <1>1, <2>1 DEF RequestFails, clientVars
  <2> QED BY <1>3, <2>1, RequestShares
<1>4. CASE \E a \in Accepts, p \in Profiles : \E half \in offers[p] : Accept(a, p, half)
  BY <1>4, AcceptShares
<1>5. CASE \E a \in Accepts : PairResponse(a) \/ AcceptDone(a) \/ AcceptFails(a)
  BY <1>5, ResponseShares, DoneShares, FailShares
<1>6. CASE \E p \in Profiles : \E event \in inbox[p] : Deliver(p, event)
  BY <1>6, DeliverShares
<1>7. CASE \E p \in Profiles : GoOnline(p) \/ GoOffline(p) \/ Restart(p)
  <2>1. CASE \E p \in Profiles : GoOnline(p)
    BY <1>1, <2>1 DEF GoOnline, chainVars, clientVars
  <2> QED BY <1>7, <2>1, OfflineShares, RestartShares
<1>8. CASE \E c \in Calls, p, q \in Profiles, t \in Types : Call(c, p, q, t)
  BY <1>1, <1>8 DEF Call, clientVars
<1>9. CASE \E c \in Calls : CallHome(c)
  BY <1>1, <1>9 DEF CallHome, clientVars
<1> QED BY <1>2, <1>3, <1>4, <1>5, <1>6, <1>7, <1>8, <1>9 DEF Next

-----------------------------------------------------------------------------
(***************************************************************************)
(* Proofs of relations are genuine wherever clients and homes keep them,   *)
(* and whatever one side stores or is about to is known to the other.      *)
(***************************************************************************)
THEOREM PairingInvCorrect == Spec => []PairingInv
<1>1. PairingInv /\ [Next]_vars => PairingInv'
  <2> SUFFICES ASSUME PairingInv, [Next]_vars PROVE PairingInv'
    OBVIOUS
  <2>1. CASE Next
    BY <2>1, NextKeeps, NextShares DEF PairingInv
  <2>2. CASE UNCHANGED vars
    <3>1. UNCHANGED <<request, accept, call, online, inbox, offers, relations, lost>>
      BY <2>2 DEF vars, chainVars, clientVars
    <3>2. TypeOK' /\ AllGenuine' /\ NeverRefused'
      BY <3>1 DEF PairingInv, TypeOK, Addressed, AllGenuine, NeverRefused
    <3>3. NotOneSided' /\ AnswersAreShared'
      BY <3>1, QuietStep
    <3> QED BY <3>2, <3>3 DEF PairingInv
  <2> QED BY <2>1, <2>2
<1> QED BY <1>1, InitialInv, PTL DEF Spec

(***************************************************************************)
(* The variables keep their types; requests reach the profile they name    *)
(* and proofs only a party of them.                                        *)
(***************************************************************************)
THEOREM PairingTypeCorrect == Spec => []TypeOK
<1>1. PairingInv => TypeOK
  BY DEF PairingInv
<1> QED BY <1>1, PairingInvCorrect, PTL

(***************************************************************************)
(* No home ever finds a request, a response or a call of a client invalid. *)
(***************************************************************************)
THEOREM NeverRefusedCorrect == Spec => []NeverRefused
<1>1. PairingInv => NeverRefused
  BY DEF PairingInv
<1> QED BY <1>1, PairingInvCorrect, PTL

(***************************************************************************)
(* Two profiles that both asked and both accepted know one and the same    *)
(* proof of each relation.                                                 *)
(***************************************************************************)
THEOREM SameProofCorrect == Spec => []SameProof
<1>1. PairingInv => SameProof
  BY GenuineIsUnique DEF PairingInv, AllGenuine, SameProof
<1> QED BY <1>1, PairingInvCorrect, PTL

(***************************************************************************)
(* A profile holds a relation that its peer does not hold only while the   *)
(* proof or the home's answer is on its way, or because one was lost.      *)
(***************************************************************************)
THEOREM NotOneSidedCorrect == Spec => []NotOneSided
<1>1. PairingInv => NotOneSided
  BY DEF PairingInv
<1> QED BY <1>1, PairingInvCorrect, PTL

-----------------------------------------------------------------------------
(***************************************************************************)
(* Connecting to a home, and the handshake of its two ends                 *)
(***************************************************************************)
(***************************************************************************)
(* What DialInv says is about the dialling variables, the ends' phases and *)
(* the lost connections.                                                   *)
(***************************************************************************)
LEMMA DialFrame ==
    ASSUME DialInv, UNCHANGED <<dialVars, phase, cut>> PROVE DialInv'
BY DEF DialInv, InTurn, OnlyOverMade, ClosedForCause, LetGo, FailedForCause, GaveUp, dialVars

(* What ShakeInv says of a connection is about that connection alone. *)
LEMMA ShakeFrame ==
    ASSUME NEW a, ShakeInv(a), phase'[a] = phase[a], step'[a] = step[a], pipe'[a] = pipe[a],
           size'[a] = size[a], heard'[a] = heard[a], context'[a] = context[a]
    PROVE  ShakeInv(a)'
BY DEF ShakeInv, Served, Flows, Learnt, Sent, Read

(* A step of the client's dialling leaves every handshake as it is. *)
LEMMA DialStep ==
    ASSUME ConnectInv, UNCHANGED shakeVars, ConnectTypeOK', DialInv' PROVE ConnectInv'
<1>1. ASSUME NEW a \in Addrs PROVE ShakeInv(a)'
  <2>1. ShakeInv(a)
    BY DEF ConnectInv
  <2>2. /\ phase'[a] = phase[a] /\ step'[a] = step[a] /\ pipe'[a] = pipe[a]
        /\ size'[a] = size[a] /\ heard'[a] = heard[a] /\ context'[a] = context[a]
    BY DEF shakeVars
  <2>. QED  BY <2>1, <2>2, ShakeFrame
<1>. QED  BY <1>1 DEF ConnectInv

(* An address is an address of its home. *)
LEMMA HomeOfType == \A a \in Addrs : HomeOf[a] \in Homes /\ a \in AddrsOf(HomeOf[a])
BY ConnectingAssumption DEF AddrsOf

(* The homes of which none is left to try when home h fails *)
LEMMA HomeFailsEffect ==
    ASSUME ConnectInv, NEW h \in Homes, NEW fails \in BOOLEAN, HomeFails(h, fails)
    PROVE  /\ home' \in [Homes -> {"idle", "loading", "dialing", "shaking", "ready", "dropped", "failed"}]
           /\ \A g \in Homes : home'[g] = IF g = h /\ fails THEN "failed" ELSE home[g]
           /\ st' \in {st, "failed"}
           /\ st' = "failed" /\ st # "failed" => \A g \in Homes : home'[g] = "failed"
<1>1. home \in [Homes -> {"idle", "loading", "dialing", "shaking", "ready", "dropped", "failed"}]
  BY DEF ConnectInv, ConnectTypeOK
<1>2. /\ home' = [home EXCEPT ![h] = IF fails THEN "failed" ELSE @]
      /\ st' = IF HomesFailed(h, fails) = Homes THEN "failed" ELSE st
  BY DEF HomeFails, SelectFails
<1>3. home' \in [Homes -> {"idle", "loading", "dialing", "shaking", "ready", "dropped", "failed"}]
  BY <1>1, <1>2
<1>4. ASSUME NEW g \in Homes PROVE home'[g] = IF g = h /\ fails THEN "failed" ELSE home[g]
  BY <1>1, <1>2
<1>5. ASSUME st' = "failed", st # "failed", NEW g \in Homes PROVE home'[g] = "failed"
  <2>1. g \in HomesFailed(h, fails)
    BY <1>2, <1>5
  <2>. QED  BY <1>4, <2>1 DEF HomesFailed
<1>. QED  BY <1>2, <1>3, <1>4, <1>5

(* No connection that was made is forgotten while none is chosen or used. *)
LEMMA MadeKept ==
    ASSUME ConnectInv, UNCHANGED <<chosen, used, phase>>, st' = "connected" => st = "connected",
           \A a \in Addrs : link[a] \in {"open", "closed"} => link'[a] \in {link[a], "closed"}
    PROVE  OnlyOverMade'
<1>1. ASSUME NEW g \in Homes, chosen'[g] # Nothing
      PROVE  HomeOf[chosen'[g]] = g /\ link'[chosen'[g]] \in {"open", "closed"}
  <2>1. PICK a \in Addrs : chosen[g] = a /\ chosen'[g] = a
    BY <1>1 DEF ConnectInv, ConnectTypeOK
  <2>2. HomeOf[a] = g /\ link[a] \in {"open", "closed"}
    BY <1>1, <2>1 DEF ConnectInv, DialInv, OnlyOverMade
  <2>. QED  BY <2>1, <2>2
<1>2. ASSUME NEW a \in Addrs
      PROVE  /\ phase'[a]["client"] # "none" => chosen'[HomeOf[a]] = a
             /\ phase'[a]["server"] # "none" => link'[a] \in {"open", "closed"}
             /\ phase'[a]["server"] = "ended" => link'[a] = "closed"
  BY DEF ConnectInv, DialInv, OnlyOverMade
<1>3. st' = "connected" => used' \in Addrs /\ chosen'[HomeOf[used']] = used'
  BY DEF ConnectInv, DialInv, OnlyOverMade
<1>. QED  BY <1>1, <1>2, <1>3 DEF OnlyOverMade

LEMMA AnyHomeOfKeeps == ASSUME ConnectInv, AnyHomeOf PROVE ConnectInv'
<1>. USE DEF ConnectInv, DialInv
<1>1. ConnectTypeOK'
  BY DEF ConnectTypeOK, AnyHomeOf, shakeVars
<1>2. InTurn'
  BY DEF InTurn, AnyHomeOf, ConnectTypeOK
<1>3. OnlyOverMade'
  BY DEF OnlyOverMade, AnyHomeOf, shakeVars
<1>4. ClosedForCause'
  BY DEF ClosedForCause, LetGo, AnyHomeOf
<1>5. FailedForCause'
  BY DEF FailedForCause, AnyHomeOf
<1>6. UNCHANGED shakeVars
  BY DEF AnyHomeOf
<1>. QED  BY <1>1, <1>2, <1>3, <1>4, <1>5, <1>6, DialStep

LEMMA LoadFailsKeeps == ASSUME ConnectInv, NEW h \in Homes, LoadFails(h) PROVE ConnectInv'
<1>0. /\ st = "asked" /\ home[h] = "loading" /\ HomeFails(h, TRUE)
      /\ UNCHANGED <<link, chosen, used, shakeVars, cut>>
  BY DEF LoadFails
<1>1. /\ home' \in [Homes -> {"idle", "loading", "dialing", "shaking", "ready", "dropped", "failed"}]
      /\ \A g \in Homes : home'[g] = IF g = h THEN "failed" ELSE home[g]
      /\ st' \in {"asked", "failed"}
      /\ st' = "failed" => \A g \in Homes : home'[g] = "failed"
  BY <1>0, HomeFailsEffect
<1>. USE DEF ConnectInv, DialInv
<1>2. ConnectTypeOK'
  BY <1>0, <1>1 DEF ConnectTypeOK, shakeVars
<1>3. InTurn'
  BY <1>0, <1>1 DEF InTurn
<1>4. OnlyOverMade'
  BY <1>0, <1>1 DEF OnlyOverMade, shakeVars
<1>5. ClosedForCause'
  BY <1>0, <1>1 DEF ClosedForCause, LetGo
<1>6. FailedForCause'
  <2>1. \A a \in AddrsOf(h) : link'[a] = "idle"
    BY <1>0 DEF InTurn
  <2>2. ASSUME NEW g \in Homes, home'[g] = "failed" PROVE GaveUp(g)'
    BY <1>0, <1>1, <2>1, <2>2 DEF FailedForCause, GaveUp
  <2>. QED  BY <1>1, <2>2 DEF FailedForCause
<1>. QED  BY <1>0, <1>2, <1>3, <1>4, <1>5, <1>6, DialStep

LEMMA DialKeeps == ASSUME ConnectInv, NEW h \in Homes, Dial(h) PROVE ConnectInv'
<1>. DEFINE usable == AddrsOf(h) \cap Usable
<1>0. /\ st = "asked" /\ home[h] = "loading"
      /\ UNCHANGED <<chosen, used, shakeVars, cut>>
      /\ link' = [a \in Addrs |-> IF a \in usable THEN "dialing"
                                  ELSE IF a \in AddrsOf(h) THEN "failed" ELSE link[a]]
  BY DEF Dial
<1>1. /\ home' \in [Homes -> {"idle", "loading", "dialing", "shaking", "ready", "dropped", "failed"}]
      /\ \A g \in Homes \ {h} : home'[g] = home[g]
      /\ home'[h] = IF usable = {} THEN "failed" ELSE "dialing"
      /\ st' \in {"asked", "failed"}
      /\ st' = "failed" => \A g \in Homes : home'[g] = "failed"
  <2>1. CASE usable = {}
    <3>1. HomeFails(h, TRUE)
      BY <2>1 DEF Dial
    <3>. QED  BY <1>0, <2>1, <3>1, HomeFailsEffect
  <2>2. CASE usable # {}
    BY <1>0, <2>2 DEF Dial, ConnectInv, ConnectTypeOK
  <2>. QED  BY <2>1, <2>2
<1>2. ASSUME NEW a \in Addrs, HomeOf[a] # h PROVE link'[a] = link[a]
  BY <1>0, <1>2 DEF AddrsOf
<1>3. ASSUME NEW a \in Addrs, HomeOf[a] = h
      PROVE  link[a] = "idle" /\ link'[a] \in {"dialing", "failed"} /\ (usable = {} => link'[a] = "failed")
  BY <1>0, <1>3 DEF AddrsOf, ConnectInv, DialInv, InTurn
<1>. HIDE DEF usable
<1>. USE DEF ConnectInv, DialInv
<1>4. link' \in [Addrs -> {"idle", "dialing", "open", "closed", "failed"}]
  <2>1. ASSUME NEW a \in Addrs PROVE link'[a] \in {"idle", "dialing", "open", "closed", "failed"}
    BY <1>2, <1>3 DEF ConnectTypeOK
  <2>. QED  BY <1>0, <2>1
<1>5. ConnectTypeOK'
  BY <1>0, <1>1, <1>4 DEF ConnectTypeOK, shakeVars
<1>6. InTurn'
  <2>1. ASSUME NEW g \in Homes, home'[g] \in {"idle", "loading"}, NEW a \in AddrsOf(g) PROVE link'[a] = "idle"
    BY <1>1, <1>2, <2>1 DEF InTurn, AddrsOf
  <2>2. ASSUME NEW g \in Homes, home'[g] \in {"idle", "loading", "dialing"} PROVE chosen'[g] = Nothing
    BY <1>0, <1>1, <2>2 DEF InTurn
  <2>. QED  BY <1>1, <2>1, <2>2 DEF InTurn
<1>7. OnlyOverMade'
  <2>1. ASSUME NEW a \in Addrs, link[a] # "idle" PROVE link'[a] = link[a]
    BY <1>2, <1>3, <2>1
  <2>. QED  BY <1>0, <1>1, <2>1, MadeKept DEF shakeVars
<1>8. ClosedForCause'
  <2>1. ASSUME NEW a \in Addrs, link'[a] = "closed" PROVE a \in cut' \/ LetGo(a)'
    BY <1>0, <1>2, <1>3, <2>1 DEF ClosedForCause, LetGo
  <2>. QED  BY <2>1 DEF ClosedForCause
<1>9. FailedForCause'
  <2>1. ASSUME NEW g \in Homes, home'[g] = "failed" PROVE GaveUp(g)'
    <3>1. CASE g = h
      BY <1>1, <1>3, <2>1, <3>1 DEF GaveUp, AddrsOf
    <3>2. CASE g # h
      <4>1. ASSUME NEW a \in AddrsOf(g) PROVE link'[a] = link[a]
        BY <1>2, <3>2 DEF AddrsOf
      <4>. QED  BY <1>0, <1>1, <2>1, <3>2, <4>1 DEF GaveUp, FailedForCause
    <3>. QED  BY <3>1, <3>2
  <2>. QED  BY <1>1, <2>1 DEF FailedForCause
<1>. QED  BY <1>0, <1>5, <1>6, <1>7, <1>8, <1>9, DialStep

LEMMA TcpOpenKeeps == ASSUME ConnectInv, NEW a \in Addrs, TcpOpen(a) PROVE ConnectInv'
<1>0. /\ link[a] = "dialing" /\ link' = [link EXCEPT ![a] = "open"]
      /\ UNCHANGED <<st, home, chosen, used, shakeVars, cut>>
  BY DEF TcpOpen
<1>. USE DEF ConnectInv, DialInv
<1>1. link' \in [Addrs -> {"idle", "dialing", "open", "closed", "failed"}]
  BY <1>0 DEF ConnectTypeOK
<1>2. ASSUME NEW b \in Addrs, b # a PROVE link'[b] = link[b]
  BY <1>0, <1>2 DEF ConnectTypeOK
<1>3. link'[a] = "open"
  BY <1>0 DEF ConnectTypeOK
<1>4. ConnectTypeOK'
  BY <1>0, <1>1 DEF ConnectTypeOK, shakeVars
<1>5. InTurn'
  <2>1. ASSUME NEW g \in Homes, home'[g] \in {"idle", "loading"}, NEW b \in AddrsOf(g) PROVE link'[b] = "idle"
    <3>1. b \in Addrs /\ link[b] = "idle"
      BY <1>0, <2>1 DEF InTurn, AddrsOf
    <3>. QED  BY <1>0, <1>2, <3>1
  <2>. QED  BY <1>0, <2>1 DEF InTurn
<1>6. OnlyOverMade'
  <2>1. ASSUME NEW b \in Addrs, link[b] \in {"open", "closed"} PROVE link'[b] \in {link[b], "closed"}
    BY <1>0, <1>2, <2>1
  <2>. QED  BY <1>0, <2>1, MadeKept DEF shakeVars
<1>7. ClosedForCause'
  <2>1. ASSUME NEW b \in Addrs, link'[b] = "closed" PROVE b \in cut' \/ LetGo(b)'
    BY <1>0, <1>2, <1>3, <2>1 DEF ClosedForCause, LetGo
  <2>. QED  BY <2>1 DEF ClosedForCause
<1>8. FailedForCause'
  <2>1. ASSUME NEW g \in Homes, home'[g] = "failed" PROVE GaveUp(g)'
    <3>1. GaveUp(g)
      BY <1>0, <2>1 DEF FailedForCause
    <3>2. ASSUME \A b \in AddrsOf(g) : link[b] \in {"idle", "failed"}, NEW b \in AddrsOf(g)
          PROVE  link'[b] \in {"idle", "failed"}
      BY <1>0, <1>2, <3>2 DEF AddrsOf
    <3>. QED  BY <1>0, <3>1, <3>2 DEF GaveUp
  <2>. QED  BY <1>0, <2>1 DEF FailedForCause
<1>. QED  BY <1>0, <1>4, <1>5, <1>6, <1>7, <1>8, DialStep

LEMMA TcpFailsKeeps == ASSUME ConnectInv, NEW a \in Addrs, TcpFails(a) PROVE ConnectInv'
<1>. DEFINE h == HomeOf[a]
            fails == {b \in AddrsOf(h) : link'[b] = "failed"} = AddrsOf(h)
<1>0. /\ st = "asked" /\ link[a] = "dialing" /\ link' = [link EXCEPT ![a] = "failed"]
      /\ HomeFails(h, fails)
      /\ UNCHANGED <<chosen, used, shakeVars, cut>>
  BY DEF TcpFails, SelectFails
<1>1. h \in Homes /\ a \in AddrsOf(h)
  BY HomeOfType
<1>2. fails => \A b \in AddrsOf(h) : link'[b] = "failed"
  OBVIOUS
<1>3. fails \in BOOLEAN
  OBVIOUS
<1>. HIDE DEF h, fails
<1>4. /\ home' \in [Homes -> {"idle", "loading", "dialing", "shaking", "ready", "dropped", "failed"}]
      /\ \A g \in Homes : home'[g] = IF g = h /\ fails THEN "failed" ELSE home[g]
      /\ st' \in {"asked", "failed"}
      /\ st' = "failed" => \A g \in Homes : home'[g] = "failed"
  BY <1>0, <1>1, <1>3, HomeFailsEffect
<1>. USE DEF ConnectInv, DialInv
<1>5. link' \in [Addrs -> {"idle", "dialing", "open", "closed", "failed"}]
  BY <1>0 DEF ConnectTypeOK
<1>6. ASSUME NEW b \in Addrs, b # a PROVE link'[b] = link[b]
  BY <1>0, <1>6 DEF ConnectTypeOK
<1>7. link'[a] = "failed"
  BY <1>0 DEF ConnectTypeOK
<1>8. ConnectTypeOK'
  BY <1>0, <1>4, <1>5 DEF ConnectTypeOK, shakeVars
<1>9. InTurn'
  <2>1. ASSUME NEW g \in Homes, home'[g] \in {"idle", "loading"}, NEW b \in AddrsOf(g) PROVE link'[b] = "idle"
    <3>1. b \in Addrs /\ link[b] = "idle"
      BY <1>4, <2>1 DEF InTurn, AddrsOf
    <3>. QED  BY <1>0, <1>6, <3>1
  <2>2. ASSUME NEW g \in Homes, home'[g] \in {"idle", "loading", "dialing"} PROVE chosen'[g] = Nothing
    BY <1>0, <1>4, <2>2 DEF InTurn
  <2>. QED  BY <1>4, <2>1, <2>2 DEF InTurn
<1>10. OnlyOverMade'
  <2>1. ASSUME NEW b \in Addrs, link[b] \in {"open", "closed"} PROVE link'[b] \in {link[b], "closed"}
    BY <1>0, <1>6, <2>1
  <2>. QED  BY <1>0, <1>4, <2>1, MadeKept DEF shakeVars
<1>11. ClosedForCause'
  <2>1. ASSUME NEW b \in Addrs, link'[b] = "closed" PROVE b \in cut' \/ LetGo(b)'
    BY <1>0, <1>4, <1>6, <1>7, <2>1 DEF ClosedForCause, LetGo
  <2>. QED  BY <2>1 DEF ClosedForCause
<1>12. FailedForCause'
  <2>1. ASSUME NEW g \in Homes, home'[g] = "failed" PROVE GaveUp(g)'
    <3>1. CASE g = h /\ fails
      BY <1>2, <3>1 DEF GaveUp
    <3>2. CASE ~(g = h /\ fails)
      <4>1. GaveUp(g)
        BY <1>4, <2>1, <3>2 DEF FailedForCause
      <4>2. ASSUME \A b \in AddrsOf(g) : link[b] \in {"idle", "failed"}, NEW b \in AddrsOf(g)
            PROVE  link'[b] \in {"idle", "failed"}
        BY <1>6, <1>7, <4>2 DEF AddrsOf
      <4>. QED  BY <1>0, <4>1, <4>2 DEF GaveUp
    <3>. QED  BY <3>1, <3>2
  <2>. QED  BY <1>4, <2>1 DEF FailedForCause
<1>. QED  BY <1>0, <1>8, <1>9, <1>10, <1>11, <1>12, DialStep

LEMMA LoseConnectionKeeps == ASSUME ConnectInv, NEW a \in Addrs, LoseConnection(a) PROVE ConnectInv'
<1>0. /\ link[a] = "open" /\ link' = [link EXCEPT ![a] = "closed"] /\ cut' = cut \cup {a}
      /\ UNCHANGED <<st, home, chosen, used, shakeVars>>
  BY DEF LoseConnection
<1>. USE DEF ConnectInv, DialInv
<1>1. link' \in [Addrs -> {"idle", "dialing", "open", "closed", "failed"}]
  BY <1>0 DEF ConnectTypeOK
<1>2. ASSUME NEW b \in Addrs, b # a PROVE link'[b] = link[b]
  BY <1>0, <1>2 DEF ConnectTypeOK
<1>3. link'[a] = "closed"
  BY <1>0 DEF ConnectTypeOK
<1>4. ConnectTypeOK'
  BY <1>0, <1>1 DEF ConnectTypeOK, shakeVars
<1>5. InTurn'
  <2>1. ASSUME NEW g \in Homes, home'[g] \in {"idle", "loading"}, NEW b \in AddrsOf(g) PROVE link'[b] = "idle"
    <3>1. b \in Addrs /\ link[b] = "idle"
      BY <1>0, <2>1 DEF InTurn, AddrsOf
    <3>. QED  BY <1>0, <1>2, <3>1
  <2>. QED  BY <1>0, <2>1 DEF InTurn
<1>6. OnlyOverMade'
  <2>1. ASSUME NEW b \in Addrs, link[b] \in {"open", "closed"} PROVE link'[b] \in {link[b], "closed"}
    BY <1>2, <1>3, <2>1
  <2>. QED  BY <1>0, <2>1, MadeKept DEF shakeVars
<1>7. ClosedForCause'
  <2>1. ASSUME NEW b \in Addrs, link'[b] = "closed" PROVE b \in cut' \/ LetGo(b)'
    <3>1. CASE b = a
      BY <1>0, <3>1
    <3>2. CASE b # a
      BY <1>0, <1>2, <2>1, <3>2 DEF ClosedForCause, LetGo
    <3>. QED  BY <3>1, <3>2
  <2>. QED  BY <2>1 DEF ClosedForCause
<1>8. FailedForCause'
  <2>1. ASSUME NEW g \in Homes, home'[g] = "failed" PROVE GaveUp(g)'
    <3>1. GaveUp(g)
      BY <1>0, <2>1 DEF FailedForCause
    <3>2. ASSUME \A b \in AddrsOf(g) : link[b] \in {"idle", "failed"}, NEW b \in AddrsOf(g)
          PROVE  link'[b] \in {"idle", "failed"}
      BY <1>0, <1>2, <3>2 DEF AddrsOf
    <3>. QED  BY <1>0, <3>1, <3>2 DEF GaveUp
  <2>. QED  BY <1>0, <2>1 DEF FailedForCause
<1>. QED  BY <1>0, <1>4, <1>5, <1>6, <1>7, <1>8, DialStep

(***************************************************************************)
(* Dropping a future or a stream closes the connections that were made and *)
(* abandons the attempts under way, and touches no other connection.       *)
(***************************************************************************)
LEMMA DroppedEffect ==
    ASSUME ConnectTypeOK, NEW addrs, link' = Dropped(addrs)
    PROVE  /\ link' \in [Addrs -> {"idle", "dialing", "open", "closed", "failed"}]
           /\ \A a \in Addrs : a \notin addrs => link'[a] = link[a]
           /\ \A a \in Addrs : a \in addrs => link'[a] # "open"
           /\ \A a \in Addrs : link[a] \in {"open", "closed"} => link'[a] \in {link[a], "closed"}
           /\ \A a \in Addrs : link[a] \in {"idle", "failed"} => link'[a] = link[a]
<1>1. ASSUME NEW a \in Addrs, a \notin addrs PROVE link'[a] = link[a]
  BY <1>1 DEF Dropped
<1>2. ASSUME NEW a \in Addrs, a \in addrs
      PROVE  link'[a] = IF link[a] = "open" THEN "closed"
                        ELSE IF link[a] = "dialing" THEN "failed" ELSE link[a]
  <2>1. link'[a] = CASE link[a] = "open" -> "closed"
                     [] link[a] = "dialing" -> "failed"
                     [] OTHER -> link[a]
    BY <1>2 DEF Dropped
  <2>2. CASE link[a] = "open"
    BY <2>1, <2>2
  <2>3. CASE link[a] = "dialing"
    BY <2>1, <2>3
  <2>4. CASE link[a] # "open" /\ link[a] # "dialing"
    BY <2>1, <2>4
  <2>. QED  BY <2>2, <2>3, <2>4
<1>3. ASSUME NEW a \in Addrs
      PROVE  /\ link'[a] \in {"idle", "dialing", "open", "closed", "failed"}
             /\ link[a] \in {"open", "closed"} => link'[a] \in {link[a], "closed"}
             /\ link[a] \in {"idle", "failed"} => link'[a] = link[a]
  <2>1. link[a] \in {"idle", "dialing", "open", "closed", "failed"}
    BY DEF ConnectTypeOK
  <2>2. CASE a \in addrs
    BY <1>2, <2>1, <2>2
  <2>3. CASE a \notin addrs
    BY <1>1, <2>1, <2>3
  <2>. QED  BY <2>2, <2>3
<1>4. ASSUME NEW a \in Addrs, a \in addrs PROVE link'[a] # "open"
  BY <1>2, <1>4
<1>5. link' = [a \in Addrs |-> link'[a]]
  BY DEF Dropped
<1>6. link' \in [Addrs -> {"idle", "dialing", "open", "closed", "failed"}]
  BY <1>3, <1>5
<1>. QED  BY <1>1, <1>3, <1>4, <1>6

(* An end that comes or goes leaves what both have said as it is. *)
LEMMA PhaseChange ==
    ASSUME NEW a \in Addrs, ConnectTypeOK, ShakeInv(a), NEW e \in Ends, NEW new \in {"shaking", "ended"},
           phase' = [phase EXCEPT ![a][e] = new], UNCHANGED <<step, pipe, size, heard, context>>,
           e = "client" => phase[a][e] # "met",
           new = "shaking" => phase[a][e] = "none"
    PROVE  ShakeInv(a)'
<1>1. phase'[a][e] = new /\ \A d \in Ends : d # e => phase'[a][d] = phase[a][d]
  BY DEF ConnectTypeOK
<1>2. "client" \in Ends /\ "server" \in Ends
  BY DEF Ends
<1>3. phase'[a]["client"] = "met" <=> phase[a]["client"] = "met"
  BY <1>1, <1>2
<1>4. ASSUME NEW d \in Ends PROVE Sent(a, d)' = Sent(a, d) /\ Read(a, d)' = Read(a, d) /\ Other(d) \in Ends
  BY <1>3 DEF Sent, Read, Other, Ends
<1>5. ASSUME NEW d \in Ends PROVE phase'[a][d] \in {"none", "shaking"} => phase[a][d] \in {"none", "shaking"}
  BY <1>1
<1>6. ASSUME NEW d \in Ends PROVE Flows(a, d)'
  BY <1>4, <1>5 DEF Flows, ShakeInv
<1>7. ASSUME NEW d \in Ends PROVE Learnt(a, d)'
  BY <1>1 DEF Learnt, ShakeInv
<1>8. Served(a)'
  BY <1>1, <1>2 DEF Served, ShakeInv
<1>. QED  BY <1>6, <1>7, <1>8 DEF ShakeInv

(* A step at one connection leaves what is said of the others as it is. *)
LEMMA OneConnection ==
    ASSUME ConnectInv, NEW a \in Addrs, ConnectTypeOK', DialInv', ShakeInv(a)',
           \A b \in Addrs \ {a} :
              /\ phase'[b] = phase[b] /\ step'[b] = step[b] /\ pipe'[b] = pipe[b]
              /\ size'[b] = size[b] /\ heard'[b] = heard[b] /\ context'[b] = context[b]
    PROVE  ConnectInv'
<1>1. ASSUME NEW b \in Addrs, b # a PROVE ShakeInv(b)'
  <2>1. ShakeInv(b)
    BY DEF ConnectInv
  <2>. QED  BY <1>1, <2>1, ShakeFrame
<1>. QED  BY <1>1 DEF ConnectInv

(* What the change of one end's phase leaves alone *)
LEMMA PhaseType ==
    ASSUME ConnectTypeOK, NEW a \in Addrs, NEW e \in Ends, NEW new \in Phases,
           phase' = [phase EXCEPT ![a][e] = new]
    PROVE  /\ phase' \in [Addrs -> [Ends -> Phases]]
           /\ \A b \in Addrs \ {a} : phase'[b] = phase[b]
           /\ phase'[a][e] = new
           /\ \A d \in Ends \ {e} : phase'[a][d] = phase[a][d]
<1>1. phase \in [Addrs -> [Ends -> Phases]]
  BY DEF ConnectTypeOK
<1>2. phase' \in [Addrs -> [Ends -> Phases]]
  BY <1>1
<1>3. \A b \in Addrs \ {a} : phase'[b] = phase[b]
  BY <1>1
<1>4. phase'[a][e] = new /\ \A d \in Ends \ {e} : phase'[a][d] = phase[a][d]
  BY <1>1
<1>. QED  BY <1>2, <1>3, <1>4

(* Assigning the phase of one end of one connection *)
SetPhase(a, e, new) == phase' = [phase EXCEPT ![a][e] = new]

LEMMA SetPhaseEffect ==
    ASSUME ConnectTypeOK, NEW a \in Addrs, NEW e \in Ends, NEW new \in Phases, SetPhase(a, e, new)
    PROVE  /\ phase' \in [Addrs -> [Ends -> Phases]]
           /\ \A b \in Addrs \ {a} : phase'[b] = phase[b]
           /\ phase'[a][e] = new
           /\ \A d \in Ends \ {e} : phase'[a][d] = phase[a][d]
<1>1. phase' = [phase EXCEPT ![a][e] = new]
  BY DEF SetPhase
<1>. QED  BY <1>1, PhaseType

LEMMA EndsAre == "client" \in Ends /\ "server" \in Ends /\ "client" # "server"
BY DEF Ends

LEMMA IncomingKeeps == ASSUME ConnectInv, NEW a \in Addrs, Incoming(a) PROVE ConnectInv'
<1>0. /\ link[a] \in {"open", "closed"} /\ phase[a]["server"] = "none"
      /\ phase' = [phase EXCEPT ![a]["server"] = "shaking"]
      /\ UNCHANGED <<dialVars, step, pipe, size, heard, context, cut>>
  BY DEF Incoming
<1>1. ConnectTypeOK /\ ShakeInv(a) /\ "shaking" \in Phases
  BY DEF ConnectInv, Phases
<1>2. /\ phase' \in [Addrs -> [Ends -> Phases]]
      /\ \A b \in Addrs \ {a} : phase'[b] = phase[b]
      /\ phase'[a]["server"] = "shaking"
      /\ phase'[a]["client"] = phase[a]["client"]
  <2>1. SetPhase(a, "server", "shaking")
    BY <1>0 DEF SetPhase
  <2>. QED  BY <1>1, <2>1, EndsAre, SetPhaseEffect
<1>3. ConnectTypeOK'
  BY <1>0, <1>1, <1>2 DEF ConnectTypeOK, dialVars
<1>. USE DEF ConnectInv, DialInv
<1>4. InTurn' /\ ClosedForCause' /\ FailedForCause'
  BY <1>0 DEF InTurn, ClosedForCause, LetGo, FailedForCause, GaveUp, dialVars
<1>5. OnlyOverMade'
  <2>1. ASSUME NEW b \in Addrs
        PROVE  /\ phase'[b]["client"] # "none" => chosen'[HomeOf[b]] = b
               /\ phase'[b]["server"] # "none" => link'[b] \in {"open", "closed"}
               /\ phase'[b]["server"] = "ended" => link'[b] = "closed"
    BY <1>0, <1>2 DEF OnlyOverMade, dialVars
  <2>. QED  BY <1>0, <2>1 DEF OnlyOverMade, dialVars
<1>6. ShakeInv(a)'
  BY <1>0, <1>1, EndsAre, PhaseChange
<1>. QED  BY <1>0, <1>2, <1>3, <1>4, <1>5, <1>6, OneConnection

LEMMA ChooseKeeps == ASSUME ConnectInv, NEW a \in Addrs, Choose(a) PROVE ConnectInv'
<1>. DEFINE h == HomeOf[a]
<1>0. /\ st = "asked" /\ home[h] = "dialing" /\ link[a] \in {"open", "closed"}
      /\ chosen' = [chosen EXCEPT ![h] = a]
      /\ home' = [home EXCEPT ![h] = "shaking"]
      /\ link' = Dropped(AddrsOf(h) \ {a})
      /\ phase' = [phase EXCEPT ![a]["client"] = "shaking"]
      /\ UNCHANGED <<st, used, step, pipe, size, heard, context, cut>>
  BY DEF Choose
<1>1. ConnectTypeOK /\ ShakeInv(a) /\ "shaking" \in Phases
  BY DEF ConnectInv, Phases
<1>2. h \in Homes /\ a \in AddrsOf(h) /\ a # Nothing
  BY HomeOfType, ConnectingAssumption
<1>. USE DEF ConnectInv, DialInv
<1>3. chosen[h] = Nothing /\ phase[a]["client"] = "none"
  BY <1>0, <1>2 DEF InTurn, OnlyOverMade
<1>4. /\ phase' \in [Addrs -> [Ends -> Phases]]
      /\ \A b \in Addrs \ {a} : phase'[b] = phase[b]
      /\ phase'[a]["client"] = "shaking"
      /\ phase'[a]["server"] = phase[a]["server"]
  <2>1. SetPhase(a, "client", "shaking")
    BY <1>0 DEF SetPhase
  <2>. QED  BY <1>1, <2>1, EndsAre, SetPhaseEffect
<1>5. /\ link' \in [Addrs -> {"idle", "dialing", "open", "closed", "failed"}]
      /\ link'[a] = link[a]
      /\ \A b \in Addrs : b \notin AddrsOf(h) => link'[b] = link[b]
      /\ \A b \in Addrs : link[b] \in {"open", "closed"} => link'[b] \in {link[b], "closed"}
  <2>. DEFINE others == AddrsOf(h) \ {a}
  <2>1. link' = Dropped(others)
    BY <1>0
  <2>2. a \notin others /\ \A b \in Addrs : b \notin AddrsOf(h) => b \notin others
    OBVIOUS
  <2>. HIDE DEF others
  <2>. QED  BY <1>1, <2>1, <2>2, DroppedEffect
<1>6. /\ chosen' \in [Homes -> Addrs \cup {Nothing}] /\ chosen'[h] = a
      /\ \A g \in Homes \ {h} : chosen'[g] = chosen[g]
      /\ home' \in [Homes -> {"idle", "loading", "dialing", "shaking", "ready", "dropped", "failed"}]
      /\ home'[h] = "shaking"
      /\ \A g \in Homes \ {h} : home'[g] = home[g]
  BY <1>0, <1>2 DEF ConnectTypeOK
<1>7. ASSUME NEW b \in Addrs, HomeOf[b] # h PROVE link'[b] = link[b]
  BY <1>5, <1>7 DEF AddrsOf
<1>. HIDE DEF h
<1>8. ConnectTypeOK'
  BY <1>0, <1>1, <1>4, <1>5, <1>6 DEF ConnectTypeOK
<1>9. InTurn'
  <2>1. ASSUME NEW g \in Homes, home'[g] \in {"idle", "loading"}, NEW b \in AddrsOf(g) PROVE link'[b] = "idle"
    <3>1. g # h /\ b \in Addrs /\ HomeOf[b] = g /\ link[b] = "idle"
      BY <1>6, <2>1 DEF InTurn, AddrsOf
    <3>. QED  BY <1>7, <3>1
  <2>2. ASSUME NEW g \in Homes, home'[g] \in {"idle", "loading", "dialing"} PROVE chosen'[g] = Nothing
    BY <1>6, <2>2 DEF InTurn
  <2>. QED  BY <1>0, <2>1, <2>2 DEF InTurn
<1>10. OnlyOverMade'
  <2>1. ASSUME NEW g \in Homes, chosen'[g] # Nothing
        PROVE  HomeOf[chosen'[g]] = g /\ link'[chosen'[g]] \in {"open", "closed"}
    <3>1. CASE g = h
      BY <1>0, <1>5, <1>6, <3>1 DEF h
    <3>2. CASE g # h
      <4>1. PICK b \in Addrs : chosen[g] = b /\ chosen'[g] = b
        BY <1>1, <1>6, <2>1, <3>2 DEF ConnectTypeOK
      <4>2. HomeOf[b] = g /\ link[b] \in {"open", "closed"}
        BY <2>1, <4>1 DEF OnlyOverMade
      <4>. QED  BY <1>5, <4>1, <4>2
    <3>. QED  BY <3>1, <3>2
  <2>2. ASSUME NEW b \in Addrs PROVE phase'[b]["client"] # "none" => chosen'[HomeOf[b]] = b
    <3>1. CASE b = a
      BY <1>6, <3>1 DEF h
    <3>2. CASE b # a
      <4>1. SUFFICES ASSUME phase[b]["client"] # "none" PROVE chosen'[HomeOf[b]] = b
        BY <1>4, <3>2
      <4>2. chosen[HomeOf[b]] = b /\ HomeOf[b] \in Homes /\ b # Nothing
        BY <4>1, HomeOfType, ConnectingAssumption DEF OnlyOverMade
      <4>. QED  BY <1>3, <1>6, <4>2
    <3>. QED  BY <3>1, <3>2
  <2>3. ASSUME NEW b \in Addrs
        PROVE  /\ phase'[b]["server"] # "none" => link'[b] \in {"open", "closed"}
               /\ phase'[b]["server"] = "ended" => link'[b] = "closed"
    <3>1. phase'[b]["server"] = phase[b]["server"]
      BY <1>4
    <3>. QED  BY <1>5, <3>1 DEF OnlyOverMade
  <2>. QED  BY <1>0, <2>1, <2>2, <2>3 DEF OnlyOverMade
<1>11. ClosedForCause'
  <2>1. ASSUME NEW b \in Addrs, link'[b] = "closed" PROVE b \in cut' \/ LetGo(b)'
    <3>1. CASE HomeOf[b] = h /\ b # a
      BY <1>2, <1>6, <3>1 DEF LetGo
    <3>2. CASE b = a
      <4>1. a \in cut \/ LetGo(a)
        BY <1>5, <2>1, <3>2 DEF ClosedForCause
      <4>. QED  BY <1>0, <1>3, <3>2, <4>1 DEF LetGo, h
    <3>3. CASE HomeOf[b] # h
      <4>1. link[b] = "closed"
        BY <1>7, <2>1, <3>3
      <4>2. b \in cut \/ LetGo(b)
        BY <4>1 DEF ClosedForCause
      <4>3. chosen'[HomeOf[b]] = chosen[HomeOf[b]]
        BY <1>6, <3>3, HomeOfType
      <4>. QED  BY <1>0, <4>2, <4>3 DEF LetGo
    <3>. QED  BY <3>1, <3>2, <3>3
  <2>. QED  BY <2>1 DEF ClosedForCause
<1>12. FailedForCause'
  <2>1. ASSUME NEW g \in Homes, home'[g] = "failed" PROVE GaveUp(g)'
    <3>1. g # h /\ GaveUp(g) /\ chosen'[g] = chosen[g]
      BY <1>6, <2>1 DEF FailedForCause
    <3>2. ASSUME NEW b \in AddrsOf(g) PROVE link'[b] = link[b]
      BY <1>7, <3>1 DEF AddrsOf
    <3>. QED  BY <1>0, <3>1, <3>2 DEF GaveUp
  <2>. QED  BY <1>0, <2>1 DEF FailedForCause
<1>13. ShakeInv(a)'
  BY <1>0, <1>1, <1>3, EndsAre, PhaseChange
<1>. QED  BY <1>0, <1>4, <1>8, <1>9, <1>10, <1>11, <1>12, <1>13, OneConnection

-----------------------------------------------------------------------------
(* What was read is an introduction *)

(* Who is at an end of a connection, and who at the other end *)
LEMMA SelfType ==
    ASSUME NEW a \in Addrs, NEW e \in Ends
    PROVE  /\ Self(a, e) \in Homes \cup {Me} /\ Other(e) \in Ends /\ Other(e) # e /\ Other(Other(e)) = e
           /\ InfoLen[Self(a, e)] \in Nat \ {0}
<1>1. Self(a, e) \in Homes \cup {Me}
  BY ConnectingAssumption DEF Self
<1>2. Other(e) \in Ends /\ Other(e) # e /\ Other(Other(e)) = e
  BY DEF Other, Ends
<1>. QED  BY <1>1, <1>2, ConnectingAssumption

(* An introduction is read back as what was written. *)
LEMMA IntroductionParses ==
    ASSUME NEW p \in Homes \cup {Me}
    PROVE  /\ Introduction(p) \in Seq(Units) /\ Len(Introduction(p)) = InfoLen[p]
           /\ Introduction(p)[1] = InfoUnit(p)
           /\ Parses(Introduction(p))
<1>1. InfoLen[p] \in Nat \ {0}
  BY ConnectingAssumption
<1>. DEFINE n == InfoLen[p]  u == InfoUnit(p)  s == [i \in 1..n |-> u]
<1>2. u \in Units
  BY DEF InfoUnit, Units
<1>3. u.kind = "info" /\ u.of = p
  BY DEF InfoUnit
<1>. HIDE DEF n, u
<1>4. n \in Nat /\ n # 0
  BY <1>1 DEF n
<1>5. s \in Seq(Units) /\ Len(s) = n /\ s[1] = u /\ s # <<>>
  BY <1>2, <1>4
<1>6. Introduction(p) = s
  BY DEF Introduction, n, u
<1>7. Parses(s)
  BY <1>3, <1>5 DEF Parses, n
<1>. QED  BY <1>5, <1>6, <1>7 DEF n, u

(***************************************************************************)
(* An end that has gone through the exchange of handshake.rs has read the  *)
(* other end's introduction, whole and unmixed: deserializing it succeeds. *)
(***************************************************************************)
LEMMA IntroducedParses ==
    ASSUME ConnectInv, NEW a \in Addrs, NEW e \in Ends, Introduced(a, e)
    PROVE  /\ step[a][e] = 5 /\ Parses(heard[a][e])
           /\ heard[a][e] = Introduction(Self(a, Other(e)))
<1>1. step[a][e] \in 1..5 /\ step[a][e] > 4
  BY DEF ConnectInv, ConnectTypeOK, Introduced, Order
<1>2. step[a][e] = 5
  BY <1>1
<1>3. heard[a][e] = Introduction(Self(a, Other(e)))
  BY <1>2 DEF ConnectInv, ShakeInv, Learnt
<1>4. Self(a, Other(e)) \in Homes \cup {Me}
  BY SelfType
<1>. QED  BY <1>2, <1>3, <1>4, IntroductionParses

(* An end gives up only over a connection that is closed already. *)
LEMMA BrokenIsClosed ==
    ASSUME ConnectInv, NEW a \in Addrs, NEW e \in Ends, Broken(a, e)
    PROVE  link[a] # "open" /\ Polled(a, e)
BY IntroducedParses DEF Broken, At, Introduced

LEMMA ServerGivesUpKeeps == ASSUME ConnectInv, NEW a \in Addrs, ServerGivesUp(a) PROVE ConnectInv'
<1>0. /\ phase' = [phase EXCEPT ![a]["server"] = "ended"]
      /\ link' = Dropped({a})
      /\ UNCHANGED <<st, home, chosen, used, step, pipe, size, heard, context, cut>>
  BY DEF ServerGivesUp
<1>1. ConnectTypeOK /\ ShakeInv(a) /\ "ended" \in Phases
  BY DEF ConnectInv, Phases
<1>2. link[a] = "closed"
  <2>1. link[a] # "open" /\ phase[a]["server"] # "none"
    BY BrokenIsClosed, EndsAre DEF ServerGivesUp, Polled
  <2>. QED  BY <2>1 DEF ConnectInv, DialInv, OnlyOverMade
<1>3. ASSUME NEW b \in Addrs PROVE link'[b] = link[b]
  <2>1. CASE b = a
    <3>1. link'[a] \in {link[a], "closed"}
      BY <1>0, <1>1, <1>2, DroppedEffect
    <3>. QED  BY <1>2, <2>1, <3>1
  <2>2. CASE b # a
    <3>1. b \notin {a}
      BY <2>2
    <3>. QED  BY <1>0, <1>1, <3>1, DroppedEffect
  <2>. QED  BY <2>1, <2>2
<1>4. /\ phase' \in [Addrs -> [Ends -> Phases]]
      /\ \A b \in Addrs \ {a} : phase'[b] = phase[b]
      /\ phase'[a]["server"] = "ended"
      /\ phase'[a]["client"] = phase[a]["client"]
  <2>1. SetPhase(a, "server", "ended")
    BY <1>0 DEF SetPhase
  <2>. QED  BY <1>1, <2>1, EndsAre, SetPhaseEffect
<1>5. link' = link
  <2>1. link' \in [Addrs -> {"idle", "dialing", "open", "closed", "failed"}]
    BY <1>0, <1>1, DroppedEffect
  <2>. QED  BY <1>1, <1>3, <2>1 DEF ConnectTypeOK
<1>6. ConnectTypeOK'
  BY <1>0, <1>1, <1>4, <1>5 DEF ConnectTypeOK
<1>. USE DEF ConnectInv, DialInv
<1>7. InTurn' /\ ClosedForCause' /\ FailedForCause'
  BY <1>0, <1>5 DEF InTurn, ClosedForCause, LetGo, FailedForCause, GaveUp
<1>8. OnlyOverMade'
  <2>1. ASSUME NEW b \in Addrs
        PROVE  /\ phase'[b]["client"] # "none" => chosen'[HomeOf[b]] = b
               /\ phase'[b]["server"] # "none" => link'[b] \in {"open", "closed"}
               /\ phase'[b]["server"] = "ended" => link'[b] = "closed"
    BY <1>0, <1>2, <1>4, <1>5 DEF OnlyOverMade
  <2>. QED  BY <1>0, <1>5, <2>1 DEF OnlyOverMade
<1>9. ShakeInv(a)'
  BY <1>0, <1>1, EndsAre, PhaseChange
<1>. QED  BY <1>0, <1>4, <1>6, <1>7, <1>8, <1>9, OneConnection

LEMMA ClientGivesUpKeeps == ASSUME ConnectInv, NEW a \in Addrs, ClientGivesUp(a) PROVE ConnectInv'
<1>. DEFINE h == HomeOf[a]
<1>0. /\ phase' = [phase EXCEPT ![a]["client"] = "ended"]
      /\ link' = Dropped({a}) /\ HomeFails(h, TRUE)
      /\ UNCHANGED <<chosen, used, step, pipe, size, heard, context, cut>>
  BY DEF ClientGivesUp
<1>1. ConnectTypeOK /\ ShakeInv(a) /\ "ended" \in Phases
  BY DEF ConnectInv, Phases
<1>2. link[a] # "open" /\ phase[a]["client"] = "shaking" /\ st = "asked" /\ home[h] = "shaking"
  BY BrokenIsClosed, EndsAre DEF ClientGivesUp, Polled
<1>3. h \in Homes /\ chosen[h] = a /\ a # Nothing
  BY <1>2, HomeOfType, ConnectingAssumption DEF ConnectInv, DialInv, OnlyOverMade
<1>4. link[a] = "closed"
  BY <1>2, <1>3 DEF ConnectInv, DialInv, OnlyOverMade
<1>5. a \in cut
  BY <1>2, <1>3, <1>4 DEF ConnectInv, DialInv, ClosedForCause, LetGo
<1>6. link' = link
  <2>1. ASSUME NEW b \in Addrs PROVE link'[b] = link[b]
    <3>1. CASE b = a
      <4>1. link'[a] \in {link[a], "closed"}
        BY <1>0, <1>1, <1>4, DroppedEffect
      <4>. QED  BY <1>4, <3>1, <4>1
    <3>2. CASE b # a
      <4>1. b \notin {a}
        BY <3>2
      <4>. QED  BY <1>0, <1>1, <4>1, DroppedEffect
    <3>. QED  BY <3>1, <3>2
  <2>2. link' \in [Addrs -> {"idle", "dialing", "open", "closed", "failed"}]
    BY <1>0, <1>1, DroppedEffect
  <2>. QED  BY <1>1, <2>1, <2>2 DEF ConnectTypeOK
<1>7. /\ phase' \in [Addrs -> [Ends -> Phases]]
      /\ \A b \in Addrs \ {a} : phase'[b] = phase[b]
      /\ phase'[a]["client"] = "ended"
      /\ phase'[a]["server"] = phase[a]["server"]
  <2>1. SetPhase(a, "client", "ended")
    BY <1>0 DEF SetPhase
  <2>. QED  BY <1>1, <2>1, EndsAre, SetPhaseEffect
<1>. HIDE DEF h
<1>8. /\ home' \in [Homes -> {"idle", "loading", "dialing", "shaking", "ready", "dropped", "failed"}]
      /\ \A g \in Homes : home'[g] = IF g = h THEN "failed" ELSE home[g]
      /\ st' \in {"asked", "failed"}
      /\ st' = "failed" => \A g \in Homes : home'[g] = "failed"
  BY <1>0, <1>2, <1>3, HomeFailsEffect
<1>9. ConnectTypeOK'
  BY <1>0, <1>1, <1>6, <1>7, <1>8 DEF ConnectTypeOK
<1>. USE DEF ConnectInv, DialInv
<1>10. InTurn'
  BY <1>0, <1>6, <1>8 DEF InTurn
<1>11. OnlyOverMade'
  <2>1. ASSUME NEW b \in Addrs
        PROVE  /\ phase'[b]["client"] # "none" => chosen'[HomeOf[b]] = b
               /\ phase'[b]["server"] # "none" => link'[b] \in {"open", "closed"}
               /\ phase'[b]["server"] = "ended" => link'[b] = "closed"
    BY <1>0, <1>2, <1>6, <1>7 DEF OnlyOverMade
  <2>. QED  BY <1>0, <1>6, <1>8, <2>1 DEF OnlyOverMade
<1>12. ClosedForCause'
  BY <1>0, <1>2, <1>6, <1>8 DEF ClosedForCause, LetGo
<1>13. FailedForCause'
  <2>1. ASSUME NEW g \in Homes, home'[g] = "failed" PROVE GaveUp(g)'
    <3>1. CASE g = h
      BY <1>0, <1>3, <1>5, <3>1 DEF GaveUp
    <3>2. CASE g # h
      BY <1>0, <1>6, <1>8, <2>1, <3>2 DEF GaveUp, FailedForCause
    <3>. QED  BY <3>1, <3>2
  <2>. QED  BY <1>8, <2>1 DEF FailedForCause
<1>14. ShakeInv(a)'
  BY <1>0, <1>1, <1>2, EndsAre, PhaseChange
<1>. QED  BY <1>0, <1>7, <1>9, <1>10, <1>11, <1>12, <1>13, <1>14, OneConnection

-----------------------------------------------------------------------------
(* The handshake *)

(* What an end writes next is appended to what is under way to the other. *)
LEMMA StreamGrows ==
    ASSUME NEW q \in Seq(Units), NEW u \in Seq(Units), NEW p, NEW r \in Nat, NEW n \in Nat,
           IsStream(q, p, r, n), \A j \in 1..Len(u) : u[j] = UnitAt(p, n + j)
    PROVE  q \o u \in Seq(Units) /\ IsStream(q \o u, p, r, n + Len(u))
<1>. DEFINE k == Len(q)  m == Len(u)
<1>1. k \in Nat /\ m \in Nat /\ k = n - r
  BY LenProperties DEF IsStream
<1>2. /\ q \o u \in Seq(Units) /\ Len(q \o u) = k + m
      /\ \A i \in 1..(k + m) : (q \o u)[i] = IF i <= k THEN q[i] ELSE u[i - k]
  BY ConcatProperties
<1>3. ASSUME NEW i \in 1..k PROVE q[i] = UnitAt(p, r + i)
  BY DEF IsStream
<1>4. ASSUME NEW j \in 1..m PROVE u[j] = UnitAt(p, n + j)
  OBVIOUS
<1>. HIDE DEF k, m
<1>5. ASSUME NEW i \in 1..(k + m) PROVE (q \o u)[i] = UnitAt(p, r + i)
  <2>1. CASE i <= k
    <3>1. i \in 1..k
      BY <1>1, <2>1
    <3>. QED  BY <1>2, <1>3, <2>1, <3>1
  <2>2. CASE ~(i <= k)
    <3>1. i - k \in 1..m /\ n + (i - k) = r + i
      BY <1>1, <2>2
    <3>2. (q \o u)[i] = u[i - k]
      BY <1>2, <2>2
    <3>3. u[i - k] = UnitAt(p, n + (i - k))
      BY <1>4, <3>1
    <3>. QED  BY <3>1, <3>2, <3>3
  <2>. QED  BY <2>1, <2>2
<1>6. k + m = (n + m) - r
  BY <1>1
<1>. QED  BY <1>2, <1>5, <1>6 DEF IsStream, m

(* Reading the first k units of a stream leaves the rest of the stream. *)
LEMMA StreamRead ==
    ASSUME NEW q \in Seq(Units), NEW p, NEW r \in Nat, NEW n \in Nat,
           IsStream(q, p, r, n), NEW k \in Nat, k <= Len(q)
    PROVE  /\ SubSeq(q, k + 1, Len(q)) \in Seq(Units)
           /\ IsStream(SubSeq(q, k + 1, Len(q)), p, r + k, n)
           /\ SubSeq(q, 1, k) \in Seq(Units) /\ IsStream(SubSeq(q, 1, k), p, r, r + k)
<1>. DEFINE m == Len(q)  t == SubSeq(q, k + 1, m)  f == SubSeq(q, 1, k)
<1>1. m \in Nat /\ m = n - r
  BY LenProperties DEF IsStream
<1>2. ASSUME NEW i \in 1..m PROVE q[i] = UnitAt(p, r + i) /\ q[i] \in Units
  BY LenProperties DEF IsStream
<1>3. /\ t \in Seq(Units) /\ Len(t) = m - k
      /\ \A i \in 1..(m - k) : t[i] = q[(k + 1) + i - 1]
  <2>1. CASE k = m
    BY <1>1, <2>1
  <2>2. CASE k # m
    BY <1>1, <2>2
  <2>. QED  BY <2>1, <2>2
<1>4. /\ f \in Seq(Units) /\ Len(f) = k
      /\ \A i \in 1..k : f[i] = q[i]
  BY <1>1
<1>. HIDE DEF t, f, m
<1>5. ASSUME NEW i \in 1..(m - k) PROVE t[i] = UnitAt(p, (r + k) + i)
  <2>1. (k + 1) + i - 1 = k + i /\ k + i \in 1..m /\ r + (k + i) = (r + k) + i
    BY <1>1
  <2>. QED  BY <1>2, <1>3, <2>1
<1>6. IsStream(t, p, r + k, n)
  <2>1. m - k = n - (r + k)
    BY <1>1
  <2>. QED  BY <1>3, <1>5, <2>1 DEF IsStream
<1>7. ASSUME NEW i \in 1..k PROVE f[i] = UnitAt(p, r + i)
  <2>1. i \in 1..m
    BY <1>1 DEF m
  <2>. QED  BY <1>2, <1>4, <2>1
<1>8. IsStream(f, p, r, r + k)
  <2>1. k = (r + k) - r
    OBVIOUS
  <2>. QED  BY <1>4, <1>7, <2>1 DEF IsStream
<1>. QED  BY <1>3, <1>4, <1>6, <1>8 DEF t, f, m

(* What one step of the exchange at one end leaves alone *)
LEMMA AdvanceEffect ==
    ASSUME ConnectTypeOK, NEW a \in Addrs, NEW e \in Ends, NEW k \in 1..4, step[a][e] = k, Advance(a, e)
    PROVE  /\ step' \in [Addrs -> [Ends -> 1..5]]
           /\ \A b \in Addrs \ {a} : step'[b] = step[b]
           /\ step'[a][e] = k + 1
           /\ \A d \in Ends \ {e} : step'[a][d] = step[a][d]
<1>1. step \in [Addrs -> [Ends -> 1..5]] /\ step' = [step EXCEPT ![a][e] = step[a][e] + 1]
  BY DEF ConnectTypeOK, Advance
<1>2. k + 1 \in 1..5
  OBVIOUS
<1>3. step' = [step EXCEPT ![a][e] = k + 1]
  BY <1>1
<1>. QED  BY <1>1, <1>2, <1>3

(* What the change of one pipe leaves alone *)
LEMMA PipeEffect ==
    ASSUME ConnectTypeOK, NEW a \in Addrs, NEW e \in Ends, NEW q \in Seq(Units),
           pipe' = [pipe EXCEPT ![a][e] = q]
    PROVE  /\ pipe' \in [Addrs -> [Ends -> Seq(Units)]]
           /\ \A b \in Addrs \ {a} : pipe'[b] = pipe[b]
           /\ pipe'[a][e] = q
           /\ \A d \in Ends \ {e} : pipe'[a][d] = pipe[a][d]
<1>. DEFINE S == Seq(Units)
<1>1. pipe \in [Addrs -> [Ends -> S]] /\ q \in S
  BY DEF ConnectTypeOK
<1>. HIDE DEF S
<1>2. pipe' \in [Addrs -> [Ends -> S]]
  BY <1>1
<1>3. \A b \in Addrs \ {a} : pipe'[b] = pipe[b]
  BY <1>1
<1>4. pipe'[a][e] = q /\ \A d \in Ends \ {e} : pipe'[a][d] = pipe[a][d]
  BY <1>1
<1>. QED  BY <1>2, <1>3, <1>4 DEF S

(* Assigning the pipe to one end of one connection *)
SetPipe(a, e, q) == pipe' = [pipe EXCEPT ![a][e] = q]

LEMMA SetPipeEffect ==
    ASSUME ConnectTypeOK, NEW a \in Addrs, NEW e \in Ends, NEW q \in Seq(Units), SetPipe(a, e, q)
    PROVE  /\ pipe' \in [Addrs -> [Ends -> Seq(Units)]]
           /\ \A b \in Addrs \ {a} : pipe'[b] = pipe[b]
           /\ pipe'[a][e] = q
           /\ \A d \in Ends \ {e} : pipe'[a][d] = pipe[a][d]
<1>1. pipe' = [pipe EXCEPT ![a][e] = q]
  BY DEF SetPipe
<1>. QED  BY <1>1, PipeEffect

LEMMA UnitTypes ==
    ASSUME NEW p \in Homes \cup {Me}
    PROVE  SizeUnit(InfoLen[p]) \in Units /\ InfoUnit(p) \in Units /\ RpcUnit \in Units
<1>1. InfoLen[p] \in Nat
  BY ConnectingAssumption
<1>. QED  BY <1>1 DEF SizeUnit, InfoUnit, RpcUnit, Units

LEMMA CountTypes ==
    ASSUME ConnectTypeOK, NEW a \in Addrs, NEW e \in Ends
    PROVE  Sent(a, e) \in Nat /\ Read(a, e) \in Nat
<1>1. InfoLen[Self(a, e)] \in Nat /\ InfoLen[Self(a, Other(e))] \in Nat
  BY SelfType
<1>2. Sent(a, e) \in Nat
  BY <1>1 DEF Sent
<1>3. Read(a, e) \in Nat
  BY <1>1 DEF Read
<1>. QED  BY <1>2, <1>3

(* An end of a connection that takes a step of the handshake, to or from a pipe *)
LEMMA ShakeStep ==
    ASSUME ConnectInv, NEW a \in Addrs, NEW e \in Ends, NEW k \in 1..4, step[a][e] = k, Advance(a, e),
           UNCHANGED <<dialVars, phase, context, cut>>,
           pipe' \in [Addrs -> [Ends -> Seq(Units)]],
           size' \in [Addrs -> [Ends -> Nat]],
           heard' \in [Addrs -> [Ends -> Seq(Units)]],
           \A b \in Addrs \ {a} : pipe'[b] = pipe[b] /\ size'[b] = size[b] /\ heard'[b] = heard[b],
           ShakeInv(a)'
    PROVE  ConnectInv'
<1>1. ConnectTypeOK /\ DialInv
  BY DEF ConnectInv
<1>2. step' \in [Addrs -> [Ends -> 1..5]] /\ \A b \in Addrs \ {a} : step'[b] = step[b]
  BY <1>1, AdvanceEffect
<1>3. ConnectTypeOK'
  BY <1>1, <1>2 DEF ConnectTypeOK, dialVars
<1>4. DialInv'
  BY <1>1, DialFrame
<1>. QED  BY <1>2, <1>3, <1>4, OneConnection

(* Writing the size or the introduction keeps both pipes' streams. *)
LEMMA WriteKeeps ==
    ASSUME ConnectInv, NEW a \in Addrs, NEW e \in Ends, Polled(a, e),
           NEW k \in {1, 2}, step[a][e] = k, Advance(a, e), NEW u \in Seq(Units), Written(a, e, u),
           UNCHANGED <<dialVars, phase, size, heard, context, cut>>,
           Len(u) = IF k = 1 THEN 1 ELSE InfoLen[Self(a, e)],
           \A j \in 1..Len(u) : u[j] = UnitAt(Self(a, e), (k - 1) + j)
    PROVE  ConnectInv'
<1>. DEFINE d == Other(e)
            p == Self(a, e)
            q == pipe[a][d]
<1>0. ConnectTypeOK /\ ShakeInv(a) /\ phase[a][e] = "shaking"
  BY DEF ConnectInv, Polled
<1>1. d \in Ends /\ d # e /\ Other(d) = e /\ InfoLen[p] \in Nat
  BY SelfType
<1>2. q \in Seq(Units)
  BY <1>0, <1>1 DEF ConnectTypeOK
<1>3. q \o u \in Seq(Units) /\ pipe' = [pipe EXCEPT ![a][d] = q \o u]
  BY <1>2, ConcatProperties DEF Written
<1>4. /\ pipe' \in [Addrs -> [Ends -> Seq(Units)]]
      /\ \A b \in Addrs \ {a} : pipe'[b] = pipe[b]
      /\ pipe'[a][d] = q \o u
      /\ pipe'[a][e] = pipe[a][e]
  <2>. DEFINE r == q \o u
  <2>1. r \in Seq(Units)
    BY <1>3
  <2>2. SetPipe(a, d, r)
    BY <1>3 DEF SetPipe
  <2>3. /\ pipe' \in [Addrs -> [Ends -> Seq(Units)]]
        /\ \A b \in Addrs \ {a} : pipe'[b] = pipe[b]
        /\ pipe'[a][d] = r
        /\ pipe'[a][e] = pipe[a][e]
    <3>. HIDE DEF r, d, q
    <3>. QED  BY <1>0, <1>1, <2>1, <2>2, SetPipeEffect
  <2>. QED  BY <2>3
<1>5. step'[a][e] = k + 1 /\ step'[a][d] = step[a][d] /\ k \in 1..4
  BY <1>0, <1>1, AdvanceEffect
<1>6. phase' = phase /\ size' = size /\ heard' = heard /\ context' = context
  OBVIOUS
<1>7. Sent(a, e) = k - 1 /\ Sent(a, e)' = (k - 1) + Len(u) /\ Read(a, d)' = Read(a, d)
  <2>1. Sent(a, e) = k - 1
    BY <1>0 DEF Sent
  <2>2. Sent(a, e)' = (k - 1) + Len(u)
    <3>1. Sent(a, e)' = IF k + 1 = 1 THEN 0 ELSE IF k + 1 = 2 THEN 1 ELSE 1 + InfoLen[p]
      BY <1>0, <1>5, <1>6 DEF Sent
    <3>2. CASE k = 1
      BY <3>1, <3>2
    <3>3. CASE k = 2
      BY <3>1, <3>3, <1>1
    <3>. QED  BY <3>2, <3>3
  <2>3. Read(a, d)' = Read(a, d)
    BY <1>5 DEF Read
  <2>. QED  BY <2>1, <2>2, <2>3
<1>8. Flows(a, d)'
  <2>1. SUFFICES ASSUME phase[a][d] \in {"none", "shaking"}
                 PROVE  IsStream(q \o u, p, Read(a, d), (k - 1) + Len(u))
    BY <1>1, <1>4, <1>6, <1>7 DEF Flows
  <2>2. IsStream(q, p, Read(a, d), k - 1)
    BY <1>0, <1>1, <1>7, <2>1 DEF ShakeInv, Flows
  <2>3. Read(a, d) \in Nat /\ k - 1 \in Nat
    BY <1>0, <1>1, CountTypes
  <2>. HIDE DEF q, p, d
  <2>4. \A j \in 1..Len(u) : u[j] = UnitAt(p, (k - 1) + j)
    BY DEF p
  <2>. QED  BY <1>2, <2>2, <2>3, <2>4, StreamGrows
<1>9. Flows(a, e)'
  <2>1. Sent(a, d)' = Sent(a, d)
    BY <1>5, <1>6 DEF Sent
  <2>2. Read(a, e)' = Read(a, e)
    BY <1>5 DEF Read
  <2>. QED  BY <1>0, <1>4, <1>6, <2>1, <2>2 DEF ShakeInv, Flows
<1>10. Learnt(a, d)' /\ Learnt(a, e)'
  <2>1. Learnt(a, d)'
    BY <1>0, <1>1, <1>5, <1>6 DEF ShakeInv, Learnt
  <2>2. ~(k + 1 >= 4) /\ k + 1 # 5
    OBVIOUS
  <2>3. Learnt(a, e)'
    BY <1>0, <1>5, <1>6, <2>2 DEF Learnt
  <2>. QED  BY <2>1, <2>3
<1>11. Served(a)'
  <2>1. phase[a]["server"] # "met"
    <3>1. CASE e = "server"
      BY <1>0, <3>1
    <3>2. CASE e = "client"
      BY <1>0, <3>2 DEF ShakeInv, Served
    <3>. QED  BY <3>1, <3>2 DEF Ends
  <2>. QED  BY <1>6, <2>1 DEF Served
<1>12. ShakeInv(a)'
  <2>1. \A c \in Ends : c = d \/ c = e
    BY <1>1 DEF Ends
  <2>. QED  BY <1>8, <1>9, <1>10, <1>11, <2>1 DEF ShakeInv
<1>13. size' \in [Addrs -> [Ends -> Nat]] /\ heard' \in [Addrs -> [Ends -> Seq(Units)]]
  BY <1>0, <1>6 DEF ConnectTypeOK
<1>. QED  BY <1>4, <1>5, <1>6, <1>12, <1>13, ShakeStep

LEMMA WriteSizeKeeps == ASSUME ConnectInv, NEW a \in Addrs, NEW e \in Ends, WriteSize(a, e) PROVE ConnectInv'
<1>. DEFINE p == Self(a, e)
            u == <<SizeUnit(InfoLen[p])>>
<1>1. Polled(a, e) /\ step[a][e] \in 1..5 /\ step[a][e] <= 4 /\ Order[step[a][e]] = "writeSize"
  BY DEF WriteSize, At, Order, ConnectInv, ConnectTypeOK
<1>2. step[a][e] = 1
  BY <1>1 DEF Order
<1>3. SizeUnit(InfoLen[p]) \in Units
  BY SelfType, UnitTypes
<1>4. u \in Seq(Units) /\ Len(u) = 1 /\ \A j \in 1..1 : u[j] = UnitAt(p, (1 - 1) + j)
  BY <1>3 DEF UnitAt
<1>5. Written(a, e, u) /\ Advance(a, e) /\ UNCHANGED <<dialVars, phase, size, heard, context, cut>>
  BY DEF WriteSize
<1>. HIDE DEF u
<1>. QED  BY <1>1, <1>2, <1>4, <1>5, WriteKeeps

LEMMA WriteInfoKeeps == ASSUME ConnectInv, NEW a \in Addrs, NEW e \in Ends, WriteInfo(a, e) PROVE ConnectInv'
<1>. DEFINE p == Self(a, e)
            u == Introduction(p)
<1>1. Polled(a, e) /\ step[a][e] \in 1..5 /\ step[a][e] <= 4 /\ Order[step[a][e]] = "writeInfo"
  BY DEF WriteInfo, At, Order, ConnectInv, ConnectTypeOK
<1>2. step[a][e] = 2
  BY <1>1 DEF Order
<1>3. InfoLen[p] \in Nat /\ u \in Seq(Units) /\ Len(u) = InfoLen[p]
  BY SelfType, IntroductionParses
<1>4. ASSUME NEW j \in 1..Len(u) PROVE u[j] = UnitAt(p, (2 - 1) + j)
  <2>1. j \in 1..InfoLen[p] /\ (2 - 1) + j # 1 /\ (2 - 1) + j <= 1 + InfoLen[p]
    <3>. HIDE DEF u, p
    <3>. QED  BY <1>3
  <2>. QED  BY <2>1 DEF UnitAt, Introduction
<1>5. Written(a, e, u) /\ Advance(a, e) /\ UNCHANGED <<dialVars, phase, size, heard, context, cut>>
  BY DEF WriteInfo
<1>. HIDE DEF u
<1>. QED  BY <1>1, <1>2, <1>3, <1>4, <1>5, WriteKeeps

(* The first n units are taken from a pipe. *)
ReadFrom(a, e, n) ==
    /\ pipe' \in [Addrs -> [Ends -> Seq(Units)]]
    /\ \A b \in Addrs \ {a} : pipe'[b] = pipe[b]
    /\ pipe'[a][Other(e)] = pipe[a][Other(e)]
    /\ IsStream(pipe'[a][e], Self(a, Other(e)), Read(a, e) + n, Sent(a, Other(e)))

LEMMA ReadPipe ==
    ASSUME ConnectInv, NEW a \in Addrs, NEW e \in Ends, phase[a][e] = "shaking",
           NEW n \in Nat, n <= Len(pipe[a][e]),
           pipe' = [pipe EXCEPT ![a][e] = SubSeq(pipe[a][e], n + 1, Len(pipe[a][e]))]
    PROVE  ReadFrom(a, e, n)
<1>. DEFINE d == Other(e)
            q == pipe[a][e]
            t == SubSeq(q, n + 1, Len(q))
<1>0. ConnectTypeOK /\ ShakeInv(a)
  BY DEF ConnectInv
<1>1. d \in Ends /\ d # e
  BY SelfType
<1>2. q \in Seq(Units)
  BY <1>0 DEF ConnectTypeOK
<1>3. IsStream(q, Self(a, d), Read(a, e), Sent(a, d)) /\ Read(a, e) \in Nat /\ Sent(a, d) \in Nat
  BY <1>0, <1>1, CountTypes DEF ShakeInv, Flows
<1>4. pipe' = [pipe EXCEPT ![a][e] = t] /\ n <= Len(q)
  OBVIOUS
<1>5. t \in Seq(Units) /\ IsStream(t, Self(a, d), Read(a, e) + n, Sent(a, d))
  <2>. HIDE DEF q, d
  <2>. QED  BY <1>2, <1>3, <1>4, StreamRead
<1>. HIDE DEF t, q
<1>6. /\ pipe' \in [Addrs -> [Ends -> Seq(Units)]]
      /\ \A b \in Addrs \ {a} : pipe'[b] = pipe[b]
      /\ pipe'[a][e] = t
      /\ \A c \in Ends \ {e} : pipe'[a][c] = pipe[a][c]
  <2>1. SetPipe(a, e, t)
    BY <1>4 DEF SetPipe
  <2>. QED  BY <1>0, <1>5, <2>1, SetPipeEffect
<1>. QED  BY <1>1, <1>5, <1>6 DEF ReadFrom

(* Reading the size or the introduction keeps both pipes' streams. *)
LEMMA ReadKeeps ==
    ASSUME ConnectInv, NEW a \in Addrs, NEW e \in Ends, Polled(a, e),
           NEW k \in {3, 4}, step[a][e] = k, Advance(a, e),
           NEW n \in Nat, n = IF k = 3 THEN 1 ELSE InfoLen[Self(a, Other(e))], ReadFrom(a, e, n),
           UNCHANGED <<dialVars, phase, context, cut>>,
           size' \in [Addrs -> [Ends -> Nat]],
           heard' \in [Addrs -> [Ends -> Seq(Units)]],
           \A b \in Addrs \ {a} : size'[b] = size[b] /\ heard'[b] = heard[b],
           size'[a][Other(e)] = size[a][Other(e)] /\ heard'[a][Other(e)] = heard[a][Other(e)],
           Learnt(a, e)'
    PROVE  ConnectInv'
<1>. DEFINE d == Other(e)
            p == Self(a, d)
<1>0. ConnectTypeOK /\ ShakeInv(a) /\ phase[a][e] = "shaking" /\ phase' = phase /\ context' = context
  BY DEF ConnectInv, Polled
<1>1. d \in Ends /\ d # e /\ Other(d) = e /\ InfoLen[p] \in Nat
  BY SelfType
<1>4. IsStream(pipe'[a][e], p, Read(a, e) + n, Sent(a, d))
  BY DEF ReadFrom
<1>6. /\ pipe' \in [Addrs -> [Ends -> Seq(Units)]]
      /\ \A b \in Addrs \ {a} : pipe'[b] = pipe[b]
      /\ pipe'[a][d] = pipe[a][d]
  BY DEF ReadFrom
<1>7. step'[a][e] = k + 1 /\ step'[a][d] = step[a][d] /\ k \in 1..4
  BY <1>0, <1>1, AdvanceEffect
<1>8. Read(a, e)' = Read(a, e) + n
  <2>1. CASE k = 3
    BY <1>7, <2>1 DEF Read
  <2>2. CASE k = 4
    BY <1>1, <1>7, <2>2 DEF Read
  <2>. QED  BY <2>1, <2>2
<1>9. Sent(a, d)' = Sent(a, d) /\ Read(a, d)' = Read(a, d)
  BY <1>0, <1>7 DEF Sent, Read
<1>10. Sent(a, e)' = Sent(a, e)
  BY <1>0, <1>7 DEF Sent
<1>11. Flows(a, e)'
  BY <1>4, <1>6, <1>8, <1>9 DEF Flows
<1>12. Flows(a, d)'
  BY <1>0, <1>1, <1>6, <1>9, <1>10 DEF ShakeInv, Flows
<1>13. Learnt(a, d)'
  BY <1>0, <1>1, <1>7 DEF ShakeInv, Learnt
<1>14. Served(a)'
  <2>1. CASE e = "server"
    BY <1>0, <2>1 DEF Served
  <2>2. CASE e = "client"
    <3>1. d = "server"
      BY <2>2 DEF Other
    <3>2. step'[a]["client"] >= 3
      BY <1>7, <2>2
    <3>3. pipe'[a]["server"] = pipe[a]["server"]
      BY <1>6, <3>1
    <3>4. Served(a)
      BY <1>0 DEF ShakeInv
    <3>. HIDE DEF d, p
    <3>. QED  BY <1>0, <3>2, <3>3, <3>4 DEF Served
  <2>. QED  BY <2>1, <2>2 DEF Ends
<1>15. ShakeInv(a)'
  <2>1. \A c \in Ends : c = d \/ c = e
    BY <1>1 DEF Ends
  <2>. QED  BY <1>11, <1>12, <1>13, <1>14, <2>1 DEF ShakeInv
<1>. QED  BY <1>6, <1>7, <1>15, ShakeStep

LEMMA ReadSizeKeeps == ASSUME ConnectInv, NEW a \in Addrs, NEW e \in Ends, ReadSize(a, e) PROVE ConnectInv'
<1>. DEFINE d == Other(e)
            p == Self(a, d)
            q == pipe[a][e]
<1>0. ConnectTypeOK /\ ShakeInv(a)
  BY DEF ConnectInv
<1>1. Polled(a, e) /\ step[a][e] \in 1..5 /\ step[a][e] <= 4 /\ Order[step[a][e]] = "readSize"
  BY <1>0 DEF ReadSize, At, Order, ConnectTypeOK
<1>2. step[a][e] = 3
  BY <1>1 DEF Order
<1>3. /\ q # <<>> /\ size' = [size EXCEPT ![a][e] = Head(q).n]
      /\ pipe' = [pipe EXCEPT ![a][e] = Tail(q)]
      /\ Advance(a, e) /\ UNCHANGED <<dialVars, phase, heard, context, cut>>
  BY DEF ReadSize
<1>4. d \in Ends /\ d # e /\ InfoLen[p] \in Nat
  BY SelfType
<1>5. q \in Seq(Units) /\ Len(q) \in Nat /\ 1 <= Len(q)
  <2>1. q \in Seq(Units)
    BY <1>0 DEF ConnectTypeOK
  <2>. QED  BY <1>3, <2>1, EmptySeq, LenProperties
<1>6. Head(q).n = InfoLen[p]
  <2>1. Read(a, e) = 0
    BY <1>2 DEF Read
  <2>2. phase[a][e] = "shaking"
    BY <1>1 DEF Polled
  <2>3. \A i \in 1..Len(q) : q[i] = UnitAt(p, 0 + i)
    BY <1>0, <2>1, <2>2 DEF ShakeInv, Flows, IsStream
  <2>4. q[1] = SizeUnit(InfoLen[p])
    BY <1>5, <2>3 DEF UnitAt
  <2>5. Head(q) = q[1]
    BY <1>3, <1>5
  <2>. QED  BY <2>4, <2>5 DEF SizeUnit
<1>7. Tail(q) = SubSeq(q, 1 + 1, Len(q))
  BY <1>3, <1>5, TailIsSubSeq
<1>8. /\ size' \in [Addrs -> [Ends -> Nat]] /\ size'[a][e] = InfoLen[p] /\ size'[a][d] = size[a][d]
      /\ \A b \in Addrs \ {a} : size'[b] = size[b]
  BY <1>0, <1>3, <1>4, <1>6 DEF ConnectTypeOK
<1>9. step'[a][e] = 3 + 1 /\ phase[a][e] = "shaking" /\ phase' = phase
  BY <1>0, <1>1, <1>2, <1>3, AdvanceEffect DEF Polled
<1>10. Learnt(a, e)'
  BY <1>8, <1>9 DEF Learnt
<1>11. heard' \in [Addrs -> [Ends -> Seq(Units)]] /\ heard' = heard
  BY <1>0, <1>3 DEF ConnectTypeOK
<1>12. pipe' = [pipe EXCEPT ![a][e] = SubSeq(q, 1 + 1, Len(q))]
  BY <1>3, <1>7
<1>13. ReadFrom(a, e, 1)
  BY <1>5, <1>9, <1>12, ReadPipe
<1>. QED  BY <1>1, <1>2, <1>3, <1>8, <1>10, <1>11, <1>13, ReadKeeps

LEMMA ReadInfoKeeps == ASSUME ConnectInv, NEW a \in Addrs, NEW e \in Ends, ReadInfo(a, e) PROVE ConnectInv'
<1>. DEFINE d == Other(e)
            p == Self(a, d)
            q == pipe[a][e]
            n == InfoLen[p]
            f == SubSeq(q, 1, n)
<1>0. ConnectTypeOK /\ ShakeInv(a)
  BY DEF ConnectInv
<1>1. Polled(a, e) /\ step[a][e] \in 1..5 /\ step[a][e] <= 4 /\ Order[step[a][e]] = "readInfo"
  BY <1>0 DEF ReadInfo, At, Order, ConnectTypeOK
<1>2. step[a][e] = 4
  BY <1>1 DEF Order
<1>3. size[a][e] = n
  BY <1>0, <1>2 DEF ShakeInv, Learnt
<1>4. /\ Len(q) >= n /\ heard' = [heard EXCEPT ![a][e] = f]
      /\ pipe' = [pipe EXCEPT ![a][e] = SubSeq(q, n + 1, Len(q))]
      /\ Advance(a, e) /\ UNCHANGED <<dialVars, phase, size, context, cut>>
  BY <1>3 DEF ReadInfo, Taken
<1>5. d \in Ends /\ d # e /\ n \in Nat /\ p \in Homes \cup {Me}
  BY SelfType
<1>6. q \in Seq(Units) /\ Len(q) \in Nat /\ n <= Len(q)
  <2>1. q \in Seq(Units)
    BY <1>0 DEF ConnectTypeOK
  <2>2. Len(q) \in Nat
    BY <2>1, LenProperties
  <2>. HIDE DEF n, q
  <2>. QED  BY <1>4, <1>5, <2>1, <2>2
<1>7. phase[a][e] = "shaking" /\ phase' = phase /\ Read(a, e) = 1 /\ Sent(a, d) \in Nat
  BY <1>0, <1>1, <1>2, <1>4, <1>5, CountTypes DEF Polled, Read
<1>8. f \in Seq(Units) /\ IsStream(f, p, 1, 1 + n)
  <2>1. IsStream(q, p, 1, Sent(a, d))
    BY <1>0, <1>7 DEF ShakeInv, Flows
  <2>. HIDE DEF q, n, p, d
  <2>. QED  BY <1>5, <1>6, <1>7, <2>1, StreamRead
<1>9. f = Introduction(p)
  <2>. HIDE DEF f
  <2>1. Len(f) = n
    <3>1. Len(f) = (1 + n) - 1
      BY <1>8 DEF IsStream
    <3>. HIDE DEF n
    <3>. QED  BY <1>5, <3>1
  <2>2. ASSUME NEW i \in 1..n PROVE f[i] = Introduction(p)[i]
    <3>1. f[i] = UnitAt(p, 1 + i)
      BY <1>8, <2>1 DEF IsStream
    <3>2. 1 + i # 1 /\ 1 + i <= 1 + n
      <4>. HIDE DEF n
      <4>. QED  BY <1>5
    <3>3. UnitAt(p, 1 + i) = InfoUnit(p)
      BY <3>2 DEF UnitAt
    <3>. QED  BY <3>1, <3>3 DEF Introduction
  <2>3. Introduction(p) \in Seq(Units) /\ Len(Introduction(p)) = n
    BY <1>5, IntroductionParses
  <2>. HIDE DEF n
  <2>. QED  BY <1>8, <2>1, <2>2, <2>3, SeqEqual
<1>. HIDE DEF f
<1>10. /\ heard' \in [Addrs -> [Ends -> Seq(Units)]] /\ heard'[a][e] = f /\ heard'[a][d] = heard[a][d]
       /\ \A b \in Addrs \ {a} : heard'[b] = heard[b]
  <2>. DEFINE S == Seq(Units)
  <2>1. heard \in [Addrs -> [Ends -> S]] /\ f \in S
    BY <1>0, <1>8 DEF ConnectTypeOK
  <2>. HIDE DEF S
  <2>2. heard' \in [Addrs -> [Ends -> S]]
    BY <1>4, <2>1
  <2>3. heard'[a][e] = f /\ heard'[a][d] = heard[a][d] /\ \A b \in Addrs \ {a} : heard'[b] = heard[b]
    BY <1>4, <1>5, <2>1
  <2>. QED  BY <2>2, <2>3 DEF S
<1>11. step'[a][e] = 4 + 1
  BY <1>0, <1>2, <1>4, AdvanceEffect
<1>12. size' \in [Addrs -> [Ends -> Nat]] /\ size' = size
  BY <1>0, <1>4 DEF ConnectTypeOK
<1>13. Learnt(a, e)'
  BY <1>3, <1>7, <1>9, <1>10, <1>11, <1>12 DEF Learnt
<1>14. n = IF 4 = 3 THEN 1 ELSE InfoLen[Self(a, Other(e))]
  OBVIOUS
<1>15. n \in Nat /\ n <= Len(pipe[a][e])
  BY <1>5, <1>6
<1>16. pipe' = [pipe EXCEPT ![a][e] = SubSeq(pipe[a][e], n + 1, Len(pipe[a][e]))]
  BY <1>4
<1>17. UNCHANGED <<dialVars, phase, context, cut>> /\ Advance(a, e)
  BY <1>4
<1>18. /\ size'[a][Other(e)] = size[a][Other(e)] /\ heard'[a][Other(e)] = heard[a][Other(e)]
       /\ \A b \in Addrs \ {a} : size'[b] = size[b] /\ heard'[b] = heard[b]
  BY <1>10, <1>12
<1>19. heard' \in [Addrs -> [Ends -> Seq(Units)]] /\ size' \in [Addrs -> [Ends -> Nat]]
  BY <1>10, <1>12
<1>. HIDE DEF n
<1>20. ReadFrom(a, e, n)
  BY <1>7, <1>15, <1>16, ReadPipe
<1>. QED  BY <1>1, <1>2, <1>13, <1>14, <1>15, <1>17, <1>18, <1>19, <1>20, ReadKeeps

LEMMA ServeKeeps == ASSUME ConnectInv, NEW a \in Addrs, Serve(a) PROVE ConnectInv'
<1>. DEFINE q == pipe[a]["server"]
            n == InfoLen[Me]
<1>0. ConnectTypeOK /\ ShakeInv(a) /\ "met" \in Phases /\ "server" \in Ends /\ "client" \in Ends
  BY DEF ConnectInv, Phases, Ends
<1>1. /\ Introduced(a, "server")
      /\ phase' = [phase EXCEPT ![a]["server"] = "met"]
      /\ context' = [context EXCEPT ![a] = PeerContext(heard[a]["server"][1].of)]
      /\ UNCHANGED <<dialVars, step, pipe, size, heard, cut>>
  BY DEF Serve
<1>2. phase[a]["server"] = "shaking" /\ step[a]["server"] = 5
  BY <1>0, <1>1, IntroducedParses DEF Introduced, Polled
<1>3. Self(a, Other("server")) = Me /\ Other("server") = "client" /\ Other("client") = "server"
  BY DEF Self, Other
<1>4. /\ phase' \in [Addrs -> [Ends -> Phases]]
      /\ \A b \in Addrs \ {a} : phase'[b] = phase[b]
      /\ phase'[a]["server"] = "met"
      /\ phase'[a]["client"] = phase[a]["client"]
  <2>1. SetPhase(a, "server", "met") /\ "met" \in Phases
    BY <1>1 DEF SetPhase, Phases
  <2>. QED  BY <1>0, <2>1, EndsAre, SetPhaseEffect
<1>5. context'[a] = PeerContext(Me) /\ DOMAIN context' = Addrs /\ \A b \in Addrs \ {a} : context'[b] = context[b]
  <2>1. heard[a]["server"][1] = InfoUnit(Me)
    BY <1>0, <1>1, <1>3, IntroducedParses, IntroductionParses
  <2>2. context' = [context EXCEPT ![a] = PeerContext(Me)]
    BY <1>1, <2>1 DEF InfoUnit
  <2>. QED  BY <1>0, <2>2 DEF ConnectTypeOK
<1>6. ConnectTypeOK'
  BY <1>0, <1>1, <1>4, <1>5 DEF ConnectTypeOK, dialVars
<1>7. DialInv'
  <2>. USE DEF ConnectInv, DialInv
  <2>1. InTurn' /\ ClosedForCause' /\ FailedForCause'
    BY <1>1 DEF InTurn, ClosedForCause, LetGo, FailedForCause, GaveUp, dialVars
  <2>2. ASSUME NEW b \in Addrs
        PROVE  /\ phase'[b]["client"] # "none" => chosen'[HomeOf[b]] = b
               /\ phase'[b]["server"] # "none" => link'[b] \in {"open", "closed"}
               /\ phase'[b]["server"] = "ended" => link'[b] = "closed"
    BY <1>1, <1>2, <1>4 DEF OnlyOverMade, dialVars
  <2>3. OnlyOverMade'
    BY <1>1, <2>2 DEF OnlyOverMade, dialVars
  <2>. QED  BY <2>1, <2>3
<1>8. n \in Nat \ {0} /\ q \in Seq(Units) /\ Len(q) \in Nat
  <2>1. q \in Seq(Units)
    BY <1>0 DEF ConnectTypeOK
  <2>. QED  BY <2>1, ConnectingAssumption, LenProperties
<1>9. IsStream(q, Me, 1 + n, Sent(a, "client"))
  <2>1. Read(a, "server") = 1 + n
    BY <1>2, <1>3 DEF Read
  <2>. QED  BY <1>0, <1>2, <1>3, <2>1 DEF ShakeInv, Flows
<1>10. step[a]["client"] >= 3
  <2>1. Sent(a, "client") >= 2
    <3>1. Sent(a, "client") \in Nat /\ Len(q) = Sent(a, "client") - (1 + n)
      BY <1>0, <1>9, CountTypes DEF IsStream
    <3>. HIDE DEF q, n
    <3>. QED  BY <1>8, <3>1
  <2>2. step[a]["client"] \in 1..5 /\ (phase[a]["client"] = "met" => step[a]["client"] = 5)
    BY <1>0 DEF ConnectTypeOK, ShakeInv, Learnt
  <2>3. CASE phase[a]["client"] = "met"
    BY <2>2, <2>3
  <2>4. CASE phase[a]["client"] # "met"
    <3>1. step[a]["client"] # 1 /\ step[a]["client"] # 2
      BY <2>1, <2>4 DEF Sent
    <3>. QED  BY <2>2, <3>1
  <2>. QED  BY <2>3, <2>4
<1>11. ASSUME NEW i \in 1..Len(q) PROVE q[i] = RpcUnit
  <2>1. q[i] = UnitAt(Me, (1 + n) + i)
    BY <1>9 DEF IsStream
  <2>2. (1 + n) + i # 1 /\ ~((1 + n) + i <= 1 + n)
    <3>. HIDE DEF n, q
    <3>. QED  BY <1>8
  <2>. QED  BY <2>1, <2>2 DEF UnitAt
<1>12. Served(a)'
  BY <1>1, <1>5, <1>10, <1>11 DEF Served
<1>13. ASSUME NEW d \in Ends PROVE Flows(a, d)' /\ Learnt(a, d)'
  <2>1. CASE d = "server"
    <3>1. Flows(a, d)'
      BY <1>4, <2>1 DEF Flows
    <3>2. Learnt(a, d)'
      BY <1>0, <1>1, <1>2, <2>1 DEF Learnt, ShakeInv
    <3>. QED  BY <3>1, <3>2
  <2>2. CASE d = "client"
    <3>1. Sent(a, "server")' = Sent(a, "server") /\ Read(a, "client")' = Read(a, "client")
      BY <1>1 DEF Sent, Read
    <3>2. Flows(a, d)'
      BY <1>0, <1>1, <1>3, <1>4, <2>2, <3>1 DEF Flows, ShakeInv
    <3>3. Learnt(a, d)'
      BY <1>0, <1>1, <1>4, <2>2 DEF Learnt, ShakeInv
    <3>. QED  BY <3>2, <3>3
  <2>. QED  BY <2>1, <2>2 DEF Ends
<1>14. ShakeInv(a)'
  BY <1>12, <1>13 DEF ShakeInv
<1>. QED  BY <1>1, <1>4, <1>5, <1>6, <1>7, <1>14, OneConnection

LEMMA ServeRpcKeeps == ASSUME ConnectInv, NEW a \in Addrs, ServeRpc(a) PROVE ConnectInv'
<1>. DEFINE q == pipe[a]["server"]
<1>0. ConnectTypeOK /\ DialInv /\ ShakeInv(a) /\ "server" \in Ends /\ "client" \in Ends
  BY DEF ConnectInv, Ends
<1>1. /\ phase[a]["server"] = "met" /\ q # <<>>
      /\ pipe' = [pipe EXCEPT ![a]["server"] = Tail(q)]
      /\ UNCHANGED <<dialVars, phase, step, size, heard, context, cut>>
  BY DEF ServeRpc
<1>2. q \in Seq(Units)
  BY <1>0 DEF ConnectTypeOK
<1>3. /\ Tail(q) \in Seq(Units) /\ Len(q) \in Nat /\ Len(Tail(q)) = Len(q) - 1
      /\ \A i \in 1..Len(Tail(q)) : Tail(q)[i] = q[i + 1]
  BY <1>1, <1>2, HeadTailProperties, LenProperties
<1>4. /\ pipe' \in [Addrs -> [Ends -> Seq(Units)]]
      /\ \A b \in Addrs \ {a} : pipe'[b] = pipe[b]
      /\ pipe'[a]["server"] = Tail(q)
      /\ pipe'[a]["client"] = pipe[a]["client"]
  <2>. DEFINE r == Tail(q)
  <2>1. r \in Seq(Units)
    BY <1>3
  <2>2. SetPipe(a, "server", r)
    BY <1>1 DEF SetPipe
  <2>3. /\ pipe' \in [Addrs -> [Ends -> Seq(Units)]]
        /\ \A b \in Addrs \ {a} : pipe'[b] = pipe[b]
        /\ pipe'[a]["server"] = r
        /\ pipe'[a]["client"] = pipe[a]["client"]
    <3>. HIDE DEF r
    <3>. QED  BY <1>0, EndsAre, <2>1, <2>2, SetPipeEffect
  <2>. QED  BY <2>3
<1>5. ConnectTypeOK' /\ DialInv'
  BY <1>0, <1>1, <1>4, DialFrame DEF ConnectTypeOK, dialVars
<1>6. ASSUME NEW i \in 1..Len(Tail(q)) PROVE Tail(q)[i] = RpcUnit
  <2>1. i + 1 \in 1..Len(q)
    <3>. HIDE DEF q
    <3>. QED  BY <1>3
  <2>2. q[i + 1] = RpcUnit
    BY <1>0, <1>1, <2>1 DEF ShakeInv, Served
  <2>. QED  BY <1>3, <2>2
<1>7. Served(a)'
  BY <1>0, <1>1, <1>4, <1>6 DEF ShakeInv, Served
<1>8. ASSUME NEW d \in Ends PROVE Flows(a, d)' /\ Learnt(a, d)'
  <2>1. Learnt(a, d)'
    BY <1>0, <1>1 DEF Learnt, ShakeInv
  <2>2. CASE d = "server"
    BY <1>1, <2>1, <2>2 DEF Flows
  <2>3. CASE d = "client"
    BY <1>0, <1>1, <1>4, <2>1, <2>3 DEF Flows, ShakeInv, Sent, Read
  <2>. QED  BY <2>2, <2>3 DEF Ends
<1>9. ShakeInv(a)'
  BY <1>7, <1>8 DEF ShakeInv
<1>. QED  BY <1>1, <1>4, <1>5, <1>9, OneConnection

LEMMA ClientMetKeeps == ASSUME ConnectInv, NEW a \in Addrs, ClientMet(a) PROVE ConnectInv'
<1>. DEFINE h == HomeOf[a]
            q == pipe[a]["server"]
            u == <<RpcUnit>>
            n == InfoLen[Me]
<1>0. ConnectTypeOK /\ ShakeInv(a) /\ "met" \in Phases /\ "server" \in Ends /\ "client" \in Ends
  BY DEF ConnectInv, Phases, Ends
<1>1. /\ Introduced(a, "client")
      /\ phase' = [phase EXCEPT ![a]["client"] = "met"]
      /\ Written(a, "client", u)
      /\ st' = "connected" /\ used' = a
      /\ home' = [g \in Homes |-> IF g = h THEN "ready"
                                  ELSE IF home[g] = "failed" THEN "failed" ELSE "dropped"]
      /\ link' = Dropped(Addrs \ {a})
      /\ UNCHANGED <<chosen, step, size, heard, context, cut>>
  BY DEF ClientMet
<1>2. /\ phase[a]["client"] = "shaking" /\ step[a]["client"] = 5
      /\ st = "asked" /\ home[h] = "shaking"
  BY <1>0, <1>1, IntroducedParses DEF Introduced, Polled
<1>3. Self(a, "client") = Me /\ Other("server") = "client" /\ Other("client") = "server"
  BY DEF Self, Other
<1>4. /\ phase' \in [Addrs -> [Ends -> Phases]]
      /\ \A b \in Addrs \ {a} : phase'[b] = phase[b]
      /\ phase'[a]["client"] = "met"
      /\ phase'[a]["server"] = phase[a]["server"]
  <2>1. SetPhase(a, "client", "met") /\ "met" \in Phases
    BY <1>1 DEF SetPhase, Phases
  <2>. QED  BY <1>0, <2>1, EndsAre, SetPhaseEffect
<1>5. h \in Homes /\ chosen[h] = a /\ a # Nothing
  BY <1>2, HomeOfType, ConnectingAssumption DEF ConnectInv, DialInv, OnlyOverMade
<1>6. /\ link' \in [Addrs -> {"idle", "dialing", "open", "closed", "failed"}]
      /\ link'[a] = link[a]
      /\ \A b \in Addrs : link[b] \in {"open", "closed"} => link'[b] \in {link[b], "closed"}
      /\ \A b \in Addrs : link[b] \in {"idle", "failed"} => link'[b] = link[b]
  <2>. DEFINE others == Addrs \ {a}
  <2>1. link' = Dropped(others) /\ a \notin others
    BY <1>1
  <2>. HIDE DEF others
  <2>. QED  BY <1>0, <2>1, DroppedEffect
<1>7. q \in Seq(Units) /\ u \in Seq(Units) /\ Len(u) = 1 /\ u[1] = RpcUnit
  <2>1. q \in Seq(Units)
    BY <1>0 DEF ConnectTypeOK
  <2>2. RpcUnit \in Units
    BY UnitTypes
  <2>. QED  BY <2>1, <2>2
<1>8. q \o u \in Seq(Units) /\ pipe' = [pipe EXCEPT ![a]["server"] = q \o u]
  <2>1. pipe' = [pipe EXCEPT ![a]["server"] = q \o u]
    BY <1>1, <1>3 DEF Written
  <2>. QED  BY <1>7, <2>1, ConcatProperties
<1>. HIDE DEF u
<1>9. /\ pipe' \in [Addrs -> [Ends -> Seq(Units)]]
      /\ \A b \in Addrs \ {a} : pipe'[b] = pipe[b]
      /\ pipe'[a]["server"] = q \o u
      /\ pipe'[a]["client"] = pipe[a]["client"]
  <2>. DEFINE r == q \o u
  <2>1. r \in Seq(Units)
    BY <1>8
  <2>2. SetPipe(a, "server", r)
    BY <1>8 DEF SetPipe
  <2>3. /\ pipe' \in [Addrs -> [Ends -> Seq(Units)]]
        /\ \A b \in Addrs \ {a} : pipe'[b] = pipe[b]
        /\ pipe'[a]["server"] = r
        /\ pipe'[a]["client"] = pipe[a]["client"]
    <3>. HIDE DEF r
    <3>. QED  BY <1>0, EndsAre, <2>1, <2>2, SetPipeEffect
  <2>. QED  BY <2>3
<1>10. /\ home' \in [Homes -> {"idle", "loading", "dialing", "shaking", "ready", "dropped", "failed"}]
       /\ \A g \in Homes : home'[g] \in {"ready", "dropped", "failed"}
       /\ \A g \in Homes : home'[g] = "failed" => home[g] = "failed"
  BY <1>1
<1>11. ConnectTypeOK'
  BY <1>0, <1>1, <1>4, <1>6, <1>9, <1>10 DEF ConnectTypeOK
<1>12. DialInv'
  <2>. USE DEF ConnectInv, DialInv
  <2>1. InTurn'
    BY <1>1, <1>10 DEF InTurn
  <2>2. ASSUME NEW g \in Homes, chosen'[g] # Nothing
        PROVE  HomeOf[chosen'[g]] = g /\ link'[chosen'[g]] \in {"open", "closed"}
    <3>1. PICK b \in Addrs : chosen[g] = b /\ chosen'[g] = b
      BY <1>0, <1>1, <2>2 DEF ConnectTypeOK
    <3>2. HomeOf[b] = g /\ link[b] \in {"open", "closed"}
      BY <1>1, <2>2, <3>1 DEF OnlyOverMade
    <3>. QED  BY <1>6, <3>1, <3>2
  <2>3. ASSUME NEW b \in Addrs
        PROVE  /\ phase'[b]["client"] # "none" => chosen'[HomeOf[b]] = b
               /\ phase'[b]["server"] # "none" => link'[b] \in {"open", "closed"}
               /\ phase'[b]["server"] = "ended" => link'[b] = "closed"
    <3>1. phase'[b]["server"] = phase[b]["server"] /\ (phase'[b]["client"] # "none" => phase[b]["client"] # "none")
      BY <1>2, <1>4
    <3>2. link[b] \in {"open", "closed"} => link'[b] \in {link[b], "closed"}
      BY <1>6
    <3>. QED  BY <1>1, <3>1, <3>2 DEF OnlyOverMade
  <2>4. OnlyOverMade'
    BY <1>1, <1>5, <2>2, <2>3 DEF OnlyOverMade
  <2>5. ClosedForCause'
    <3>1. ASSUME NEW b \in Addrs, link'[b] = "closed" PROVE b \in cut' \/ LetGo(b)'
      <4>1. CASE b # a
        BY <1>1, <4>1 DEF LetGo
      <4>2. CASE b = a
        <5>1. a \in cut \/ LetGo(a)
          BY <1>6, <3>1, <4>2 DEF ClosedForCause
        <5>. QED  BY <1>1, <1>2, <1>5, <4>2, <5>1 DEF LetGo
      <4>. QED  BY <4>1, <4>2
    <3>. QED  BY <3>1 DEF ClosedForCause
  <2>6. FailedForCause'
    <3>1. ASSUME NEW g \in Homes, home'[g] = "failed" PROVE GaveUp(g)'
      <4>1. GaveUp(g)
        BY <1>10, <3>1 DEF FailedForCause
      <4>2. ASSUME \A b \in AddrsOf(g) : link[b] \in {"idle", "failed"}, NEW b \in AddrsOf(g)
            PROVE  link'[b] \in {"idle", "failed"}
        BY <1>6, <4>2 DEF AddrsOf
      <4>. QED  BY <1>1, <4>1, <4>2 DEF GaveUp
    <3>. QED  BY <1>1, <3>1 DEF FailedForCause
  <2>. QED  BY <2>1, <2>4, <2>5, <2>6
<1>13. n \in Nat /\ n # 0
  BY ConnectingAssumption
<1>14. Sent(a, "client") = 1 + n /\ Sent(a, "client")' = 2 + n /\ Read(a, "server")' = Read(a, "server")
  BY <1>1, <1>2, <1>3, <1>4 DEF Sent, Read
<1>15. Flows(a, "server")'
  <2>1. SUFFICES ASSUME phase[a]["server"] \in {"none", "shaking"}
                 PROVE  IsStream(q \o u, Me, Read(a, "server"), 2 + n)
    BY <1>3, <1>4, <1>9, <1>14 DEF Flows
  <2>2. IsStream(q, Me, Read(a, "server"), 1 + n)
    BY <1>0, <1>3, <1>14, <2>1 DEF ShakeInv, Flows
  <2>3. Read(a, "server") \in Nat /\ 1 + n \in Nat /\ (1 + n) + Len(u) = 2 + n
    BY <1>0, <1>7, <1>13, CountTypes
  <2>4. \A j \in 1..Len(u) : u[j] = UnitAt(Me, (1 + n) + j)
    <3>1. ASSUME NEW j \in 1..Len(u) PROVE u[j] = UnitAt(Me, (1 + n) + j)
      <4>1. j = 1
        BY <1>7
      <4>2. (1 + n) + 1 # 1 /\ ~((1 + n) + 1 <= 1 + n)
        BY <1>13
      <4>. QED  BY <1>7, <4>1, <4>2 DEF UnitAt
    <3>. QED  BY <3>1
  <2>. HIDE DEF q, n
  <2>5. IsStream(q \o u, Me, Read(a, "server"), (1 + n) + Len(u))
    BY <1>7, <2>2, <2>3, <2>4, StreamGrows
  <2>. QED  BY <2>3, <2>5
<1>16. Served(a)'
  <2>1. SUFFICES ASSUME phase[a]["server"] = "met", NEW i \in 1..Len(q \o u) PROVE (q \o u)[i] = RpcUnit
    <3>1. step'[a]["client"] >= 3
      BY <1>1, <1>2
    <3>2. phase[a]["server"] = "met" => context'[a] = PeerContext(Me)
      BY <1>0, <1>1 DEF ShakeInv, Served
    <3>. QED  BY <1>4, <1>9, <3>1, <3>2 DEF Served
  <2>2. \A j \in 1..Len(q) : q[j] = RpcUnit
    BY <1>0, <2>1 DEF ShakeInv, Served
  <2>. HIDE DEF q
  <2>3. Len(q) \in Nat /\ Len(q \o u) = Len(q) + 1
    <3>1. Len(q \o u) = Len(q) + Len(u)
      BY <1>7, ConcatProperties
    <3>. QED  BY <1>7, <3>1, LenProperties
  <2>4. \A j \in 1..(Len(q) + Len(u)) : (q \o u)[j] = IF j <= Len(q) THEN q[j] ELSE u[j - Len(q)]
    BY <1>7, ConcatProperties
  <2>5. CASE i <= Len(q)
    BY <1>7, <2>2, <2>3, <2>4, <2>5
  <2>6. CASE ~(i <= Len(q))
    <3>1. i - Len(q) = 1 /\ i \in 1..(Len(q) + Len(u))
      BY <1>7, <2>1, <2>3, <2>6
    <3>. QED  BY <1>7, <2>4, <2>6, <3>1
  <2>. QED  BY <2>5, <2>6
<1>17. Learnt(a, "client")' /\ Learnt(a, "server")' /\ Flows(a, "client")'
  <2>1. Learnt(a, "client")'
    BY <1>0, <1>1, <1>2 DEF Learnt, ShakeInv
  <2>2. Learnt(a, "server")'
    BY <1>0, <1>1, <1>4 DEF Learnt, ShakeInv
  <2>3. Flows(a, "client")'
    BY <1>4 DEF Flows
  <2>. QED  BY <2>1, <2>2, <2>3
<1>18. ShakeInv(a)'
  BY <1>15, <1>16, <1>17 DEF ShakeInv, Ends
<1>. QED  BY <1>1, <1>4, <1>9, <1>11, <1>12, <1>18, OneConnection

-----------------------------------------------------------------------------

(* Nothing is dialled and nothing is said at the start. *)
LEMMA ConnectInvInit == ConnectInit => ConnectInv
<1>. SUFFICES ASSUME ConnectInit PROVE ConnectInv
  OBVIOUS
<1>1. ASSUME NEW a \in Addrs, NEW e \in Ends
      PROVE  /\ phase[a][e] = "none" /\ step[a][e] = 1 /\ pipe[a][e] = <<>>
             /\ link[a] = "idle"
  BY DEF ConnectInit, Both
<1>2. ConnectTypeOK
  BY DEF ConnectInit, ConnectTypeOK, Both, Phases
<1>3. InTurn /\ ClosedForCause /\ FailedForCause
  BY DEF ConnectInit, InTurn, ClosedForCause, FailedForCause, AddrsOf
<1>4. OnlyOverMade
  BY <1>1, EndsAre DEF ConnectInit, OnlyOverMade
<1>5. ASSUME NEW a \in Addrs PROVE ShakeInv(a)
  <2>1. Served(a)
    BY <1>1, EndsAre DEF Served
  <2>2. ASSUME NEW e \in Ends PROVE Flows(a, e) /\ Learnt(a, e)
    <3>1. Learnt(a, e)
      BY <1>1 DEF Learnt
    <3>2. Other(e) \in Ends
      BY SelfType
    <3>3. Sent(a, Other(e)) = 0 /\ Read(a, e) = 0
      BY <1>1, <3>2 DEF Sent, Read
    <3>4. IsStream(<<>>, Self(a, Other(e)), 0, 0)
      BY DEF IsStream
    <3>. QED  BY <1>1, <3>1, <3>3, <3>4 DEF Flows
  <2>. QED  BY <2>1, <2>2 DEF ShakeInv
<1>. QED  BY <1>2, <1>3, <1>4, <1>5 DEF ConnectInv, DialInv

(***************************************************************************)
(* Every step of the connector, of the network and of the homes' servers   *)
(* keeps the invariant.                                                    *)
(***************************************************************************)
LEMMA ConnectInvStep == ConnectInv /\ [ConnectNext]_connectVars => ConnectInv'
<1>. SUFFICES ASSUME ConnectInv, [ConnectNext]_connectVars PROVE ConnectInv'
  OBVIOUS
<1>1. ASSUME NEW h \in Homes, LoadFails(h) \/ Dial(h) PROVE ConnectInv'
  BY <1>1, LoadFailsKeeps, DialKeeps
<1>2. ASSUME NEW a \in Addrs, TcpOpen(a) \/ TcpFails(a) \/ LoseConnection(a) PROVE ConnectInv'
  BY <1>2, TcpOpenKeeps, TcpFailsKeeps, LoseConnectionKeeps
<1>3. ASSUME NEW a \in Addrs, NEW e \in Ends, Shake(a, e) PROVE ConnectInv'
  BY <1>3, WriteSizeKeeps, WriteInfoKeeps, ReadSizeKeeps, ReadInfoKeeps DEF Shake
<1>4. ASSUME NEW a \in Addrs, Client(a) PROVE ConnectInv'
  BY <1>3, <1>4, EndsAre, ChooseKeeps, ClientMetKeeps, ClientGivesUpKeeps DEF Client
<1>5. ASSUME NEW a \in Addrs, Server(a) PROVE ConnectInv'
  BY <1>3, <1>5, EndsAre, IncomingKeeps, ServeKeeps, ServeRpcKeeps, ServerGivesUpKeeps DEF Server
<1>6. ASSUME UNCHANGED connectVars PROVE ConnectInv'
  <2>1. UNCHANGED <<dialVars, phase, cut>> /\ UNCHANGED shakeVars
    BY <1>6 DEF connectVars, shakeVars
  <2>2. ConnectTypeOK'
    BY <2>1 DEF ConnectInv, ConnectTypeOK, dialVars, shakeVars
  <2>3. DialInv'
    BY <2>1, DialFrame DEF ConnectInv
  <2>. QED  BY <2>1, <2>2, <2>3, DialStep
<1>. QED  BY <1>1, <1>2, <1>4, <1>5, <1>6, AnyHomeOfKeeps DEF ConnectNext

(***************************************************************************)
(* The invariant of connecting (the client's any_home_of2 and connect_home2, *)
(* SimpleTcpHomeConnector::connect, the exchange of handshake.rs and the   *)
(* home's HomeConnectionServer): connections are closed and attempts given up only *)
(* for a cause, the two ends talk only over connections that were made, and *)
(* what is under way to an end is exactly what the other wrote and it did  *)
(* not read, so that each learns the other's own introduction, whatever    *)
(* number of homes, addresses and lengths of introductions there is.       *)
(***************************************************************************)
THEOREM ConnectInvCorrect == ConnectSpec => []ConnectInv
BY ConnectInvInit, ConnectInvStep, PTL DEF ConnectSpec

(***************************************************************************)
(* The home's server of the connection in use has not ended, unless the    *)
(* network lost the connection, and serves the client under its own name.  *)
(***************************************************************************)
LEMMA ServedInv == ConnectInv => UsedIsServed
<1>. SUFFICES ASSUME ConnectInv PROVE UsedIsServed
  OBVIOUS
<1>1. ASSUME st = "connected", phase[used]["server"] = "ended" PROVE used \in cut
  <2>1. used \in Addrs /\ chosen[HomeOf[used]] = used /\ link[used] = "closed"
    BY <1>1 DEF ConnectInv, DialInv, OnlyOverMade
  <2>2. used \in cut \/ LetGo(used)
    BY <2>1 DEF ConnectInv, DialInv, ClosedForCause
  <2>. QED  BY <2>1, <2>2 DEF LetGo
<1>2. ASSUME NEW a \in Addrs, phase[a]["server"] = "met"
      PROVE  /\ context[a] = PeerContext(Me)
             /\ \A i \in 1..Len(pipe[a]["server"]) : pipe[a]["server"][i] = RpcUnit
  BY <1>2 DEF ConnectInv, ShakeInv, Served
<1>. QED  BY <1>1, <1>2 DEF UsedIsServed

(***************************************************************************)
(* The connection any_home_of2 hands to the client is one that the home's  *)
(* server goes on serving, with the client's profile in the peer context   *)
(* its handshake made, unless the network loses it.                        *)
(***************************************************************************)
THEOREM UsedIsServedCorrect == ConnectSpec => []UsedIsServed
BY ConnectInvCorrect, ServedInv, PTL

(* Every failed home gave up for a cause. *)
LEMMA GaveUpInv == ConnectInv => GivesUpLast
BY DEF ConnectInv, DialInv, FailedForCause, GaveUp, GivesUpLast

(***************************************************************************)
(* any_home_of2 fails only after each home failed: none of its addresses was *)
(* reached, or the network lost the connection to it.                      *)
(***************************************************************************)
THEOREM GivesUpLastCorrect == ConnectSpec => []GivesUpLast
BY ConnectInvCorrect, GaveUpInv, PTL
=============================================================================
