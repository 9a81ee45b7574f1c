------------------------------ MODULE Relations ------------------------------
(***************************************************************************)
(* Relations of profiles: how a half proof is made, completed and checked  *)
(* (home-protocol/src/lib.rs and crypto.rs), and what the messages that    *)
(* carry proofs do to them (mercury_capnp/mod.rs).                         *)
(*                                                                         *)
(* Profile ids are ordered byte strings; here they are natural numbers.    *)
(* A public key is named by the profile that owns it, and a signature by   *)
(* its key and the data signed: signing is deterministic and only the      *)
(* signed data verifies (Ed25519, external).                               *)
(***************************************************************************)
EXTENDS Naturals

Key(p) == [key |-> p]

ProfileIdOf(key) == key.key

(* What a signer of a relation signs: the direction is part of it. *)
SignablePart(type, signer, peer) == [type |-> type, signer |-> signer, peer |-> peer]

Sign(signer, part) == [by |-> Key(signer), data |-> part]

ValidSignature(key, part, sig) == sig.by = key /\ sig.data = part

(* RelationHalfProof::new *)
HalfProof(type, peer, signer) ==
    [type |-> type, signer |-> signer, peer |-> peer,
     sig |-> Sign(signer, SignablePart(type, signer, peer))]

(* validate_half_proof *)
ValidHalfProof(half, key) ==
    ValidSignature(key, SignablePart(half.type, half.signer, half.peer), half.sig)

-----------------------------------------------------------------------------
(***************************************************************************)
(* RelationProof::new: the smaller id comes first, whoever asked first.    *)
(***************************************************************************)
Proof(type, a, aSig, b, bSig) ==
    [type |-> type, a |-> a, aSig |-> aSig, b |-> b, bSig |-> bSig]

RelationProof_AskerFirst(type, a, aSig, b, bSig) == Proof(type, a, aSig, b, bSig)

RelationProof_IdsOnly(type, a, aSig, b, bSig) ==
    IF a < b THEN Proof(type, a, aSig, b, bSig) ELSE Proof(type, b, aSig, a, bSig)

RelationProof(type, a, aSig, b, bSig) ==
    IF a < b THEN Proof(type, a, aSig, b, bSig) ELSE Proof(type, b, bSig, a, aSig)

(* The half proof is for this signer to complete. *)
MaySign(half, signer) == half.peer = signer

SignRemainingHalf(half, signer) ==
    RelationProof(half.type, half.signer, half.sig,
                  signer, Sign(signer, SignablePart(half.type, signer, half.signer)))

(* peer_id and peer_signature are errors for a profile that is no party. *)
IsParty(proof, me) == me \in {proof.a, proof.b}

PeerId(proof, me) == IF proof.a = me THEN proof.b ELSE proof.a

AccessibleBy(proof, app) == proof.type = app

(* validate_relation_proof, for the two ids in either order *)
ValidRelationProof(proof, id1, key1, id2, key2) ==
    LET partA == SignablePart(proof.type, proof.a, proof.b)
        partB == SignablePart(proof.type, proof.b, proof.a)
    IN  /\ IsParty(proof, id1)
        /\ PeerId(proof, id1) = id2
        /\ IF PeerId(proof, id1) = proof.b
           THEN ValidSignature(key1, partA, proof.aSig) /\ ValidSignature(key2, partB, proof.bSig)
           ELSE ValidSignature(key1, partB, proof.bSig) /\ ValidSignature(key2, partA, proof.aSig)

-----------------------------------------------------------------------------
(* FillFrom and TryFrom: written to a message and read from it again *)

HalfProofSent(half) ==
    [type |-> half.type, signer |-> half.signer, peer |-> half.peer, sig |-> half.sig]

ProofSent(proof) ==
    [type |-> proof.type, a |-> proof.a, aSig |-> proof.aSig,
     b |-> proof.b, bSig |-> proof.bSig]

RequestEvent(half) == [kind |-> "request", half |-> half]
ResponseEvent(proof) == [kind |-> "response", proof |-> proof]

EventSent(event) ==
    IF event.kind = "request" THEN RequestEvent(HalfProofSent(event.half))
                              ELSE ResponseEvent(ProofSent(event.proof))
=============================================================================
