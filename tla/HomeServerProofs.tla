--------------------------- MODULE HomeServerProofs ---------------------------
(***************************************************************************)
(* Proofs about the profile stores of a home node, for all sets of         *)
(* profiles, contents and request slots and all sets of faults, and about  *)
(* its registry, for any number of sessions, concurrent requests and       *)
(* events; and about the web of blobs of the storage crate, for any blobs, *)
(* hash spaces, addresses and concurrent resolutions.                      *)
(***************************************************************************)
EXTENDS HomeServer, HashWeb, SequenceTheorems, WellFoundedInduction, TLAPS

-----------------------------------------------------------------------------
(* The stores: HostedProfiles *)

(***************************************************************************)
(* A slot is idle or holds a chain at one of its links; the two are told   *)
(* apart by the link.                                                      *)
(***************************************************************************)
LEMMA SlotShape ==
    ASSUME StoreTypeOK, NEW r \in Requests
    PROVE  /\ request[r] = Idle <=> request[r].op \notin Links
           /\ request[r] = Idle <=> request[r].profile \notin Profiles
           /\ request[r] # Idle => /\ request[r] \in [op : Links, profile : Profiles, content : Contents]
                                   /\ request[r].op \in Links
                                   /\ request[r].profile \in Profiles
                                   /\ request[r].content \in Contents
           /\ request[r] = Idle => request[r].profile = None /\ request[r].op = None
  BY StoreAssumption DEF StoreTypeOK, Idle

LEMMA BeginType ==
    ASSUME StoreTypeOK, NEW r \in Requests, NEW op \in Links, NEW p \in Profiles,
           NEW c \in Contents, Begin(r, op, p, c), UNCHANGED <<db, dht, apart>>
    PROVE  StoreTypeOK'
  BY DEF StoreTypeOK, Begin

LEMMA SetDhtType ==
    ASSUME StoreTypeOK, NEW r \in Requests, NEW from \in Links, NEW to \in Links,
           SetDht(r, from, to)
    PROVE  StoreTypeOK'
<1>1. request[r].profile \in Profiles /\ request[r].content \in Contents
  BY SlotShape DEF SetDht
<1>2. request[r] \in [op : Links, profile : Profiles, content : Contents]
  BY SlotShape DEF SetDht
<1>3. UNCHANGED <<db, apart>>
  BY DEF SetDht
<1>4. CASE /\ dht' = [dht EXCEPT ![request[r].profile] = request[r].content]
           /\ MoveTo(r, to)
  <2>1. dht' \in [Profiles -> Contents \cup {None}]
    BY <1>1, <1>4 DEF StoreTypeOK
  <2>2. [request[r] EXCEPT !.op = to] \in [op : Links, profile : Profiles, content : Contents]
    BY <1>2
  <2>3. request' \in [Requests -> [op : Links, profile : Profiles, content : Contents] \cup {Idle}]
    BY <2>2, <1>4 DEF StoreTypeOK, MoveTo
  <2> QED BY <2>1, <2>3, <1>3 DEF StoreTypeOK
<1>5. CASE End(r) /\ UNCHANGED dht
  BY <1>3, <1>5 DEF StoreTypeOK, End
<1> QED BY <1>4, <1>5 DEF SetDht

LEMMA SetDbType ==
    ASSUME StoreTypeOK, NEW r \in Requests, NEW from \in Links, SetDb(r, from)
    PROVE  StoreTypeOK'
<1>1. request[r].profile \in Profiles /\ request[r].content \in Contents
  BY SlotShape DEF SetDb
<1>2. db' \in [Profiles -> Contents \cup {None, Corrupt}]
  BY <1>1 DEF StoreTypeOK, SetDb
<1>3. apart' \in SUBSET Profiles
  BY <1>1 DEF StoreTypeOK, SetDb
<1>4. UNCHANGED dht /\ End(r)
  BY DEF SetDb
<1> QED BY <1>2, <1>3, <1>4 DEF StoreTypeOK, End

LEMMA UnregisterType ==
    ASSUME StoreTypeOK, NEW p \in Profiles, Unregister(p)
    PROVE  StoreTypeOK'
  BY DEF StoreTypeOK, Unregister, UnregisterOutcome

LEMMA RestartType ==
    ASSUME StoreTypeOK, Restart
    PROVE  StoreTypeOK'
  BY DEF StoreTypeOK, Restart

LEMMA ChainStepType ==
    ASSUME StoreTypeOK, ChainStep
    PROVE  StoreTypeOK'
  BY SetDhtType, SetDbType DEF ChainStep, RegisterDht, RegisterDb, UpdateDht, UpdateDb, Links

(***************************************************************************)
(* Every value the home writes to its stores and request slots is of its   *)
(* kind: no chain is left half-cleared, the DHT never holds a torn record. *)
(***************************************************************************)
THEOREM StoreTypeCorrect == StoreSpec => []StoreTypeOK
<1>1. StoreInit => StoreTypeOK
  BY DEF StoreInit, StoreTypeOK
<1>2. StoreTypeOK /\ [StoreNext]_storeVars => StoreTypeOK'
  <2> SUFFICES ASSUME StoreTypeOK, [StoreNext]_storeVars PROVE StoreTypeOK'
    OBVIOUS
  <2>1. ASSUME NEW r \in Requests, NEW p \in Profiles, NEW c \in Contents, Register(r, p, c)
        PROVE  StoreTypeOK'
    BY <2>1, BeginType DEF Register, Links
  <2>2. ASSUME NEW r \in Requests, NEW p \in Profiles, NEW c \in Contents, Update(r, p, c)
        PROVE  StoreTypeOK'
    BY <2>2, BeginType DEF Update, Links
  <2>3. CASE UNCHANGED storeVars
    BY <2>3 DEF storeVars, StoreTypeOK
  <2> QED BY <2>1, <2>2, <2>3, UnregisterType, ChainStepType, RestartType DEF StoreNext
<1> QED BY <1>1, <1>2, PTL DEF StoreSpec

-----------------------------------------------------------------------------
(***************************************************************************)
(* StoreInv is preserved.  Under Serialized a profile has at most one      *)
(* chain, so a link of another chain cannot touch its records.             *)
(***************************************************************************)
LEMMA BeginInv ==
    ASSUME StoreInv, Serialized, NEW r \in Requests, NEW op \in Links \ DbLinks,
           NEW p \in Profiles, NEW c \in Contents,
           Begin(r, op, p, c), UNCHANGED <<db, dht, apart>>,
           op = "update_dht" => Hosted(p),
           op = "register_dht" => GetErr(p)
    PROVE  StoreInv'
<1> USE DEF StoreInv
<1>1. StoreTypeOK'
  BY BeginType
<1>2. /\ request[r] = Idle /\ ~InFlight(p)
      /\ request' = [request EXCEPT ![r] = [op |-> op, profile |-> p, content |-> c]]
  BY DEF Begin
<1>3. /\ request'[r].op = op /\ request'[r].profile = p /\ request'[r].content = c
      /\ \A q \in Requests : q # r => request'[q] = request[q]
      /\ \A q \in Requests : request[q].profile # p
      /\ request[r].profile = None /\ None \notin Profiles /\ p # None
  BY <1>2, StoreAssumption DEF StoreTypeOK, InFlight, Idle
<1>4. OneChainPerProfile'
  BY <1>3 DEF OneChainPerProfile
<1>5. p \in apart \/ db[p] = dht[p]
  BY <1>2 DEF StoresAgree
<1>6. ChainsAgree'
  BY <1>3, <1>5 DEF ChainsAgree
<1>7. \A x \in Profiles : InFlight(x) => InFlight(x)'
  BY <1>3 DEF InFlight
<1>8. StoresAgree'
  BY <1>7 DEF StoresAgree
<1>9. UpdatesHosted'
  BY <1>3, StoreAssumption DEF UpdatesHosted, Hosted, DbLinks
<1>10. "get" \notin Faults => RegistersUnhosted'
  BY <1>3 DEF RegistersUnhosted, Hosted, GetErr, DbLinks
<1> QED BY <1>1, <1>4, <1>6, <1>8, <1>9, <1>10

LEMMA SetDhtInv ==
    ASSUME StoreInv, Serialized, NEW r \in Requests,
           \/ SetDht(r, "register_dht", "register_db")
           \/ SetDht(r, "update_dht", "update_db")
    PROVE  StoreInv'
<1> USE DEF StoreInv
<1> DEFINE p == request[r].profile
<1>0. PICK from \in Links \ DbLinks, to \in DbLinks :
         /\ SetDht(r, from, to)
         /\ from = "register_dht" <=> to = "register_db"
  BY DEF Links, DbLinks
<1>1. StoreTypeOK'
  BY <1>0, SetDhtType DEF Links, DbLinks
<1>2. /\ request[r] # Idle /\ p \in Profiles /\ request[r].content \in Contents
      /\ request[r].op = from
      /\ request[r] \in [op : Links, profile : Profiles, content : Contents]
  BY <1>0, SlotShape DEF SetDht
<1>3. \A q \in Requests : q # r => request'[q] = request[q] /\ request[q].profile # p
  BY <1>0, <1>2 DEF SetDht, MoveTo, End, StoreTypeOK, OneChainPerProfile
<1>4. UNCHANGED <<db, apart>>
  BY <1>0 DEF SetDht
<1>5. CASE /\ dht' = [dht EXCEPT ![p] = request[r].content]
           /\ MoveTo(r, to)
  <2>1. request'[r] = [request[r] EXCEPT !.op = to]
    BY <1>5 DEF MoveTo, StoreTypeOK
  <2>2. request'[r].op = to /\ request'[r].profile = p /\ request'[r].content = request[r].content
    BY <1>2, <2>1
  <2>3. request'[r] # Idle
    BY <2>2, <1>2, StoreAssumption DEF Idle
  <2>4. dht'[p] = request[r].content /\ \A x \in Profiles : x # p => dht'[x] = dht[x]
    BY <1>2, <1>5 DEF StoreTypeOK
  <2>5. OneChainPerProfile'
    BY <1>3, <2>2, <2>3 DEF OneChainPerProfile
  <2>6. ChainsAgree'
    <3> SUFFICES ASSUME NEW q \in Requests
                 PROVE  /\ request'[q].op \in DbLinks => dht'[request'[q].profile] = request'[q].content
                        /\ request'[q].op \in Links \ DbLinks =>
                              request'[q].profile \in apart' \/ db'[request'[q].profile] = dht'[request'[q].profile]
      BY DEF ChainsAgree
    <3>1. CASE q = r
      BY <3>1, <2>2, <2>4
    <3>2. CASE q # r
      <4>1. request'[q] = request[q] /\ request[q].profile # p
        BY <3>2, <1>3
      <4>2. request[q].op \in Links => request[q].profile \in Profiles
        BY SlotShape
      <4> QED BY <4>1, <4>2, <2>4, <1>4 DEF ChainsAgree, Links, DbLinks
    <3> QED BY <3>1, <3>2
  <2>7. StoresAgree'
    <3> SUFFICES ASSUME NEW x \in Profiles, ~InFlight(x)'
                 PROVE  x \in apart' \/ db'[x] = dht'[x]
      BY DEF StoresAgree
    <3>1. x # p /\ ~InFlight(x)
      BY <2>2, <1>3 DEF InFlight
    <3> QED BY <3>1, <2>4, <1>4 DEF StoresAgree
  <2>8. UpdatesHosted'
    BY <1>0, <1>2, <1>3, <1>4, <2>2 DEF UpdatesHosted, Links, DbLinks
  <2>9. "get" \notin Faults => RegistersUnhosted'
    BY <1>0, <1>2, <1>3, <1>4, <2>2 DEF RegistersUnhosted, Hosted, Links, DbLinks
  <2> QED BY <1>1, <2>5, <2>6, <2>7, <2>8, <2>9
<1>6. CASE End(r) /\ UNCHANGED dht
  <2>1. request'[r] = Idle /\ request'[r].profile = None /\ request'[r].op = None
    BY <1>6 DEF End, StoreTypeOK, Idle
  <2>2. None \notin Links /\ None \notin Profiles
    BY StoreAssumption
  <2>3. \A q \in Requests : request[q].profile = None => request[q] = Idle
    BY SlotShape, <2>2
  <2>4. OneChainPerProfile'
    BY <1>3, <2>1, <2>3 DEF OneChainPerProfile
  <2>5. ChainsAgree'
    BY <1>3, <1>4, <1>6, <2>1, <2>2 DEF ChainsAgree, DbLinks, Links
  <2>6. p \in apart \/ db[p] = dht[p]
    BY <1>2 DEF ChainsAgree
  <2>7. StoresAgree'
    <3> SUFFICES ASSUME NEW x \in Profiles, ~InFlight(x)'
                 PROVE  x \in apart' \/ db'[x] = dht'[x]
      BY DEF StoresAgree
    <3>1. CASE x = p
      BY <3>1, <2>6, <1>4, <1>6
    <3>2. CASE x # p
      <4>1. ~InFlight(x)
        BY <3>2, <1>3 DEF InFlight
      <4> QED BY <4>1, <1>4, <1>6 DEF StoresAgree
    <3> QED BY <3>1, <3>2
  <2>8. UpdatesHosted'
    BY <1>3, <1>4, <2>1, <2>2 DEF UpdatesHosted, Links
  <2>9. "get" \notin Faults => RegistersUnhosted'
    BY <1>3, <1>4, <2>1, <2>2 DEF RegistersUnhosted, Hosted, Links
  <2> QED BY <1>1, <2>4, <2>5, <2>7, <2>8, <2>9
<1> QED BY <1>0, <1>5, <1>6 DEF SetDht

LEMMA SetDbInv ==
    ASSUME StoreInv, Serialized, NEW r \in Requests, NEW from \in DbLinks, SetDb(r, from)
    PROVE  StoreInv'
<1> USE DEF StoreInv
<1> DEFINE p == request[r].profile
<1>1. StoreTypeOK'
  BY SetDbType DEF Links, DbLinks
<1>2. request[r] # Idle /\ p \in Profiles /\ request[r].op = from
  BY SlotShape DEF SetDb, Links, DbLinks
<1>3. \A q \in Requests : q # r => request'[q] = request[q] /\ request[q].profile # p
  BY <1>2 DEF SetDb, End, StoreTypeOK, OneChainPerProfile
<1>4. request'[r] = Idle /\ request'[r].profile = None /\ request'[r].op = None
  BY DEF SetDb, End, StoreTypeOK, Idle
<1>5. None \notin Links /\ None \notin Profiles
  BY StoreAssumption
<1>6. \A x \in Profiles : x # p => db'[x] = db[x] /\ (x \in apart' <=> x \in apart)
  BY <1>2 DEF SetDb, StoreTypeOK
<1>7. UNCHANGED dht
  BY DEF SetDb
<1>8. p \in apart' \/ db'[p] = dht'[p]
  <2>1. dht[p] = request[r].content
    BY <1>2 DEF ChainsAgree
  <2> QED BY <2>1, <1>2, <1>7 DEF SetDb, StoreTypeOK
<1>9. \A q \in Requests : request[q].op \in Links => request[q].profile \in Profiles
  BY SlotShape
<1>10. \A q \in Requests : request[q].profile = None => request[q] = Idle
  BY SlotShape, <1>5
<1>11. OneChainPerProfile'
  BY <1>3, <1>4, <1>10 DEF OneChainPerProfile
<1>12. ChainsAgree'
  <2> SUFFICES ASSUME NEW q \in Requests, q # r
               PROVE  /\ request'[q].op \in DbLinks => dht'[request'[q].profile] = request'[q].content
                      /\ request'[q].op \in Links \ DbLinks =>
                            request'[q].profile \in apart' \/ db'[request'[q].profile] = dht'[request'[q].profile]
    BY <1>4, <1>5 DEF ChainsAgree, Links, DbLinks
  <2>1. request'[q] = request[q] /\ request[q].profile # p
    BY <1>3
  <2>2. request[q].op \in DbLinks => request[q].op \in Links
    BY DEF Links, DbLinks
  <2> QED BY <2>1, <2>2, <1>6, <1>7, <1>9 DEF ChainsAgree
<1>13. StoresAgree'
  <2> SUFFICES ASSUME NEW x \in Profiles, ~InFlight(x)'
               PROVE  x \in apart' \/ db'[x] = dht'[x]
    BY DEF StoresAgree
  <2>1. CASE x = p
    BY <2>1, <1>8
  <2>2. CASE x # p
    <3>1. ~InFlight(x)
      BY <2>2, <1>3 DEF InFlight
    <3> QED BY <3>1, <2>2, <1>6, <1>7 DEF StoresAgree
  <2> QED BY <2>1, <2>2
<1>14. UpdatesHosted'
  BY <1>3, <1>4, <1>5, <1>6, <1>9 DEF UpdatesHosted, Links
<1>15. "get" \notin Faults => RegistersUnhosted'
  BY <1>3, <1>4, <1>5, <1>6, <1>9 DEF RegistersUnhosted, Hosted, Links
<1> QED BY <1>1, <1>11, <1>12, <1>13, <1>14, <1>15

LEMMA UnregisterInv ==
    ASSUME StoreInv, Serialized, NEW p \in Profiles, Unregister(p)
    PROVE  StoreInv'
<1> USE DEF StoreInv
<1>1. StoreTypeOK'
  BY UnregisterType
<1>2. UNCHANGED request /\ \A q \in Requests : request[q].profile # p
  BY DEF Unregister, InFlight
<1>3. /\ \A x \in Profiles : x # p => /\ db'[x] = db[x]
                                      /\ dht'[x] = dht[x]
                                      /\ x \in apart' <=> x \in apart
      /\ p \in apart' \/ db'[p] = dht'[p]
  BY DEF Unregister, UnregisterOutcome, StoreTypeOK
<1>4. \A q \in Requests : request[q].op \in Links => request[q].profile \in Profiles
  BY SlotShape
<1>5. OneChainPerProfile'
  BY <1>2 DEF OneChainPerProfile
<1>6. ChainsAgree'
  BY <1>2, <1>3, <1>4 DEF ChainsAgree, Links, DbLinks
<1>7. StoresAgree'
  BY <1>2, <1>3 DEF StoresAgree, InFlight
<1>8. UpdatesHosted'
  BY <1>2, <1>3, <1>4 DEF UpdatesHosted, Links
<1>9. "get" \notin Faults => RegistersUnhosted'
  BY <1>2, <1>3, <1>4 DEF RegistersUnhosted, Hosted, Links
<1> QED BY <1>1, <1>5, <1>6, <1>7, <1>8, <1>9

LEMMA RestartInv ==
    ASSUME StoreInv, Restart
    PROVE  StoreInv'
<1>1. StoreTypeOK'
  BY RestartType DEF StoreInv
<1>2. \A q \in Requests : request'[q] = Idle /\ request'[q].op = None
  BY DEF Restart, Idle
<1>3. None \notin Links
  BY StoreAssumption
<1>4. OneChainPerProfile' /\ ChainsAgree' /\ UpdatesHosted' /\ RegistersUnhosted'
  BY <1>2, <1>3 DEF OneChainPerProfile, ChainsAgree, UpdatesHosted, RegistersUnhosted, Links, DbLinks
<1>5. StoresAgree'
  BY DEF Restart, StoresAgree
<1> QED BY <1>1, <1>4, <1>5 DEF StoreInv

LEMMA StoreInvStep == StoreInv /\ [StoreNext]_storeVars => StoreInv'
<1> SUFFICES ASSUME StoreInv, [StoreNext]_storeVars PROVE StoreInv'
  OBVIOUS
<1>1. CASE ~Serialized
  <2>1. StoreTypeOK'
    <3>1. CASE UNCHANGED storeVars
      BY <3>1 DEF StoreInv, StoreTypeOK, storeVars
    <3>2. CASE StoreNext
      BY <3>2, BeginType, UnregisterType, ChainStepType, RestartType
         DEF StoreInv, StoreNext, Register, Update, Links
    <3> QED BY <3>1, <3>2
  <2> QED BY <1>1, <2>1 DEF StoreInv
<1>2. CASE Serialized
  <2> USE <1>2
  <2>1. ASSUME NEW r \in Requests, NEW p \in Profiles, NEW c \in Contents, Register(r, p, c)
        PROVE  StoreInv'
    <3>1. "register_dht" \in Links \ DbLinks
      BY DEF Links, DbLinks
    <3> QED BY <2>1, <3>1, BeginInv DEF Register
  <2>2. ASSUME NEW r \in Requests, NEW p \in Profiles, NEW c \in Contents, Update(r, p, c)
        PROVE  StoreInv'
    <3>1. "update_dht" \in Links \ DbLinks
      BY DEF Links, DbLinks
    <3> QED BY <2>2, <3>1, BeginInv DEF Update, GetOk
  <2>3. CASE ChainStep
    BY <2>3, SetDhtInv, SetDbInv
       DEF ChainStep, RegisterDht, RegisterDb, UpdateDht, UpdateDb, DbLinks
  <2>4. CASE UNCHANGED storeVars
    BY <2>4 DEF StoreInv, StoreTypeOK, storeVars, OneChainPerProfile, ChainsAgree, StoresAgree,
       UpdatesHosted, RegistersUnhosted, InFlight, Hosted
  <2> QED BY <2>1, <2>2, <2>3, <2>4, UnregisterInv, RestartInv DEF StoreNext
<1> QED BY <1>1, <1>2

LEMMA StoreInvInit == StoreInit => StoreInv
<1> SUFFICES ASSUME StoreInit PROVE StoreInv
  OBVIOUS
<1>1. \A r \in Requests : request[r] = Idle /\ request[r].op = None
  BY DEF StoreInit, Idle
<1>2. None \notin Links
  BY StoreAssumption
<1>3. StoreTypeOK /\ StoresAgree
  BY DEF StoreInit, StoreTypeOK, StoresAgree
<1>4. OneChainPerProfile /\ ChainsAgree /\ UpdatesHosted /\ RegistersUnhosted
  BY <1>1, <1>2 DEF OneChainPerProfile, ChainsAgree, UpdatesHosted, RegistersUnhosted, Links, DbLinks
<1> QED BY <1>3, <1>4 DEF StoreInv

LEMMA StoreInvCorrect == StoreSpec => []StoreInv
  BY StoreInvInit, StoreInvStep, PTL DEF StoreSpec

(***************************************************************************)
(* For clients that issue one request per profile at a time, the DHT and   *)
(* the hosted records differ only while a request is in flight, or after a *)
(* store call for that profile failed or was cut short.                    *)
(***************************************************************************)
THEOREM StoresAgreeCorrect == StoreSpec => []StoresAgree
<1>1. StoreInv => StoresAgree
  BY DEF StoreInv, StoresAgree
<1> QED BY <1>1, StoreInvCorrect, PTL

(***************************************************************************)
(* An unregistered profile is not brought back by an update that was       *)
(* already under way.                                                      *)
(***************************************************************************)
THEOREM NoResurrectionCorrect == StoreSpec => NoResurrection
<1> DEFINE A == Serialized => \A p \in Profiles :
                  db[p] = None /\ db'[p] # None =>
                    \E r \in Requests : request[r].op = "register_db" /\ request[r].profile = p
<1>1. StoreInv /\ [StoreNext]_storeVars => [A]_storeVars
  <2> SUFFICES ASSUME StoreInv, StoreNext, Serialized, NEW p \in Profiles,
                      db[p] = None, db'[p] # None
               PROVE  \E r \in Requests : request[r].op = "register_db" /\ request[r].profile = p
    OBVIOUS
  <2>1. PICK r \in Requests : request[r].op \in DbLinks /\ request[r].profile = p
    <3>1. CASE Restart
      BY <3>1 DEF Restart, Writing
    <3>2. ASSUME NEW r \in Requests, NEW from \in DbLinks, SetDb(r, from)
          PROVE  request[r].op \in DbLinks /\ request[r].profile = p
      <4>1. request[r].profile \in Profiles
        BY <3>2, SlotShape DEF SetDb, StoreInv, Links, DbLinks
      <4> QED BY <3>2, <4>1 DEF SetDb, StoreInv, StoreTypeOK
    <3>3. \A q \in Profiles : ~Unregister(q)
      BY DEF Unregister, UnregisterOutcome, StoreInv, StoreTypeOK
    <3>4. \A r \in Requests, q \in Profiles, c \in Contents : ~Register(r, q, c) /\ ~Update(r, q, c)
      BY DEF Register, Update
    <3>5. \A r \in Requests : ~RegisterDht(r) /\ ~UpdateDht(r)
      BY DEF RegisterDht, UpdateDht, SetDht
    <3> QED BY <3>1, <3>2, <3>3, <3>4, <3>5 DEF StoreNext, ChainStep, RegisterDb, UpdateDb, DbLinks
  <2> QED BY <2>1 DEF StoreInv, UpdatesHosted, DbLinks
<1> QED BY <1>1, StoreInvCorrect, PTL DEF StoreSpec, NoResurrection

(***************************************************************************)
(* If lookups do not fail, register's last write never replaces the record *)
(* of a hosted profile.                                                    *)
(***************************************************************************)
THEOREM NoOverwriteCorrect == StoreSpec => NoOverwrite
<1> DEFINE A == Serialized /\ "get" \notin Faults => \A r \in Requests :
                  request[r].op = "register_db" /\ db' # db => ~Hosted(request[r].profile)
<1>1. StoreInv /\ [StoreNext]_storeVars => [A]_storeVars
  BY DEF StoreInv, RegistersUnhosted
<1> QED BY <1>1, StoreInvCorrect, PTL DEF StoreSpec, NoOverwrite

-----------------------------------------------------------------------------
(* The registry and the events: HomeServer *)

LEMMA LookupShape ==
    ASSUME TypeOK, NEW k \in Lookups, lookup[k].op \in LookupOps
    PROVE  /\ lookup[k].profile \in Profiles
           /\ lookup[k].op = "login" => lookup[k].by \in Profiles
           /\ lookup[k].op # "login" =>
                /\ lookup[k].event \in Events
                /\ lookup[k] \in [op : {"response", "push"}, profile : Profiles, by : {None}, event : Events]
  BY ServerAssumption DEF TypeOK, NoLookup

(* An event that is away from any session. *)
LEMMA AwayType ==
    ASSUME NEW st \in EventStates
    PROVE  /\ Away(st) \in [st : EventStates, to : Profiles \cup {None}, at : Sessions \cup {None}]
           /\ Away(st).st = st
  BY DEF Away

LEMMA MarkEffect ==
    ASSUME TypeOK, NEW e \in Events, NEW st \in EventStates, Mark(e, st)
    PROVE  /\ event' \in [Events -> [st : EventStates, to : Profiles \cup {None},
                                     at : Sessions \cup {None}]]
           /\ event'[e].st = st
           /\ \A f \in Events : f # e => event'[f] = event[f]
  BY AwayType DEF TypeOK, Mark

LEMMA EndLookupType ==
    ASSUME TypeOK, NEW k \in Lookups, EndLookup(k)
    PROVE  lookup' \in [Lookups -> [op : {"login"}, profile : Profiles, by : Profiles, event : {None}]
                      \cup [op : {"response", "push"}, profile : Profiles, by : {None}, event : Events]
                      \cup {NoLookup}]
  BY DEF TypeOK, EndLookup
-----------------------------------------------------------------------------
(***************************************************************************)
(* A step that leaves the registry and the kept events alone preserves     *)
(* RegistryInv if it preserves the types.                                  *)
(***************************************************************************)
LEMMA RegistryFrame ==
    ASSUME RegistryInv, TypeOK', UNCHANGED <<sessions, alive, peer, name, clouded>>,
           \A e \in Events : event'[e].st = "kept" => event'[e] = event[e]
    PROVE  RegistryInv'
<1>1. PeersKnown' /\ OneUnlessClouded' /\ OwnUnlessClouded'
  BY DEF RegistryInv, PeersKnown, OneUnlessClouded, OwnUnlessClouded, Concerned
<1>2. EntryIsNamed' /\ LiveIsReachable'
  BY DEF RegistryInv, EntryIsNamed, StandsFor, LiveIsReachable, LiveSession
<1>3. KeptByRecipient'
  BY DEF RegistryInv, KeptByRecipient, StandsFor
<1> QED BY <1>1, <1>2, <1>3 DEF RegistryInv

LEMMA StoreStepInv ==
    ASSUME RegistryInv, StoreStep
    PROVE  RegistryInv'
<1>1. StoreTypeOK
  BY DEF RegistryInv, TypeOK
<1>2. StoreTypeOK'
  BY <1>1, BeginType, ChainStepType DEF StoreStep, Register, Links
<1>3. TypeOK'
  BY <1>2 DEF RegistryInv, TypeOK, StoreStep, sessionVars
<1> QED BY <1>3, RegistryFrame DEF StoreStep, sessionVars

LEMMA LoginInv ==
    ASSUME RegistryInv, NEW k \in Lookups, NEW p \in Profiles, NEW q \in Profiles, Login(k, p, q)
    PROVE  RegistryInv'
<1>1. TypeOK'
  BY DEF RegistryInv, TypeOK, Login, sessionVars, storeVars, StoreTypeOK
<1> QED BY <1>1, RegistryFrame DEF Login, sessionVars

LEMMA SessionUpdateInv ==
    ASSUME RegistryInv, NEW s \in Sessions, NEW r \in Requests, NEW c \in Contents,
           SessionUpdate(s, r, c)
    PROVE  RegistryInv'
<1>1. peer[s] \in Profiles /\ StoreTypeOK
  BY DEF SessionUpdate, RegistryInv, PeersKnown, TypeOK
<1>2. StoreTypeOK'
  BY <1>1, BeginType DEF SessionUpdate, Update, Links
<1>3. TypeOK'
  BY <1>2 DEF RegistryInv, TypeOK, SessionUpdate, sessionVars
<1> QED BY <1>3, RegistryFrame DEF SessionUpdate, sessionVars

LEMMA OpenEventsInv ==
    ASSUME RegistryInv, NEW s \in Sessions, OpenEvents(s)
    PROVE  RegistryInv'
<1>1. TypeOK'
  BY DEF RegistryInv, TypeOK, OpenEvents, storeVars, StoreTypeOK, SinkStates
<1> QED BY <1>1, RegistryFrame DEF OpenEvents

LEMMA CloseEventsInv ==
    ASSUME RegistryInv, NEW s \in Sessions, CloseEvents(s)
    PROVE  RegistryInv'
<1>1. "gone" \in EventStates /\ "gone" # "kept"
  BY DEF EventStates
<1>2. PICK lost \in SUBSET KeptAt(s) :
          event' = [e \in Events |-> IF e \in lost THEN Away("gone") ELSE event[e]]
  BY DEF CloseEvents
<1>3. event' \in [Events -> [st : EventStates, to : Profiles \cup {None}, at : Sessions \cup {None}]]
  BY <1>1, <1>2, AwayType DEF RegistryInv, TypeOK
<1>4. TypeOK'
  BY <1>3 DEF RegistryInv, TypeOK, CloseEvents, storeVars, StoreTypeOK, SinkStates
<1>5. \A e \in Events : event'[e].st = "kept" => event'[e] = event[e]
  BY <1>1, <1>2, AwayType
<1> QED BY <1>4, <1>5, RegistryFrame DEF CloseEvents

LEMMA ReceiveInv ==
    ASSUME RegistryInv, NEW e \in Events, ReceiveEvent(e) \/ DrainEvent(e)
    PROVE  RegistryInv'
<1>1. PICK st \in EventStates \ {"kept"} : Mark(e, st)
  BY DEF ReceiveEvent, DrainEvent, EventStates
<1>2. UNCHANGED <<storeVars, sessionVars, lookup>>
  BY DEF ReceiveEvent, DrainEvent
<1>3. TypeOK'
  BY <1>1, <1>2, MarkEffect DEF RegistryInv, TypeOK, storeVars, sessionVars, StoreTypeOK
<1>4. \A f \in Events : event'[f].st = "kept" => event'[f] = event[f]
  BY <1>1, MarkEffect DEF RegistryInv
<1> QED BY <1>2, <1>3, <1>4, RegistryFrame DEF sessionVars

LEMMA StartPushInv ==
    ASSUME RegistryInv, NEW k \in Lookups, NEW p \in Profiles, NEW e \in Events,
           NEW op \in {"response", "push"}, StartPush(k, op, p, e)
    PROVE  RegistryInv'
<1>1. "pushing" \in EventStates /\ "pushing" # "kept"
  BY DEF EventStates
<1>2. TypeOK'
  BY <1>1, MarkEffect DEF StartPush, RegistryInv, TypeOK, storeVars, sessionVars, StoreTypeOK
<1>3. \A f \in Events : event'[f].st = "kept" => event'[f] = event[f]
  BY <1>1, MarkEffect DEF StartPush, RegistryInv
<1> QED BY <1>2, <1>3, RegistryFrame DEF StartPush, sessionVars

LEMMA PushResponseInv ==
    ASSUME RegistryInv, NEW k \in Lookups, PushResponse(k)
    PROVE  RegistryInv'
<1>1. lookup[k].event \in Events /\ lookup[k].profile \in Profiles
      /\ lookup[k] \in [op : {"response", "push"}, profile : Profiles, by : {None}, event : Events]
  BY LookupShape DEF PushResponse, LookupOps, RegistryInv
<1>2. UNCHANGED <<storeVars, sessionVars>>
  BY DEF PushResponse
<1>3. CASE lookup' = [lookup EXCEPT ![k].op = "push"] /\ UNCHANGED event
  <2>1. [lookup[k] EXCEPT !.op = "push"] \in [op : {"response", "push"}, profile : Profiles, by : {None}, event : Events]
    BY <1>1
  <2>2. TypeOK'
    BY <1>2, <1>3, <2>1 DEF RegistryInv, TypeOK, storeVars, sessionVars, StoreTypeOK
  <2> QED BY <1>2, <1>3, <2>2, RegistryFrame DEF sessionVars
<1>4. CASE EndLookup(k) /\ Mark(lookup[k].event, "gone")
  <2>1. "gone" \in EventStates /\ "gone" # "kept"
    BY DEF EventStates
  <2>2. TypeOK'
    BY <1>1, <1>2, <1>4, <2>1, MarkEffect, EndLookupType
       DEF RegistryInv, TypeOK, storeVars, sessionVars, StoreTypeOK
  <2>3. \A f \in Events : event'[f].st = "kept" => event'[f] = event[f]
    BY <1>1, <1>4, <2>1, MarkEffect DEF RegistryInv
  <2> QED BY <1>2, <2>2, <2>3, RegistryFrame DEF sessionVars
<1> QED BY <1>3, <1>4 DEF PushResponse

LEMMA PushEventInv ==
    ASSUME RegistryInv, NEW k \in Lookups, PushEvent(k)
    PROVE  RegistryInv'
<1> DEFINE p == lookup[k].profile
           e == lookup[k].event
           s == LiveSession(p)
<1>1. e \in Events /\ p \in Profiles
  BY LookupShape DEF PushEvent, LookupOps, RegistryInv
<1>2. UNCHANGED <<storeVars, sessionVars>> /\ EndLookup(k)
  BY DEF PushEvent
<1>3. CASE Mark(e, "vanished") \/ Mark(e, "gone")
  <2>1. PICK st \in EventStates \ {"kept"} : Mark(e, st)
    BY <1>3 DEF EventStates
  <2>2. TypeOK'
    BY <1>1, <1>2, <2>1, MarkEffect, EndLookupType
       DEF RegistryInv, TypeOK, storeVars, sessionVars, StoreTypeOK
  <2>3. \A f \in Events : event'[f].st = "kept" => event'[f] = event[f]
    BY <1>1, <2>1, MarkEffect DEF RegistryInv
  <2> QED BY <1>2, <2>2, <2>3, RegistryFrame DEF sessionVars
<1>4. CASE s # None /\ Keep(e, p, s)
  <2>1. s = sessions[p] /\ s \in alive /\ s \in Sessions /\ StandsFor(s, p)
    BY <1>1, <1>4, ServerAssumption DEF LiveSession, RegistryInv, EntryIsNamed, TypeOK
  <2>2. event' = [event EXCEPT ![e] = [st |-> "kept", to |-> p, at |-> s]]
    BY <1>4 DEF Keep
  <2>3. [st |-> "kept", to |-> p, at |-> s] \in [st : EventStates, to : Profiles \cup {None},
                                                 at : Sessions \cup {None}]
    BY <1>1, <2>1 DEF EventStates
  <2>4. event' \in [Events -> [st : EventStates, to : Profiles \cup {None}, at : Sessions \cup {None}]]
    BY <2>2, <2>3 DEF RegistryInv, TypeOK
  <2>5. TypeOK'
    BY <1>2, <2>4, EndLookupType DEF RegistryInv, TypeOK, storeVars, sessionVars, StoreTypeOK
  <2>6. KeptByRecipient'
    <3> SUFFICES ASSUME NEW f \in Events, event'[f].st = "kept"
                 PROVE  StandsFor(event'[f].at, event'[f].to)
      BY <1>2 DEF KeptByRecipient, StandsFor, sessionVars
    <3>1. CASE f = e
      BY <3>1, <2>1, <2>2 DEF RegistryInv, TypeOK
    <3>2. CASE f # e
      BY <3>2, <2>2 DEF RegistryInv, TypeOK, KeptByRecipient
    <3> QED BY <3>1, <3>2
  <2>7. PeersKnown' /\ OneUnlessClouded' /\ OwnUnlessClouded'
    BY <1>2 DEF RegistryInv, PeersKnown, OneUnlessClouded, OwnUnlessClouded, Concerned, sessionVars
  <2>8. EntryIsNamed' /\ LiveIsReachable'
    BY <1>2 DEF RegistryInv, EntryIsNamed, StandsFor, LiveIsReachable, LiveSession, sessionVars
  <2> QED BY <2>5, <2>6, <2>7, <2>8 DEF RegistryInv
<1> QED BY <1>3, <1>4 DEF PushEvent

-----------------------------------------------------------------------------
(* The steps that change the registry. *)

(***************************************************************************)
(* A new session is entered under the profile its login named unless that  *)
(* one has an entry.  A profile that has a session already, or meets one   *)
(* between two profiles, becomes clouded.                                  *)
(***************************************************************************)
LEMMA OpenSessionInv ==
    ASSUME RegistryInv, NEW k \in Lookups, NEW s \in Sessions, OpenSession(k, s)
    PROVE  RegistryInv'
<1> DEFINE p == lookup[k].profile
           q == lookup[k].by
<1>1. p \in Profiles /\ q \in Profiles
  BY LookupShape DEF OpenSession, LookupOps, RegistryInv
<1>2. /\ s \notin alive /\ alive' = alive \cup {s}
      /\ peer' = [peer EXCEPT ![s] = q]
      /\ name' = [name EXCEPT ![s] = p]
      /\ sessions' = [sessions EXCEPT ![p] = IF sessions[p] = None THEN s ELSE sessions[p]]
      /\ clouded' = clouded \cup {x \in {p, q} : p # q \/ Concerned(x) # {}}
      /\ EndLookup(k)
      /\ UNCHANGED <<storeVars, event, sink>>
  BY DEF OpenSession, Enter
<1>3. TypeOK'
  BY <1>1, <1>2, EndLookupType DEF RegistryInv, TypeOK, storeVars, StoreTypeOK
<1>4. /\ alive \subseteq Sessions /\ None \notin Sessions /\ Dangling \notin Sessions
      /\ peer'[s] = q /\ \A t \in alive : peer'[t] = peer[t]
      /\ name'[s] = p /\ \A t \in alive : name'[t] = name[t]
      /\ \A x \in Profiles : x # p => sessions'[x] = sessions[x]
      /\ sessions'[p] = IF sessions[p] = None THEN s ELSE sessions[p]
      /\ clouded \subseteq clouded'
      /\ \A x \in {p, q} : p # q \/ Concerned(x) # {} => x \in clouded'
  BY <1>1, <1>2, ServerAssumption DEF RegistryInv, TypeOK
<1> HIDE DEF p, q
<1>5. PeersKnown'
  BY <1>1, <1>2, <1>4 DEF RegistryInv, PeersKnown
<1>6. OneUnlessClouded'
  <2> SUFFICES ASSUME NEW x \in Profiles, NEW t \in Concerned(x)', NEW u \in Concerned(x)', t # u
               PROVE  x \in clouded'
    BY DEF OneUnlessClouded
  <2>1. \A v \in alive : x \in {peer'[v], name'[v]} => v \in Concerned(x)
    BY <1>4 DEF Concerned
  <2>2. /\ t \in alive' /\ u \in alive'
        /\ x \in {peer'[t], name'[t]} /\ x \in {peer'[u], name'[u]}
    BY DEF Concerned
  <2>3. CASE t # s /\ u # s
    BY <1>2, <1>4, <2>1, <2>2, <2>3 DEF RegistryInv, OneUnlessClouded
  <2>4. CASE t = s \/ u = s
    <3>1. Concerned(x) # {}
      BY <1>2, <2>1, <2>2, <2>4
    <3>2. x \in {p, q}
      BY <1>4, <2>2, <2>4
    <3> QED BY <3>1, <3>2, <1>4
  <2> QED BY <2>3, <2>4
<1>7. OwnUnlessClouded'
  BY <1>2, <1>4 DEF RegistryInv, OwnUnlessClouded
<1>8. ASSUME NEW t, NEW x, StandsFor(t, x)
      PROVE  t \in alive' /\ name'[t] = x /\ (peer'[t] = x \/ x \in clouded')
  BY <1>2, <1>4, <1>8 DEF StandsFor
<1>9. EntryIsNamed'
  <2> SUFFICES ASSUME NEW x \in Profiles, sessions'[x] # None
               PROVE  \/ sessions'[x] = Dangling /\ x \in clouded'
                      \/ /\ sessions'[x] \in alive' /\ name'[sessions'[x]] = x
                         /\ peer'[sessions'[x]] = x \/ x \in clouded'
    BY DEF EntryIsNamed, StandsFor
  <2>1. CASE sessions'[x] = sessions[x]
    BY <2>1, <1>4, <1>8 DEF RegistryInv, EntryIsNamed
  <2>2. CASE x = p /\ sessions'[x] = s
    BY <2>2, <1>2, <1>4
  <2> QED BY <2>1, <2>2, <1>4
<1>10. LiveIsReachable'
  <2> SUFFICES ASSUME NEW t \in alive', peer'[t] \notin clouded'
               PROVE  sessions'[peer'[t]] = t
    BY DEF LiveIsReachable, LiveSession
  <2>1. CASE t = s
    <3>1. p = q /\ Concerned(p) = {} /\ p \notin clouded
      BY <2>1, <1>4
    <3>2. sessions[p] = None
      BY <3>1, <1>1 DEF RegistryInv, EntryIsNamed, StandsFor, Concerned
    <3> QED BY <2>1, <3>1, <3>2, <1>4
  <2>2. CASE t # s
    <3>1. t \in alive /\ peer[t] \notin clouded /\ peer'[t] = peer[t] /\ t # None /\ peer[t] \in Profiles
      BY <2>2, <1>2, <1>4 DEF RegistryInv, PeersKnown
    <3>2. sessions[peer[t]] = t
      BY <3>1 DEF RegistryInv, LiveIsReachable, LiveSession
    <3> QED BY <3>1, <3>2, <1>4
  <2> QED BY <2>1, <2>2
<1>11. KeptByRecipient'
  <2> SUFFICES ASSUME NEW e \in Events, event[e].st = "kept"
               PROVE  /\ event[e].at \in alive' /\ name'[event[e].at] = event[e].to
                      /\ peer'[event[e].at] = event[e].to \/ event[e].to \in clouded'
    BY <1>2 DEF KeptByRecipient, StandsFor
  <2>1. StandsFor(event[e].at, event[e].to)
    BY DEF RegistryInv, KeptByRecipient
  <2> QED BY <2>1, <1>8
<1> QED BY <1>3, <1>5, <1>6, <1>7, <1>9, <1>10, <1>11 DEF RegistryInv

(***************************************************************************)
(* A drop removes the entry of the connection's profile, be it the         *)
(* session's own or another's, and leaves a dead entry under another       *)
(* profile; the profiles so concerned are and stay clouded.                *)
(***************************************************************************)
LEMMA DropSessionInv ==
    ASSUME RegistryInv, NEW s \in Sessions, DropSession(s)
    PROVE  RegistryInv'
<1> DEFINE p == peer[s]
<1>1. p \in Profiles /\ s \in alive
  BY DEF DropSession, RegistryInv, PeersKnown
<1>2. /\ alive' = alive \ {s}
      /\ peer' = [peer EXCEPT ![s] = None]
      /\ name' = [name EXCEPT ![s] = None]
      /\ sink' = [sink EXCEPT ![s] = "buffer"]
      /\ sessions' = Dropped(s)
      /\ clouded' = clouded \ {x \in Profiles : Concerned(x) = {s} /\ Dropped(s)[x] = None}
      /\ UNCHANGED <<storeVars, lookup>>
  BY DEF DropSession
<1>3. PICK draining \in SUBSET KeptAt(s) :
          event' = [e \in Events |->
                IF e \in KeptAt(s)
                THEN Away(IF e \in draining THEN "draining" ELSE "gone")
                ELSE event[e]]
  BY DEF DropSession
<1>4. /\ event' \in [Events -> [st : EventStates, to : Profiles \cup {None}, at : Sessions \cup {None}]]
      /\ \A e \in Events : event'[e].st = "kept" => event'[e] = event[e] /\ event[e].at # s
  <2>1. \A e \in Events : e \in KeptAt(s) =>
            /\ event'[e] \in [st : EventStates, to : Profiles \cup {None}, at : Sessions \cup {None}]
            /\ event'[e].st # "kept"
    BY <1>3, AwayType DEF EventStates
  <2>2. \A e \in Events : e \notin KeptAt(s) => event'[e] = event[e]
    BY <1>3
  <2>3. event' = [e \in Events |-> event'[e]]
    BY <1>3
  <2> QED BY <2>1, <2>2, <2>3 DEF RegistryInv, TypeOK, KeptAt
<1>5. sessions' \in [Profiles -> Sessions \cup {None, Dangling}]
  BY <1>2 DEF Dropped, RegistryInv, TypeOK
<1>6. TypeOK'
  BY <1>2, <1>4, <1>5 DEF RegistryInv, TypeOK, storeVars, StoreTypeOK, SinkStates
<1>7. /\ alive \subseteq Sessions /\ None \notin Sessions /\ Dangling \notin Sessions /\ Dangling # None
      /\ \A t \in alive' : t # s /\ t \in alive /\ peer'[t] = peer[t] /\ name'[t] = name[t]
      /\ \A x \in Profiles : sessions'[x] = IF x = p THEN None
                              ELSE IF sessions[x] = s THEN Dangling ELSE sessions[x]
      /\ \A x \in Profiles : x \in clouded' <=>
             x \in clouded /\ ~(Concerned(x) = {s} /\ sessions'[x] = None)
  BY <1>1, <1>2, ServerAssumption DEF RegistryInv, TypeOK, Dropped
<1> HIDE DEF p
<1>8. ASSUME NEW x \in Profiles, NEW t \in alive', x \in {peer[t], name[t]}, x \in clouded
      PROVE  x \in clouded'
  <2>1. t \in Concerned(x) /\ t # s
    BY <1>7, <1>8 DEF Concerned
  <2> QED BY <2>1, <1>7, <1>8
<1>9. PeersKnown'
  BY <1>7 DEF RegistryInv, PeersKnown
<1>10. OneUnlessClouded'
  <2> SUFFICES ASSUME NEW x \in Profiles, NEW t \in Concerned(x)', NEW u \in Concerned(x)', t # u
               PROVE  x \in clouded'
    BY DEF OneUnlessClouded
  <2>1. t \in alive' /\ u \in alive' /\ x \in {peer'[t], name'[t]} /\ x \in {peer'[u], name'[u]}
    BY DEF Concerned
  <2>2. x \in {peer[t], name[t]} /\ x \in {peer[u], name[u]}
    BY <2>1, <1>7
  <2>3. t \in Concerned(x) /\ u \in Concerned(x)
    BY <2>1, <2>2, <1>7 DEF Concerned
  <2>4. x \in clouded
    BY <2>3 DEF RegistryInv, OneUnlessClouded
  <2> QED BY <2>1, <2>2, <2>4, <1>8
<1>11. OwnUnlessClouded'
  <2> SUFFICES ASSUME NEW t \in alive', peer'[t] # name'[t]
               PROVE  peer'[t] \in clouded' /\ name'[t] \in clouded'
    BY DEF OwnUnlessClouded
  <2>1. /\ t \in alive /\ peer[t] # name[t] /\ peer'[t] = peer[t] /\ name'[t] = name[t]
        /\ peer[t] \in Profiles /\ name[t] \in Profiles
    BY <1>7 DEF RegistryInv, PeersKnown
  <2>2. peer[t] \in clouded /\ name[t] \in clouded
    BY <2>1 DEF RegistryInv, OwnUnlessClouded
  <2> QED BY <2>1, <2>2, <1>8
<1>12. ASSUME NEW t, NEW x \in Profiles, StandsFor(t, x), t # s
       PROVE  t \in alive' /\ name'[t] = x /\ (peer'[t] = x \/ x \in clouded')
  <2>1. t \in alive' /\ name[t] = x /\ (peer[t] = x \/ x \in clouded)
    BY <1>2, <1>12 DEF StandsFor
  <2>2. name'[t] = x /\ peer'[t] = peer[t]
    BY <2>1, <1>7
  <2> QED BY <2>1, <2>2, <1>8
<1>13. EntryIsNamed'
  <2> SUFFICES ASSUME NEW x \in Profiles, sessions'[x] # None
               PROVE  \/ sessions'[x] = Dangling /\ x \in clouded'
                      \/ /\ sessions'[x] \in alive' /\ name'[sessions'[x]] = x
                         /\ peer'[sessions'[x]] = x \/ x \in clouded'
    BY DEF EntryIsNamed, StandsFor
  <2>1. x # p
    BY <1>7
  <2>2. x \in clouded' <=> x \in clouded
    BY <1>7
  <2>3. CASE sessions[x] = s
    <3>1. StandsFor(s, x)
      BY <2>3, <1>1, <1>7 DEF RegistryInv, EntryIsNamed
    <3>2. x \in clouded
      BY <3>1, <2>1 DEF StandsFor, p
    <3> QED BY <2>1, <2>2, <2>3, <3>2, <1>7
  <2>4. CASE sessions[x] # s
    <3>1. sessions'[x] = sessions[x]
      BY <2>1, <2>4, <1>7
    <3>2. CASE sessions[x] = Dangling /\ x \in clouded
      BY <2>2, <3>1, <3>2
    <3>3. CASE StandsFor(sessions[x], x)
      <4>1. sessions[x] \in alive' /\ name'[sessions[x]] = x /\ (peer'[sessions[x]] = x \/ x \in clouded')
        BY <3>3, <2>4, <1>12
      <4> QED BY <3>1, <4>1
    <3> QED BY <3>1, <3>2, <3>3 DEF RegistryInv, EntryIsNamed
  <2> QED BY <2>3, <2>4
<1>14. LiveIsReachable'
  <2> SUFFICES ASSUME NEW t \in alive', peer'[t] \notin clouded'
               PROVE  sessions'[peer'[t]] = t
    BY DEF LiveIsReachable, LiveSession
  <2>1. t \in alive /\ t # s /\ t # None /\ peer'[t] = peer[t] /\ peer[t] \in Profiles
    BY <1>7 DEF RegistryInv, PeersKnown
  <2>2. peer[t] \notin clouded
    BY <2>1, <1>8
  <2>3. peer[t] # p
    BY <2>1, <2>2, <1>1 DEF RegistryInv, OneUnlessClouded, Concerned, p
  <2>4. sessions[peer[t]] = t
    BY <2>1, <2>2 DEF RegistryInv, LiveIsReachable, LiveSession
  <2> QED BY <2>1, <2>3, <2>4, <1>7
<1>15. KeptByRecipient'
  <2> SUFFICES ASSUME NEW e \in Events, event'[e].st = "kept"
               PROVE  /\ event'[e].at \in alive' /\ name'[event'[e].at] = event'[e].to
                      /\ peer'[event'[e].at] = event'[e].to \/ event'[e].to \in clouded'
    BY DEF KeptByRecipient, StandsFor
  <2>1. event'[e] = event[e] /\ event[e].at # s /\ StandsFor(event[e].at, event[e].to)
    BY <1>4 DEF RegistryInv, KeptByRecipient
  <2>2. event[e].to \in Profiles
    BY <2>1 DEF StandsFor, RegistryInv, PeersKnown
  <2>3. /\ event[e].at \in alive' /\ name'[event[e].at] = event[e].to
        /\ peer'[event[e].at] = event[e].to \/ event[e].to \in clouded'
    BY <2>1, <2>2, <1>12
  <2> QED BY <2>1, <2>3
<1> QED BY <1>6, <1>9, <1>10, <1>11, <1>13, <1>14, <1>15 DEF RegistryInv

LEMMA SessionUnregisterInv ==
    ASSUME RegistryInv, NEW s \in Sessions, SessionUnregister(s)
    PROVE  RegistryInv'
<1> DEFINE p == peer[s]
<1>1. p \in Profiles /\ s \in alive
  BY DEF SessionUnregister, RegistryInv, PeersKnown
<1>2. StoreTypeOK'
  BY <1>1, UnregisterType DEF SessionUnregister, RegistryInv, TypeOK
<1>3. /\ sessions' = [sessions EXCEPT ![p] = None]
      /\ clouded' = clouded \cup {p}
      /\ UNCHANGED <<alive, peer, name, sink, lookup, event>>
  BY DEF SessionUnregister
<1>4. TypeOK'
  BY <1>1, <1>2, <1>3 DEF RegistryInv, TypeOK
<1>5. PeersKnown' /\ OneUnlessClouded' /\ OwnUnlessClouded'
  BY <1>3 DEF RegistryInv, PeersKnown, OneUnlessClouded, OwnUnlessClouded, Concerned
<1>6. KeptByRecipient'
  BY <1>3 DEF RegistryInv, KeptByRecipient, StandsFor
<1>7. EntryIsNamed'
  BY <1>1, <1>3 DEF RegistryInv, TypeOK, EntryIsNamed, StandsFor
<1>8. LiveIsReachable'
  BY <1>1, <1>3 DEF RegistryInv, TypeOK, PeersKnown, LiveIsReachable, LiveSession
<1> QED BY <1>4, <1>5, <1>6, <1>7, <1>8 DEF RegistryInv

LEMMA ServerRestartInv ==
    ASSUME RegistryInv, ServerRestart
    PROVE  RegistryInv'
<1>1. StoreTypeOK'
  BY RestartType DEF ServerRestart, RegistryInv, TypeOK
<1>2. event' = [e \in Events |->
          IF event[e].st \in {"pushing", "kept", "draining"} THEN Away("gone") ELSE event[e]]
  BY DEF ServerRestart
<1>3. "gone" \in EventStates /\ "gone" # "kept"
  BY DEF EventStates
<1>4. /\ event' \in [Events -> [st : EventStates, to : Profiles \cup {None}, at : Sessions \cup {None}]]
      /\ \A e \in Events : event'[e].st # "kept"
  BY <1>2, <1>3, AwayType DEF RegistryInv, TypeOK
<1>5. TypeOK'
  BY <1>1, <1>4 DEF ServerRestart, TypeOK, SinkStates
<1>6. PeersKnown' /\ OneUnlessClouded' /\ OwnUnlessClouded' /\ LiveIsReachable'
  BY DEF ServerRestart, PeersKnown, OneUnlessClouded, OwnUnlessClouded, Concerned, LiveIsReachable
<1>7. EntryIsNamed'
  BY DEF ServerRestart, EntryIsNamed
<1>8. KeptByRecipient'
  BY <1>4 DEF KeptByRecipient
<1> QED BY <1>5, <1>6, <1>7, <1>8 DEF RegistryInv

-----------------------------------------------------------------------------
LEMMA RegistryInvStep == RegistryInv /\ [Next]_serverVars => RegistryInv'
<1> SUFFICES ASSUME RegistryInv, [Next]_serverVars PROVE RegistryInv'
  OBVIOUS
<1>1. CASE SessionStep
  BY <1>1, OpenSessionInv, DropSessionInv, SessionUpdateInv, SessionUnregisterInv,
     OpenEventsInv, CloseEventsInv DEF SessionStep
<1>2. CASE EventStep
  BY <1>2, StartPushInv, PushResponseInv, PushEventInv, ReceiveInv
     DEF EventStep, PairRequest, PairResponse
<1>3. CASE UNCHANGED serverVars
  <2>1. TypeOK'
    BY <1>3 DEF serverVars, sessionVars, storeVars, RegistryInv, TypeOK, StoreTypeOK
  <2> QED BY <1>3, <2>1, RegistryFrame DEF serverVars, sessionVars
<1> QED BY <1>1, <1>2, <1>3, StoreStepInv, LoginInv, ServerRestartInv DEF Next

LEMMA RegistryInvInit == Init => RegistryInv
<1> SUFFICES ASSUME Init PROVE RegistryInv
  OBVIOUS
<1>1. "new" \in EventStates /\ "new" # "kept"
  BY DEF EventStates
<1>2. StoreTypeOK
  BY DEF Init, StoreInit, StoreTypeOK
<1>3. TypeOK
  BY <1>1, <1>2, AwayType DEF Init, TypeOK, SinkStates
<1>4. KeptByRecipient
  BY <1>1, AwayType DEF Init, KeptByRecipient
<1> QED BY <1>3, <1>4 DEF Init, RegistryInv, PeersKnown, OneUnlessClouded,
           OwnUnlessClouded, Concerned, EntryIsNamed, LiveIsReachable

LEMMA RegistryInvCorrect == Spec => []RegistryInv
  BY RegistryInvInit, RegistryInvStep, PTL DEF Spec

(***************************************************************************)
(* Type correctness of the home node: stores, registry, sessions, chains   *)
(* and events.                                                             *)
(***************************************************************************)
THEOREM TypeCorrect == Spec => []TypeOK
<1>1. RegistryInv => TypeOK
  BY DEF RegistryInv
<1> QED BY <1>1, RegistryInvCorrect, PTL

(***************************************************************************)
(* An entry of the registry leads to a live session whose login named that *)
(* profile, on the profile's own connection unless the profile is clouded; *)
(* weak.upgrade() in get_live_session fails only for clouded profiles.     *)
(***************************************************************************)
THEOREM EntryIsNamedCorrect == Spec => []EntryIsNamed
<1>1. RegistryInv => EntryIsNamed
  BY DEF RegistryInv
<1> QED BY <1>1, RegistryInvCorrect, PTL

(***************************************************************************)
(* A live session is found by get_live_session unless its profile met a    *)
(* second session, a session between two profiles or an unregister.        *)
(***************************************************************************)
THEOREM LiveIsReachableCorrect == Spec => []LiveIsReachable
<1>1. RegistryInv => LiveIsReachable
  BY DEF RegistryInv
<1> QED BY <1>1, RegistryInvCorrect, PTL

(***************************************************************************)
(* Accepted events wait in live sessions whose login named the profile     *)
(* they were sent to, and the session's connection is that profile's own   *)
(* unless the profile is clouded.                                          *)
(***************************************************************************)
THEOREM KeptByRecipientCorrect == Spec => []KeptByRecipient
<1>1. RegistryInv => KeptByRecipient
  BY DEF RegistryInv
<1> QED BY <1>1, RegistryInvCorrect, PTL

-----------------------------------------------------------------------------
(* Only push_event lets an event vanish, and only if it finds no session. *)
LEMMA VanishStep ==
    ASSUME RegistryInv, Next, NEW e \in Events,
           event[e].st # "vanished", event'[e].st = "vanished"
    PROVE  \E k \in Lookups : /\ lookup[k].op = "push" /\ lookup[k].event = e
                              /\ LiveSession(lookup[k].profile) = None
<1>0. TypeOK
  BY DEF RegistryInv
<1>1. event' # event
  OBVIOUS
<1>2. ASSUME NEW f \in Events, NEW st \in EventStates \ {"vanished"}, Mark(f, st)
      PROVE  FALSE
  BY <1>0, <1>2, MarkEffect
<1>3. {"new", "pushing", "gone", "draining"} \subseteq EventStates \ {"vanished"}
  BY DEF EventStates
<1>4. ASSUME NEW s \in Sessions, DropSession(s) \/ CloseEvents(s)
      PROVE  FALSE
  <2>1. event'[e] = event[e] \/ event'[e] = Away("draining") \/ event'[e] = Away("gone")
    BY <1>4 DEF DropSession, CloseEvents
  <2> QED BY <2>1, <1>3, AwayType
<1>5. ~ServerRestart
  <2>1. ASSUME ServerRestart PROVE event'[e] = event[e] \/ event'[e] = Away("gone")
    BY <2>1 DEF ServerRestart
  <2> QED BY <2>1, <1>3, AwayType
<1>6. \A f \in Events : ~ReceiveEvent(f) /\ ~DrainEvent(f)
  BY <1>2, <1>3 DEF ReceiveEvent, DrainEvent
<1>7. \A k \in Lookups, p \in Profiles, f \in Events : ~PairRequest(k, p, f) /\ ~PairResponse(k, p, f)
  BY <1>2, <1>3 DEF PairRequest, PairResponse, StartPush
<1>8. \A k \in Lookups : ~PushResponse(k)
  <2> SUFFICES ASSUME NEW k \in Lookups, PushResponse(k) PROVE FALSE
    OBVIOUS
  <2>1. lookup[k].event \in Events
    BY <1>0, LookupShape DEF PushResponse, LookupOps
  <2>2. Mark(lookup[k].event, "gone")
    BY <1>1 DEF PushResponse
  <2> QED BY <2>1, <2>2, <1>2, <1>3
<1>9. PICK k \in Lookups : PushEvent(k)
  BY <1>1, <1>4, <1>5, <1>6, <1>7, <1>8
     DEF Next, StoreStep, Login, SessionStep, EventStep, OpenSession, SessionUpdate,
         SessionUnregister, OpenEvents
<1>10. lookup[k].event \in Events
  BY <1>0, <1>9, LookupShape DEF PushEvent, LookupOps
<1>11. ~Mark(lookup[k].event, "gone")
  BY <1>10, <1>2, <1>3
<1>12. ~Keep(lookup[k].event, lookup[k].profile, LiveSession(lookup[k].profile))
  BY <1>0, <1>10 DEF Keep, TypeOK
<1>13. Mark(lookup[k].event, "vanished") /\ LiveSession(lookup[k].profile) = None
  BY <1>9, <1>11, <1>12 DEF PushEvent
<1>14. lookup[k].event = e
  BY <1>0, <1>10, <1>13, MarkEffect DEF EventStates
<1> QED BY <1>9, <1>13, <1>14 DEF PushEvent

(***************************************************************************)
(* The home answers Ok to a pairing message and drops it only if the       *)
(* profile has no live session, or is clouded.                             *)
(***************************************************************************)
THEOREM NoSilentDropCorrect == Spec => NoSilentDrop
<1> DEFINE A == \A e \in Events : event[e].st # "vanished" /\ event'[e].st = "vanished" =>
                  \E k \in Lookups : /\ lookup[k].op = "push" /\ lookup[k].event = e
                                     /\ \/ LiveOf(lookup[k].profile) = {}
                                        \/ lookup[k].profile \in clouded
<1>1. RegistryInv /\ [Next]_serverVars => [A]_serverVars
  <2> SUFFICES ASSUME RegistryInv, Next, NEW e \in Events,
                      event[e].st # "vanished", event'[e].st = "vanished"
               PROVE  \E k \in Lookups : /\ lookup[k].op = "push" /\ lookup[k].event = e
                                         /\ \/ LiveOf(lookup[k].profile) = {}
                                            \/ lookup[k].profile \in clouded
    OBVIOUS
  <2>1. PICK k \in Lookups : /\ lookup[k].op = "push" /\ lookup[k].event = e
                             /\ LiveSession(lookup[k].profile) = None
    BY VanishStep
  <2>2. ASSUME NEW s \in LiveOf(lookup[k].profile), lookup[k].profile \notin clouded
        PROVE  FALSE
    <3>1. s \in alive /\ peer[s] = lookup[k].profile /\ s # None
      BY <2>2, ServerAssumption DEF LiveOf, RegistryInv, TypeOK
    <3> QED BY <2>1, <2>2, <3>1 DEF RegistryInv, LiveIsReachable
  <2> QED BY <2>1, <2>2
<1> QED BY <1>1, RegistryInvCorrect, PTL DEF Spec, NoSilentDrop

-----------------------------------------------------------------------------
(* The web of blobs: HashWeb *)

(***************************************************************************)
(* Decoding an encoded hash gives it back.                                 *)
(***************************************************************************)
LEMMA DecodeEncode ==
    ASSUME NEW b \in Blobs PROVE Decode(Base64[b]) = Hash(b) /\ Hash(b) # Error
<1>1. \A h \in Hashes : Encode(h) = Base64[b] <=> h = Hash(b)
  <2>1. ASSUME NEW h \in Hashes, Encode(h) = Base64[b] PROVE h = Hash(b)
    <3>1. PICK c \in Blobs : h = Hash(c)
      BY DEF Hashes
    <3>2. Base64[c] = Base64[b]
      BY <2>1, <3>1 DEF Encode, Hash
    <3>. QED  BY <3>1, <3>2, HashWebAssumption
  <2>2. Encode(Hash(b)) = Base64[b]
    BY DEF Encode, Hash
  <2>. QED  BY <2>1, <2>2
<1>2. Hash(b) \in Hashes
  BY DEF Hashes
<1>3. Decode(Base64[b]) = Hash(b)
  BY <1>1, <1>2 DEF Decode
<1>4. Hash(b) # Error
  BY HashWebAssumption DEF Hash
<1>. QED  BY <1>3, <1>4

LEMMA PrefixProperties ==
    ASSUME NEW S, NEW x \in S, NEW t \in Seq(S)
    PROVE  /\ <<x>> \o t \in Seq(S)
           /\ Len(<<x>> \o t) = 1 + Len(t)
           /\ (<<x>> \o t)[1] = x
           /\ \A i \in 1..Len(t) : (<<x>> \o t)[i + 1] = t[i]
<1>1. <<x>> \in Seq(S) /\ Len(<<x>>) = 1 /\ <<x>>[1] = x
  OBVIOUS
<1>2. Len(t) \in Nat
  OBVIOUS
<1>3. /\ <<x>> \o t \in Seq(S)
      /\ Len(<<x>> \o t) = 1 + Len(t)
      /\ \A i \in 1 .. 1 + Len(t) : (<<x>> \o t)[i] = IF i <= 1 THEN <<x>>[i] ELSE t[i - 1]
  <2>. DEFINE o == <<x>>
  <2>1. o \in Seq(S) /\ Len(o) = 1
    BY <1>1
  <2>2. /\ o \o t \in Seq(S)
        /\ Len(o \o t) = Len(o) + Len(t)
        /\ \A i \in 1 .. Len(o) + Len(t) :
              (o \o t)[i] = IF i <= Len(o) THEN o[i] ELSE t[i - Len(o)]
    <3>. HIDE DEF o
    <3>. QED  BY <2>1, ConcatProperties
  <2>. QED  BY <2>1, <2>2
<1>4. (<<x>> \o t)[1] = x
  BY <1>1, <1>2, <1>3
<1>5. ASSUME NEW i \in 1..Len(t) PROVE (<<x>> \o t)[i + 1] = t[i]
  BY <1>2, <1>3
<1>. QED  BY <1>3, <1>4, <1>5

LEMMA TailOfPrefixed ==
    ASSUME NEW S, NEW x \in S, NEW t \in Seq(S)
    PROVE  Tail(<<x>> \o t) = t /\ <<x>> \o t # <<>>
<1>. DEFINE u == <<x>> \o t
<1>1. u \in Seq(S) /\ Len(u) = 1 + Len(t) /\ Len(t) \in Nat
  BY PrefixProperties
<1>2. \A i \in 1..Len(t) : u[i + 1] = t[i]
  BY PrefixProperties
<1>. HIDE DEF u
<1>3. u # <<>>
  BY <1>1
<1>4. Tail(u) \in Seq(S) /\ Len(Tail(u)) = Len(t)
  BY <1>1, <1>3, HeadTailProperties
<1>5. \A i \in 1..Len(Tail(u)) : Tail(u)[i] = t[i]
  BY <1>1, <1>2, <1>3, <1>4, HeadTailProperties
<1>6. Tail(u) = t
  BY <1>4, <1>5, SeqEqual
<1>. QED  BY <1>3, <1>6 DEF u

(***************************************************************************)
(* The first slash ends the space's id, a leading one apart, and whatever  *)
(* slashes the text of the hash has stay in it.                            *)
(***************************************************************************)
LEMMA ParseLink ==
    ASSUME NEW s \in Spaces, NEW b \in Blobs
    PROVE  /\ Parse(Link(s, Base64[b])) = [space |-> s, hash |-> Base64[b]]
           /\ Parse(<<"">> \o Link(s, Base64[b])) = [space |-> s, hash |-> Base64[b]]
<1>. DEFINE t == Base64[b]
            u == <<s>> \o t
            v == <<"">> \o u
<1>1. t \in Seq(Words) /\ t # <<>> /\ s \in Words /\ s # "" /\ "" \in Words
  BY HashWebAssumption
<1>. HIDE DEF t
<1>2. u \in Seq(Words) /\ Len(u) = 1 + Len(t) /\ u[1] = s /\ Tail(u) = t /\ u # <<>>
  <2>1. t \in Seq(Words) /\ s \in Words
    BY <1>1
  <2>2. u \in Seq(Words) /\ Len(u) = 1 + Len(t) /\ u[1] = s
    BY <2>1, PrefixProperties
  <2>3. Tail(u) = t /\ u # <<>>
    BY <2>1, TailOfPrefixed
  <2>. QED  BY <2>2, <2>3
<1>3. Len(t) \in Nat /\ Len(t) # 0
  BY <1>1, EmptySeq
<1>4. ~(Len(u) < 2)
  BY <1>2, <1>3
<1>. HIDE DEF u
<1>5. v[1] = "" /\ Tail(v) = u /\ v # <<>>
  <2>1. u \in Seq(Words) /\ "" \in Words
    BY <1>1, <1>2
  <2>2. v[1] = ""
    BY <2>1, PrefixProperties
  <2>3. Tail(v) = u /\ v # <<>>
    BY <2>1, TailOfPrefixed
  <2>. QED  BY <2>2, <2>3
<1>. HIDE DEF v
<1>6. Parse(u) = [space |-> s, hash |-> t]
  BY <1>1, <1>2, <1>4 DEF Parse
<1>7. Parse(v) = [space |-> s, hash |-> t]
  BY <1>2, <1>4, <1>5 DEF Parse
<1>. QED  BY <1>6, <1>7 DEF Link, t, u, v

(***************************************************************************)
(* A link leads to the blob that its entry in the store is.                *)
(***************************************************************************)
LEMMA ResolveLink ==
    ASSUME NEW s \in Spaces, NEW b \in Blobs, store[s][Hash(b)] = b
    PROVE  /\ Resolve(Link(s, Base64[b])) = b
           /\ Resolve(<<"">> \o Link(s, Base64[b])) = b
<1>1. SpaceResolve(s, Base64[b]) = b
  BY DecodeEncode, HashWebAssumption DEF SpaceResolve, Checked, ValidHash, Get
<1>. DEFINE p == [space |-> s, hash |-> Base64[b]]
<1>2. p # Error /\ p.space = s /\ p.hash = Base64[b]
  BY HashWebAssumption
<1>3. Parse(Link(s, Base64[b])) = p /\ Parse(<<"">> \o Link(s, Base64[b])) = p
  BY ParseLink
<1>. HIDE DEF p
<1>. QED  BY <1>1, <1>2, <1>3 DEF Resolve

LEMMA StoredIsFoundInv == WebInv => StoredIsFound
<1>. SUFFICES ASSUME WebInv, NEW l \in links, <<Default, Hash(l[2])>> \notin hit
              PROVE  Resolve(l[1]) = l[2] /\ Resolve(<<"">> \o l[1]) = l[2]
  BY DEF StoredIsFound
<1>1. PICK b \in Blobs : l = <<Link(Default, Encode(Hash(b))), b>>
  BY DEF WebInv, WebTypeOK
<1>2. l[2] = b /\ l[1] = Link(Default, Base64[b])
  BY <1>1 DEF Encode, Hash
<1>3. Default \in Spaces /\ store[Default][Hash(b)] = b
  BY <1>2 DEF WebInv, LinksKept
<1>4. /\ Resolve(Link(Default, Base64[b])) = b
      /\ Resolve(<<"">> \o Link(Default, Base64[b])) = b
  BY <1>3, ResolveLink
<1>. QED  BY <1>2, <1>4, Zenon

(***************************************************************************)
(* What HashWeb::resolve returns is valid for the link.                    *)
(***************************************************************************)
LEMMA ResolvedIsValid ==
    ASSUME WebTypeOK, NEW text, Resolve(text) # Error
    PROVE  Resolve(text) \in Blobs /\ Validate(Resolve(text), text)
<1>. DEFINE s == Parse(text).space
            t == Parse(text).hash
<1>1. Parse(text) # Error /\ s \in Spaces /\ Resolve(text) = SpaceResolve(s, t)
  BY DEF Resolve
<1>2. Decode(t) # Error /\ Resolve(text) = Checked(Get(s, Decode(t)), Decode(t))
  BY <1>1 DEF SpaceResolve
<1>3. /\ Resolve(text) = store[s][Decode(t)]
      /\ ValidHash(Resolve(text), Decode(t))
  BY <1>2 DEF Checked, Get
<1>4. Decode(t) \in Hashes
  <2>1. \E h \in Hashes : Encode(h) = t
    BY <1>2 DEF Decode
  <2>. QED  BY <2>1 DEF Decode
<1>5. Resolve(text) \in Blobs
  BY <1>1, <1>3, <1>4 DEF WebTypeOK
<1>. QED  BY <1>1, <1>2, <1>3, <1>5 DEF Validate

(***************************************************************************)
(* A blob that is valid for the next link is the next on the way.          *)
(***************************************************************************)
LEMMA WayExtends ==
    ASSUME NEW address, NEW k \in Nat, NEW way, IsWay(address, way, k),
           NEW b \in Blobs, LinkTo(address, way, k + 1) # Error,
           Validate(b, LinkTo(address, way, k + 1))
    PROVE  \E w \in [1..(k + 1) -> Blobs] : IsWay(address, w, k + 1) /\ b = w[k + 1]
<1>. DEFINE w == [j \in 1..(k + 1) |-> IF j = k + 1 THEN b ELSE way[j]]
<1>1. way \in [1..k -> Blobs]
  BY DEF IsWay
<1>2. ASSUME NEW j \in 1..(k + 1), j # k + 1 PROVE j \in 1..k
  BY <1>2
<1>3. w \in [1..(k + 1) -> Blobs]
  BY <1>1, <1>2
<1>4. w[k + 1] = b
  OBVIOUS
<1>5. ASSUME NEW j \in 1..k PROVE w[j] = way[j]
  BY <1>5
<1>. HIDE DEF w
<1>6. ASSUME NEW j \in 1..(k + 1) PROVE LinkTo(address, w, j) = LinkTo(address, way, j)
  <2>1. CASE j = 1
    BY <2>1 DEF LinkTo
  <2>2. CASE j # 1
    <3>1. j - 1 \in 1..k
      BY <2>2
    <3>. QED  BY <3>1, <1>5 DEF LinkTo
  <2>. QED  BY <2>1, <2>2
<1>7. ASSUME NEW j \in 1..(k + 1)
      PROVE  LinkTo(address, w, j) # Error /\ Validate(w[j], LinkTo(address, w, j))
  <2>1. CASE j = k + 1
    BY <2>1, <1>4, <1>6
  <2>2. CASE j # k + 1
    <3>1. j \in 1..k
      BY <2>2, <1>2
    <3>. QED  BY <3>1, <1>5, <1>6 DEF IsWay
  <2>. QED  BY <2>1, <2>2
<1>8. IsWay(address, w, k + 1)
  BY <1>3, <1>7 DEF IsWay
<1>. QED  BY <1>3, <1>4, <1>8

LEMMA NoWay == ASSUME NEW address PROVE \E w \in [1..0 -> Blobs] : IsWay(address, w, 0)
<1>. DEFINE w == [j \in 1..0 |-> j]
<1>1. w \in [1..0 -> Blobs]
  OBVIOUS
<1>2. IsWay(address, w, 0)
  BY <1>1 DEF IsWay
<1>. QED  BY <1>1, <1>2

-----------------------------------------------------------------------------

LEMMA HashInjective == ASSUME NEW b, NEW c, Hash(b) = Hash(c) PROVE b = c
BY DEF Hash

LEMMA StoreKeepsWeb ==
    ASSUME WebInv, NEW s \in Spaces, NEW b \in Blobs, Store(s, b)
    PROVE  WebTypeOK' /\ LinksKept'
<1>1. /\ store \in [Spaces -> [Hashes -> Blobs \cup {Error}]]
      /\ Hash(b) \in Hashes
      /\ store' = [store EXCEPT ![s][Hash(b)] = b]
      /\ hit' = hit \ {<<s, Hash(b)>>} /\ res' = res
  BY DEF WebInv, WebTypeOK, Store, Stored, Hashes
<1>2. store' \in [Spaces -> [Hashes -> Blobs \cup {Error}]]
  BY <1>1
<1>3. ASSUME NEW l \in links' PROVE l \in links \/ (s = Default /\ l = <<Link(Default, Encode(Hash(b))), b>>)
  BY <1>3 DEF Store
<1>4. ASSUME NEW l \in links' PROVE \E c \in Blobs : l = <<Link(Default, Encode(Hash(c))), c>>
  BY <1>3, <1>4 DEF WebInv, WebTypeOK
<1>5. WebTypeOK'
  BY <1>1, <1>2, <1>4 DEF WebInv, WebTypeOK
<1>6. ASSUME NEW l \in links'
      PROVE  /\ Default \in Spaces
             /\ <<Default, Hash(l[2])>> \in hit' \/ store'[Default][Hash(l[2])] = l[2]
  <2>0. PICK c \in Blobs : l[2] = c
    BY <1>4
  <2>1. Default \in Spaces
    BY <1>3 DEF WebInv, LinksKept
  <2>2. Hash(c) \in Hashes
    BY DEF Hashes
  <2>3. CASE s = Default /\ c = b
    BY <1>1, <2>0, <2>1, <2>3
  <2>4. CASE ~(s = Default /\ c = b)
    <3>1. l \in links
      BY <1>3, <2>0, <2>4
    <3>2. s # Default \/ Hash(c) # Hash(b)
      BY <2>4, HashInjective
    <3>3. store'[Default][Hash(c)] = store[Default][Hash(c)]
      BY <1>1, <2>1, <2>2, <3>2
    <3>4. <<Default, Hash(c)>> \in hit => <<Default, Hash(c)>> \in hit'
      BY <1>1, <3>2
    <3>5. <<Default, Hash(c)>> \in hit \/ store[Default][Hash(c)] = c
      BY <2>0, <3>1 DEF WebInv, LinksKept
    <3>. QED  BY <2>0, <2>1, <3>3, <3>4, <3>5
  <2>. QED  BY <2>3, <2>4
<1>. QED  BY <1>5, <1>6 DEF LinksKept

LEMMA FaultKeepsWeb ==
    ASSUME WebInv, NEW s \in Spaces, NEW h \in Hashes, NEW b \in Blobs \cup {Error},
           Fault(s, h, b)
    PROVE  WebTypeOK' /\ LinksKept'
<1>1. /\ store \in [Spaces -> [Hashes -> Blobs \cup {Error}]]
      /\ store' = [store EXCEPT ![s][h] = b]
      /\ hit' = hit \cup {<<s, h>>} /\ links' = links /\ res' = res
  BY DEF WebInv, WebTypeOK, Fault
<1>2. store' \in [Spaces -> [Hashes -> Blobs \cup {Error}]]
  BY <1>1
<1>3. WebTypeOK'
  BY <1>1, <1>2 DEF WebInv, WebTypeOK
<1>4. ASSUME NEW l \in links
      PROVE  /\ Default \in Spaces
             /\ <<Default, Hash(l[2])>> \in hit' \/ store'[Default][Hash(l[2])] = l[2]
  <2>0. PICK c \in Blobs : l[2] = c
    BY DEF WebInv, WebTypeOK
  <2>1. /\ Default \in Spaces /\ Hash(c) \in Hashes
        /\ <<Default, Hash(c)>> \in hit \/ store[Default][Hash(c)] = c
    BY <2>0 DEF WebInv, LinksKept, Hashes
  <2>2. CASE s = Default /\ Hash(c) = h
    BY <1>1, <2>0, <2>1, <2>2
  <2>3. CASE ~(s = Default /\ Hash(c) = h)
    <3>1. store'[Default][Hash(c)] = store[Default][Hash(c)]
      BY <1>1, <2>1, <2>3
    <3>. QED  BY <1>1, <2>0, <2>1, <3>1
  <2>. QED  BY <2>2, <2>3
<1>. QED  BY <1>1, <1>3, <1>4 DEF LinksKept

LEMMA OthersOnTheirWay ==
    ASSUME NEW r, OnItsWay(r), res'[r] = res[r]
    PROVE  OnItsWay(r)'
BY DEF OnItsWay, RestIsLast, AtLink, AtBlob, Followed

(***************************************************************************)
(* A step of one resolution, whose effect on that resolution is in order   *)
(***************************************************************************)
LEMMA ResolutionStep ==
    ASSUME WebInv, NEW r \in Resolutions, UNCHANGED <<store, links, hit>>,
           NEW new, res' = [res EXCEPT ![r] = new],
           OnItsWay(r)'
    PROVE  WebInv'
<1>1. DOMAIN res = Resolutions
  BY DEF WebInv, WebTypeOK
<1>2. ASSUME NEW q \in Resolutions, q # r PROVE res'[q] = res[q]
  BY <1>1, <1>2
<1>3. res'[r] = new /\ DOMAIN res' = Resolutions
  BY <1>1
<1>5. WebTypeOK'
  BY <1>3 DEF WebInv, WebTypeOK
<1>6. LinksKept'
  BY DEF WebInv, LinksKept
<1>7. ASSUME NEW q \in Resolutions PROVE OnItsWay(q)'
  <2>1. CASE q # r
    BY <2>1, <1>2, OthersOnTheirWay DEF WebInv
  <2>. QED  BY <2>1
<1>. QED  BY <1>5, <1>6, <1>7 DEF WebInv

LEMMA ResolveBlobKeeps ==
    ASSUME WebInv, NEW r \in Resolutions, NEW a \in Addresses, ResolveBlob(r, a)
    PROVE  WebInv'
<1>1. r \in DOMAIN res /\ UNCHANGED <<store, links, hit>>
  BY DEF WebInv, WebTypeOK, ResolveBlob
<1>2. CASE ~HasAttributes(a)
  <2>. DEFINE new == [st |-> "panicked", address |-> a, at |-> Error, rest |-> <<>>]
  <2>1. res' = [res EXCEPT ![r] = new]
    BY <1>2 DEF ResolveBlob
  <2>2. res'[r].st = "panicked"
    BY <1>1, <2>1
  <2>3. OnItsWay(r)'
    BY <2>2 DEF OnItsWay
  <2>. QED  BY <1>1, <2>1, <2>3, ResolutionStep
<1>3. CASE HasAttributes(a)
  <2>. DEFINE new == [st |-> "link", address |-> a, at |-> a.link, rest |-> a.attrs]
  <2>1. res' = [res EXCEPT ![r] = new]
    BY <1>3 DEF ResolveBlob
  <2>2. /\ res'[r].st = "link" /\ res'[r].address = a
        /\ res'[r].at = a.link /\ res'[r].rest = a.attrs
    BY <1>1, <2>1
  <2>3. a.attrs \in Seq(ToSet(a.attrs)) /\ a.link # Error
    BY <1>3, HashWebAssumption DEF HasAttributes
  <2>4. Followed(r)' = 0
    BY <2>2, <2>3, LenProperties DEF Followed
  <2>5. Len(a.attrs) \in Nat
    BY <2>3, LenProperties
  <2>6. RestIsLast(r)'
    BY <1>3, <2>2, <2>3, <2>4, <2>5 DEF RestIsLast
  <2>7. AtLink(r)'
    <3>1. PICK w \in [1..0 -> Blobs] : IsWay(a, w, 0)
      BY NoWay
    <3>2. LinkTo(a, w, 0 + 1) = a.link
      BY DEF LinkTo
    <3>. QED  BY <2>2, <2>3, <2>4, <3>1, <3>2 DEF AtLink
  <2>8. OnItsWay(r)'
    BY <2>2, <2>6, <2>7 DEF OnItsWay
  <2>. QED  BY <1>1, <2>1, <2>8, ResolutionStep
<1>. QED  BY <1>2, <1>3

LEMMA FetchKeeps ==
    ASSUME WebInv, NEW r \in Resolutions, Fetch(r)
    PROVE  WebInv'
<1>. DEFINE old == res[r]
            blob == Resolve(old.at)
            st == IF blob = Error THEN "failed" ELSE IF old.rest = <<>> THEN "done" ELSE "blob"
            new == [st |-> st, address |-> old.address, at |-> blob, rest |-> old.rest]
<1>1. r \in DOMAIN res /\ UNCHANGED <<store, links, hit>> /\ old.st = "link"
  BY DEF WebInv, WebTypeOK, Fetch
<1>2. res' = [res EXCEPT ![r] = new]
  BY DEF Fetch
<1>3. /\ res'[r].st = st /\ res'[r].address = old.address
      /\ res'[r].at = blob /\ res'[r].rest = old.rest
  BY <1>1, <1>2
<1>4. RestIsLast(r) /\ AtLink(r)
  BY <1>1 DEF WebInv, OnItsWay
<1>5. Followed(r)' = Followed(r)
  BY <1>3 DEF Followed
<1>6. RestIsLast(r)'
  BY <1>3, <1>4, <1>5 DEF RestIsLast
<1>7. CASE blob = Error
  <2>1. OnItsWay(r)'
    BY <1>3, <1>7 DEF OnItsWay
  <2>. QED  BY <1>1, <1>2, <2>1, ResolutionStep
<1>8. CASE blob # Error
  <2>1. blob \in Blobs /\ Validate(blob, old.at)
    BY <1>8, ResolvedIsValid DEF WebInv
  <2>2. Followed(r) \in Nat
    BY <1>4 DEF RestIsLast
  <2>3. PICK way \in [1..Followed(r) -> Blobs] :
              /\ IsWay(old.address, way, Followed(r))
              /\ old.at = LinkTo(old.address, way, Followed(r) + 1)
              /\ old.at # Error
    BY <1>4 DEF AtLink
  <2>4. \E w \in [1..(Followed(r) + 1) -> Blobs] :
           IsWay(old.address, w, Followed(r) + 1) /\ blob = w[Followed(r) + 1]
    BY <2>1, <2>2, <2>3, WayExtends
  <2>5. AtBlob(r)'
    BY <1>3, <1>5, <2>4 DEF AtBlob
  <2>6. OnItsWay(r)'
    BY <1>3, <1>6, <1>8, <2>5 DEF OnItsWay
  <2>. QED  BY <1>1, <1>2, <2>6, ResolutionStep
<1>. QED  BY <1>7, <1>8

LEMMA FollowKeeps ==
    ASSUME WebInv, NEW r \in Resolutions, Follow(r)
    PROVE  WebInv'
<1>. DEFINE old == res[r]
            attrs == old.address.attrs
            k == Followed(r)
            spec == Head(old.rest)
            link == ResolveAttrLink(old.at, spec)
            new == [st |-> IF spec.path = Error THEN "panicked"
                           ELSE IF link = Error THEN "failed" ELSE "link",
                    address |-> old.address, rest |-> Tail(old.rest),
                    at |-> IF spec.path = Error THEN Error ELSE link]
<1>1. r \in DOMAIN res /\ UNCHANGED <<store, links, hit>> /\ old.st = "blob"
  BY DEF WebInv, WebTypeOK, Follow
<1>2. res' = [res EXCEPT ![r] = new]
  BY DEF Follow
<1>3. res'[r] = new
  BY <1>1, <1>2
<1>4. CASE spec.path = Error \/ link = Error
  <2>1. res'[r].st \in {"panicked", "failed"}
    BY <1>3, <1>4
  <2>2. OnItsWay(r)'
    BY <2>1 DEF OnItsWay
  <2>. QED  BY <1>1, <1>2, <2>2, ResolutionStep
<1>5. CASE spec.path # Error /\ link # Error
  <2>1. /\ res'[r].st = "link" /\ res'[r].address = old.address
        /\ res'[r].at = link /\ res'[r].rest = Tail(old.rest)
    BY <1>3, <1>5
  <2>2. RestIsLast(r) /\ AtBlob(r) /\ old.rest # <<>>
    BY <1>1 DEF WebInv, OnItsWay
  <2>3. /\ old.address \in Addresses /\ HasAttributes(old.address)
        /\ old.rest \in Seq(ToSet(attrs))
        /\ k \in Nat
    BY <2>2 DEF RestIsLast
  <2>4. ASSUME NEW j \in 1..Len(old.rest) PROVE old.rest[j] = attrs[k + j]
    BY <2>2 DEF RestIsLast
  <2>5. attrs \in Seq(ToSet(attrs)) /\ Len(attrs) \in Nat
    BY <2>3, HashWebAssumption, LenProperties DEF HasAttributes
  <2>6. /\ Len(old.rest) \in Nat /\ Len(old.rest) # 0
        /\ Tail(old.rest) \in Seq(ToSet(attrs))
        /\ Len(Tail(old.rest)) = Len(old.rest) - 1
        /\ \A j \in 1..Len(Tail(old.rest)) : Tail(old.rest)[j] = old.rest[j + 1]
    BY <2>2, <2>3, HeadTailProperties, LenProperties, EmptySeq
  <2>7. spec = attrs[k + 1]
    <3>1. spec = old.rest[1]
      BY <2>2, <2>3
    <3>. QED  BY <3>1, <2>4, <2>6
  <2>8. Followed(r)' = k + 1
    <3>1. Followed(r)' = Len(attrs) - Len(Tail(old.rest))
      BY <2>1 DEF Followed
    <3>2. k = Len(attrs) - Len(old.rest)
      BY DEF Followed
    <3>3. Len(attrs) - Len(Tail(old.rest)) = k + 1
      <4>. DEFINE m == Len(attrs)  n == Len(old.rest)
      <4>1. Len(Tail(old.rest)) = n - 1 /\ n \in Nat /\ m \in Nat /\ k = m - n
        BY <2>5, <2>6, <3>2
      <4>. HIDE DEF k, m, n
      <4>2. m - (n - 1) = k + 1
        BY <4>1
      <4>. QED  BY <4>1, <4>2 DEF m
    <3>. QED  BY <3>1, <3>3
  <2>9. ASSUME NEW j \in 1..Len(Tail(old.rest)) PROVE Tail(old.rest)[j] = attrs[(k + 1) + j]
    <3>1. j + 1 \in 1..Len(old.rest) /\ k + (j + 1) = (k + 1) + j
      <4>. HIDE DEF k, old, attrs
      <4>. QED  BY <2>3, <2>6
    <3>. QED  BY <3>1, <2>4, <2>6
  <2>10. RestIsLast(r)'
    BY <2>1, <2>3, <2>6, <2>8, <2>9 DEF RestIsLast
  <2>11. PICK way \in [1..(k + 1) -> Blobs] :
               IsWay(old.address, way, k + 1) /\ old.at = way[k + 1]
    BY <2>2 DEF AtBlob
  <2>12. link = LinkTo(old.address, way, (k + 1) + 1)
    <3>1. (k + 1) + 1 # 1 /\ ((k + 1) + 1) - 1 = k + 1
      <4>. HIDE DEF k
      <4>. QED  BY <2>3
    <3>. QED  BY <3>1, <2>7, <2>11 DEF LinkTo
  <2>13. AtLink(r)'
    BY <2>1, <2>8, <2>11, <2>12, <1>5 DEF AtLink
  <2>14. OnItsWay(r)'
    BY <2>1, <2>10, <2>13 DEF OnItsWay
  <2>. QED  BY <1>1, <1>2, <2>14, ResolutionStep
<1>. QED  BY <1>4, <1>5

LEMMA WebInvInit == WebInit => WebInv
<1>. SUFFICES ASSUME WebInit PROVE WebInv
  OBVIOUS
<1>1. WebTypeOK /\ LinksKept
  BY DEF WebInit, WebTypeOK, LinksKept
<1>2. ASSUME NEW r \in Resolutions PROVE OnItsWay(r)
  <2>1. res[r].st = "new"
    BY DEF WebInit, NoResolution
  <2>. QED  BY <2>1 DEF OnItsWay
<1>. QED  BY <1>1, <1>2 DEF WebInv

LEMMA WebInvStep == WebInv /\ [WebNext]_webVars => WebInv'
<1>. SUFFICES ASSUME WebInv, [WebNext]_webVars PROVE WebInv'
  OBVIOUS
<1>1. ASSUME res' = res PROVE \A r \in Resolutions : OnItsWay(r)'
  BY <1>1, OthersOnTheirWay DEF WebInv
<1>2. ASSUME NEW s \in Spaces, NEW b \in Blobs, Store(s, b) PROVE WebInv'
  BY <1>1, <1>2, StoreKeepsWeb DEF WebInv, Store
<1>3. ASSUME NEW s \in Spaces, NEW h \in Hashes, NEW b \in Blobs \cup {Error}, Fault(s, h, b)
      PROVE  WebInv'
  BY <1>1, <1>3, FaultKeepsWeb DEF WebInv, Fault
<1>4. ASSUME NEW r \in Resolutions, NEW a \in Addresses, ResolveBlob(r, a) PROVE WebInv'
  BY <1>4, ResolveBlobKeeps
<1>5. ASSUME NEW r \in Resolutions, Fetch(r) PROVE WebInv'
  BY <1>5, FetchKeeps
<1>6. ASSUME NEW r \in Resolutions, Follow(r) PROVE WebInv'
  BY <1>6, FollowKeeps
<1>7. CASE UNCHANGED webVars
  BY <1>1, <1>7 DEF WebInv, WebTypeOK, LinksKept, webVars
<1>. QED  BY <1>2, <1>3, <1>4, <1>5, <1>6, <1>7 DEF WebNext

LEMMA ResolvedIsMeantInv == WebInv => ResolvedIsMeant
<1>. SUFFICES ASSUME WebInv, NEW r \in Resolutions, res[r].st = "done"
              PROVE  Names(res[r].address, res[r].at)
  BY DEF ResolvedIsMeant
<1>. DEFINE attrs == res[r].address.attrs
<1>1. RestIsLast(r) /\ AtBlob(r) /\ res[r].rest = <<>>
  BY DEF WebInv, OnItsWay
<1>2. attrs \in Seq(ToSet(attrs))
  BY <1>1, HashWebAssumption DEF RestIsLast, HasAttributes
<1>3. Len(attrs) \in Nat
  BY <1>2, LenProperties
<1>4. Followed(r) = Len(attrs)
  BY <1>1, <1>3 DEF Followed
<1>. QED  BY <1>1, <1>4 DEF AtBlob, Names

(***************************************************************************)
(* The invariant of the web of blobs: the entry behind a returned link is  *)
(* in the store unless a fault hit it, and every resolution is at a link or *)
(* a blob on the way of its address, with the last pieces of it left.      *)
(***************************************************************************)
THEOREM WebInvCorrect == WebSpec => []WebInv
BY WebInvInit, WebInvStep, PTL DEF WebSpec

(***************************************************************************)
(* A link that HashWeb::store returned leads back to what was stored, with *)
(* and without a leading slash, unless the store lost the entry.           *)
(***************************************************************************)
THEOREM StoredIsFoundCorrect == WebSpec => []StoredIsFound
BY WebInvCorrect, StoredIsFoundInv, PTL

(***************************************************************************)
(* AddressResolver::resolve_blob returns a blob that its address names,    *)
(* whatever happens to the stores between its steps.                       *)
(***************************************************************************)
THEOREM ResolvedIsMeantCorrect == WebSpec => []ResolvedIsMeant
BY WebInvCorrect, ResolvedIsMeantInv, PTL

LEMMA OneNamed ==
    ASSUME NEW b \in Blobs, NEW c \in Blobs, NEW text, Validate(b, text), Validate(c, text)
    PROVE  b = c
BY DEF Validate, ValidHash, Hash

(***************************************************************************)
(* A set of natural numbers that is not empty has a smallest one.          *)
(***************************************************************************)
LEMMA Smallest ==
    ASSUME NEW T \in SUBSET Nat, T # {}
    PROVE  \E n \in T : \A m \in T : n <= m
<1>. DEFINE R == OpToRel(<, Nat)
<1>1. IsWellFoundedOn(R, Nat)
  BY NatLessThanWellFounded
<1>2. \A m, n \in Nat : <<m, n>> \in R <=> m < n
  BY DEF OpToRel
<1>3. \E n \in T : \A m \in T : ~(<<m, n>> \in R)
  <2>. HIDE DEF R
  <2>1. T \subseteq Nat
    OBVIOUS
  <2>. QED  BY <1>1, <2>1, WFMin
<1>4. PICK n \in T : \A m \in T : ~(<<m, n>> \in R)
  BY <1>3
<1>. HIDE DEF R
<1>5. ASSUME NEW m \in T PROVE n <= m
  <2>1. ~(m < n)
    BY <1>2, <1>4
  <2>. QED  BY <2>1
<1>. QED  BY <1>5

(***************************************************************************)
(* An address has one way: the first blob in which two ways differed would *)
(* be named by the same link.                                              *)
(***************************************************************************)
LEMMA OneWay ==
    ASSUME NEW a, NEW n \in Nat, NEW v, NEW w, IsWay(a, v, n), IsWay(a, w, n)
    PROVE  v = w
<1>. DEFINE T == {j \in Nat : j \in 1..n /\ v[j] # w[j]}
<1>1. ASSUME T # {} PROVE FALSE
  <2>1. PICK j \in T : \A m \in T : j <= m
    BY <1>1, Smallest
  <2>2. j \in 1..n /\ v[j] # w[j]
    OBVIOUS
  <2>3. LinkTo(a, v, j) = LinkTo(a, w, j)
    <3>1. CASE j = 1
      BY <3>1 DEF LinkTo
    <3>2. CASE j # 1
      <4>1. j - 1 \in 1..n /\ j - 1 \in Nat /\ ~(j <= j - 1)
        BY <2>2, <3>2
      <4>2. v[j - 1] = w[j - 1]
        BY <2>1, <4>1
      <4>. QED  BY <3>2, <4>2 DEF LinkTo
    <3>. QED  BY <3>1, <3>2
  <2>4. v[j] \in Blobs /\ w[j] \in Blobs /\ Validate(v[j], LinkTo(a, v, j)) /\ Validate(w[j], LinkTo(a, w, j))
    BY <2>2 DEF IsWay
  <2>. QED  BY <2>2, <2>3, <2>4, OneNamed
<1>2. ASSUME NEW j \in 1..n PROVE v[j] = w[j]
  BY <1>1
<1>. QED  BY <1>2 DEF IsWay

(***************************************************************************)
(* An address names at most one blob, so that the result of resolve_blob   *)
(* does not depend on the stores at all.                                   *)
(***************************************************************************)
THEOREM NamesOne ==
    ASSUME NEW a, Len(a.attrs) \in Nat, NEW b, NEW c, Names(a, b), Names(a, c)
    PROVE  b = c
<1>. DEFINE n == Len(a.attrs) + 1
<1>1. PICK v \in [1..n -> Blobs] : IsWay(a, v, n) /\ v[n] = b
  BY DEF Names
<1>2. PICK w \in [1..n -> Blobs] : IsWay(a, w, n) /\ w[n] = c
  BY DEF Names
<1>3. v = w
  BY <1>1, <1>2, OneWay
<1>. QED  BY <1>1, <1>2, <1>3
=============================================================================
