---------------------------- MODULE HostedProfiles ----------------------------
(***************************************************************************)
(* The two profile stores of a Mercury home node and the requests that     *)
(* write them (home-node/src/server.rs):                                   *)
(*                                                                         *)
(*   db   HomeServer.hosted_profile_db, one file per hosted profile: it    *)
(*        survives a restart and may be left truncated (Corrupt);          *)
(*   dht  HomeServer.public_profile_dht, an in-memory map: a restart       *)
(*        empties it.                                                      *)
(*                                                                         *)
(* register() and update() are chains of futures, one store call per link. *)
(* A store call takes effect when it is issued; between two links of one   *)
(* chain the reactor may run other tasks, so every link is an action.      *)
(* unregister() issues both of its store calls in one function body and is *)
(* one action.                                                             *)
(*                                                                         *)
(* A request that fails one of register's or update's checks on its        *)
(* arguments, or whose first lookup refuses it, changes no state: such     *)
(* requests are the stuttering steps of this specification.                *)
(*                                                                         *)
(* An operator named A_Xyz, before an operator A, is A with a plausible    *)
(* mistake in it; nothing uses it but the demonstration that a property    *)
(* notices the mistake (README.md, Mutants).                               *)
(***************************************************************************)
CONSTANTS
    Profiles,    \* ids of the profiles that clients authenticate as
    Contents,    \* what a profile record may hold (own and public part alike)
    Requests,    \* slots for the register and update requests in flight
    Faults,      \* store calls that may fail with an I/O error: "get", "set", "clear"
    Serialized,  \* TRUE iff clients issue one request per profile at a time
    None,        \* no record stored, no request in the slot
    Corrupt      \* a file that was truncated and not written to its end

(* The store call a chain makes next. *)
Links == {"register_dht", "register_db", "update_dht", "update_db"}

DbLinks == {"register_db", "update_db"}

ASSUME StoreAssumption ==
    /\ Faults \subseteq {"get", "set", "clear"}
    /\ Serialized \in BOOLEAN
    /\ None \notin Contents /\ Corrupt \notin Contents /\ None # Corrupt
    /\ None \notin Profiles /\ None \notin Links

VARIABLES
    db,          \* hosted_profile_db
    dht,         \* public_profile_dht
    request,     \* the chains in flight, at the link they run next
    apart        \* history: profiles whose two records a failed or cut-short
                 \* store call or a restart may have left apart

storeVars == <<db, dht, request, apart>>

Idle == [op |-> None, profile |-> None, content |-> None]

(* The chain in slot r still has a store call to make for profile p. *)
InFlight(p) == \E r \in Requests : request[r].profile = p

Hosted(p) == db[p] \in Contents

(***************************************************************************)
(* KeyValueStore::get on the file store answers Ok only for a readable     *)
(* file; any of its callers may meet an I/O error instead.                 *)
(***************************************************************************)
GetOk(p) == Hosted(p)

GetErr(p) == ~Hosted(p) \/ "get" \in Faults

StoreInit ==
    /\ db = [p \in Profiles |-> None]
    /\ dht = [p \in Profiles |-> None]
    /\ request = [r \in Requests |-> Idle]
    /\ apart = {}

Begin(r, op, p, c) ==
    /\ request[r] = Idle
    /\ Serialized => ~InFlight(p)
    /\ request' = [request EXCEPT ![r] = [op |-> op, profile |-> p, content |-> c]]

MoveTo(r, op) == request' = [request EXCEPT ![r].op = op]

End(r) == request' = [request EXCEPT ![r] = Idle]

-----------------------------------------------------------------------------
(* HomeConnectionServer::register *)

(***************************************************************************)
(* hosted_profile_db.get: Ok ends the request with AlreadyRegistered, and  *)
(* every error, not only "not found", lets the chain go on.                *)
(***************************************************************************)
Register_AnyLookup(r, p, c) ==
    /\ Begin(r, "register_dht", p, c)
    /\ UNCHANGED <<db, dht, apart>>

Register(r, p, c) ==
    /\ GetErr(p)
    /\ Begin(r, "register_dht", p, c)
    /\ UNCHANGED <<db, dht, apart>>

(***************************************************************************)
(* public_profile_dht.set, by register or by update.  An error ends the    *)
(* chain.                                                                  *)
(***************************************************************************)
SetDht_Skipped(r, from, to) ==
    /\ request[r].op = from
    /\ MoveTo(r, to)
    /\ UNCHANGED <<db, dht, apart>>

SetDht(r, from, to) ==
    /\ request[r].op = from
    /\ \/ /\ dht' = [dht EXCEPT ![request[r].profile] = request[r].content]
          /\ MoveTo(r, to)
       \/ /\ "set" \in Faults
          /\ End(r)
          /\ UNCHANGED dht
    /\ UNCHANGED <<db, apart>>

RegisterDht(r) == SetDht(r, "register_dht", "register_db")

(***************************************************************************)
(* hosted_profile_db.set, the last link.  BlockingFileStore::set_bytes     *)
(* creates (truncates) the file and then writes it: a failed create leaves *)
(* the old record, a failed write leaves a truncated one.                  *)
(***************************************************************************)
SetDb(r, from) ==
    LET p == request[r].profile IN
    /\ request[r].op = from
    /\ \/ /\ db' = [db EXCEPT ![p] = request[r].content]
          /\ apart' = apart \ {p}
       \/ /\ "set" \in Faults
          /\ db' \in {db, [db EXCEPT ![p] = Corrupt]}
          /\ apart' = apart \cup {p}
    /\ End(r)
    /\ UNCHANGED dht

RegisterDb(r) == SetDb(r, "register_db")

-----------------------------------------------------------------------------
(* HomeSessionServer::update and ::unregister, on a session of profile p *)

Update_NoLookup(r, p, c) ==
    /\ Begin(r, "update_dht", p, c)
    /\ UNCHANGED <<db, dht, apart>>

Update(r, p, c) ==
    /\ GetOk(p)
    /\ Begin(r, "update_dht", p, c)
    /\ UNCHANGED <<db, dht, apart>>

UpdateDht(r) == SetDht(r, "update_dht", "update_db")

UpdateDb(r) == SetDb(r, "update_db")

(***************************************************************************)
(* Both clear_local calls are issued at once, the one on the file store    *)
(* first; neither waits for the other's result.  Clearing an absent record *)
(* is an error that changes nothing.                                       *)
(***************************************************************************)
UnregisterOutcome(p, dbCleared, dhtCleared) ==
    /\ (~dbCleared \/ ~dhtCleared) => "clear" \in Faults
    /\ db' = IF dbCleared THEN [db EXCEPT ![p] = None] ELSE db
    /\ dht' = IF dhtCleared THEN [dht EXCEPT ![p] = None] ELSE dht
    /\ apart' = IF dbCleared /\ dhtCleared THEN apart \ {p} ELSE apart \cup {p}

Unregister(p) ==
    /\ Serialized => ~InFlight(p)
    /\ \E dbCleared, dhtCleared \in BOOLEAN : UnregisterOutcome(p, dbCleared, dhtCleared)
    /\ UNCHANGED request

-----------------------------------------------------------------------------
(***************************************************************************)
(* The process stops and main() starts anew: the file store is what the    *)
(* disk holds, the in-memory DHT is empty, the chains in flight are gone.  *)
(* A stop inside set_bytes leaves truncated files.                         *)
(***************************************************************************)
Writing == {request[r].profile : r \in {q \in Requests : request[q].op \in DbLinks}}

Restart ==
    /\ \E torn \in SUBSET Writing :
          db' = [p \in Profiles |-> IF p \in torn THEN Corrupt ELSE db[p]]
    /\ dht' = [p \in Profiles |-> None]
    /\ request' = [r \in Requests |-> Idle]
    /\ apart' = {p \in Profiles : db'[p] # None}

-----------------------------------------------------------------------------
ChainStep ==
    \E r \in Requests :
        \/ RegisterDht(r)
        \/ RegisterDb(r)
        \/ UpdateDht(r)
        \/ UpdateDb(r)

StoreNext ==
    \/ \E r \in Requests, p \in Profiles, c \in Contents : Register(r, p, c)
    \/ \E r \in Requests, p \in Profiles, c \in Contents : Update(r, p, c)
    \/ \E p \in Profiles : Unregister(p)
    \/ ChainStep
    \/ Restart

StoreSpec == StoreInit /\ [][StoreNext]_storeVars

-----------------------------------------------------------------------------
(* Properties *)

StoreTypeOK ==
    /\ db \in [Profiles -> Contents \cup {None, Corrupt}]
    /\ dht \in [Profiles -> Contents \cup {None}]
    /\ request \in [Requests -> [op : Links, profile : Profiles, content : Contents] \cup {Idle}]
    /\ apart \in SUBSET Profiles

(***************************************************************************)
(* What everybody can look up is what the home stores: when clients issue  *)
(* one request per profile at a time, no request of p is in flight and no  *)
(* store call for p failed or was cut short since p was last written, the  *)
(* DHT record and the hosted record of p are equal, both absent included.  *)
(***************************************************************************)
StoresAgree ==
    Serialized => \A p \in Profiles : InFlight(p) \/ p \in apart \/ db[p] = dht[p]

(***************************************************************************)
(* A profile that was unregistered stays unhosted until it registers       *)
(* again: only register's last link makes a missing record appear, never   *)
(* an update that passed its lookup earlier.                               *)
(***************************************************************************)
NoResurrection ==
    [][Serialized => \A p \in Profiles :
          db[p] = None /\ db'[p] # None =>
             \E r \in Requests : request[r].op = "register_db" /\ request[r].profile = p]_storeVars

(***************************************************************************)
(* register never replaces the record of a hosted profile (the             *)
(* AlreadyRegistered check still holds when register's last link writes),  *)
(* unless the lookup itself failed.                                        *)
(***************************************************************************)
NoOverwrite ==
    [][Serialized /\ "get" \notin Faults => \A r \in Requests :
          request[r].op = "register_db" /\ db' # db => ~Hosted(request[r].profile)]_storeVars

(***************************************************************************)
(* The inductive invariant behind the three properties: a chain past its   *)
(* DHT write has its content there, an update in flight is of a hosted     *)
(* profile, a register in flight is not, and chains of one profile never   *)
(* overlap.                                                                *)
(***************************************************************************)
OneChainPerProfile ==
    \A q, r \in Requests :
        request[q] # Idle /\ request[q].profile = request[r].profile => q = r

ChainsAgree ==
    \A r \in Requests :
        LET p == request[r].profile IN
        /\ request[r].op \in DbLinks => dht[p] = request[r].content
        /\ request[r].op \in Links \ DbLinks => p \in apart \/ db[p] = dht[p]

UpdatesHosted ==
    \A r \in Requests :
        request[r].op \in {"update_dht", "update_db"} => db[request[r].profile] # None

RegistersUnhosted ==
    \A r \in Requests :
        request[r].op \in {"register_dht", "register_db"} => ~Hosted(request[r].profile)

StoreInv ==
    /\ StoreTypeOK
    /\ Serialized =>
          /\ OneChainPerProfile
          /\ ChainsAgree
          /\ StoresAgree
          /\ UpdatesHosted
          /\ "get" \notin Faults => RegistersUnhosted
=============================================================================
