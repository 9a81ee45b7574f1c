------------------------------ MODULE Connecting ------------------------------
(***************************************************************************)
(* A client connects to any home of a profile (MyProfileImpl::any_home_of2 *)
(* and connect_home2, SimpleTcpHomeConnector), both ends introduce         *)
(* themselves over the new connection (handshake.rs), and the home serves  *)
(* its requests (mercury-home.rs, HomeConnectionServer::new).              *)
(*                                                                         *)
(* All homes are tried at once, and at each home all its addresses; the    *)
(* first TCP connection of a home is the one used for it, and the first    *)
(* home to answer wins.  The futures that lose are dropped, with their     *)
(* sockets.  A connection is a pair of byte streams.                       *)
(***************************************************************************)
EXTENDS Relations, Sequences, FiniteSets

CONSTANTS
    Me,         \* the client's profile
    Homes,      \* homes that the profile names
    Addrs,      \* addresses of all homes
    HomeOf,     \* whose address it is
    Usable,     \* addresses that multiaddr_to_socketaddr converts
    InfoLen,    \* length of each profile's introduction
    MaxCuts,    \* bound: connections that may be lost
    Nothing

ASSUME ConnectingAssumption ==
    /\ Homes \subseteq Nat \ {Me} /\ Me \in Nat /\ Homes # {}
    /\ MaxCuts \in Nat /\ HomeOf \in [Addrs -> Homes] /\ Usable \subseteq Addrs
    /\ InfoLen \in [Homes \cup {Me} -> Nat \ {0}]
    /\ Nothing \notin Addrs
    /\ \A h \in Homes : \E a \in Addrs : HomeOf[a] = h    \* select_ok panics without

Ends == {"client", "server"}

VARIABLES
    st,         \* the future of any_home_of2
    home,       \* the future of connect_home2, for each home
    link,       \* TCP connection to each address
    chosen,     \* the connection that each home is talked to over
    phase,      \* what each end of a connection does
    step,       \* the step of the handshake that each end is at
    pipe,       \* bytes on their way to each end
    size,       \* length announced to each end
    heard,      \* what each end read as the other's introduction
    context,    \* PeerContext of the connections that are served
    used,       \* the connection of the home that is returned
    cut         \* history: connections that were lost

dialVars == <<st, home, link, chosen, used>>
shakeVars == <<phase, step, pipe, size, heard, context>>
connectVars == <<dialVars, shakeVars, cut>>

AddrsOf(h) == {a \in Addrs : HomeOf[a] = h}
Both(x) == [e \in Ends |-> x]

ConnectInit ==
    /\ st = "new" /\ used = Nothing /\ cut = {}
    /\ home = [h \in Homes |-> "idle"]
    /\ link = [a \in Addrs |-> "idle"]
    /\ chosen = [h \in Homes |-> Nothing]
    /\ phase = [a \in Addrs |-> Both("none")]
    /\ step = [a \in Addrs |-> Both(1)]
    /\ pipe = [a \in Addrs |-> Both(<<>>)]
    /\ size = [a \in Addrs |-> Both(0)]
    /\ heard = [a \in Addrs |-> Both(<<>>)]
    /\ context = [a \in Addrs |-> Nothing]

-----------------------------------------------------------------------------
(* Dialling *)

(* select_ok: an error is the result only if it is the last one's. *)
SelectFails_First(failed, all) == failed # {}

SelectFails(failed, all) == failed = all

HomesFailed(h, new) == {g \in Homes : home[g] = "failed"} \cup (IF new THEN {h} ELSE {})

(* What the failure of home h's future, if it fails, makes of all. *)
HomeFails(h, fails) ==
    /\ home' = [home EXCEPT ![h] = IF fails THEN "failed" ELSE @]
    /\ st' = IF SelectFails(HomesFailed(h, fails), Homes) THEN "failed" ELSE st

AnyHomeOf ==
    /\ st = "new"
    /\ st' = "asked"
    /\ home' = [h \in Homes |-> "loading"]
    /\ UNCHANGED <<link, chosen, used, shakeVars, cut>>

LoadFails(h) ==
    /\ st = "asked" /\ home[h] = "loading"
    /\ HomeFails(h, TRUE)
    /\ UNCHANGED <<link, chosen, used, shakeVars, cut>>

Dial(h) ==
    LET usable == AddrsOf(h) \cap Usable IN
    /\ st = "asked" /\ home[h] = "loading"
    /\ link' = [a \in Addrs |-> IF a \in usable THEN "dialing"
                                ELSE IF a \in AddrsOf(h) THEN "failed" ELSE link[a]]
    /\ IF usable = {} THEN HomeFails(h, TRUE)
       ELSE home' = [home EXCEPT ![h] = "dialing"] /\ UNCHANGED st
    /\ UNCHANGED <<chosen, used, shakeVars, cut>>

(* The operating systems made the connection. *)
TcpOpen(a) ==
    /\ link[a] = "dialing"
    /\ link' = [link EXCEPT ![a] = "open"]
    /\ UNCHANGED <<st, home, chosen, used, shakeVars, cut>>

TcpFails(a) ==
    LET h == HomeOf[a] IN
    /\ st = "asked" /\ link[a] = "dialing"
    /\ link' = [link EXCEPT ![a] = "failed"]
    /\ HomeFails(h, SelectFails({b \in AddrsOf(h) : link'[b] = "failed"}, AddrsOf(h)))
    /\ UNCHANGED <<chosen, used, shakeVars, cut>>

(* Sockets that are dropped: closed, or the attempt is abandoned. *)
Dropped_Leak(addrs) == link

Dropped(addrs) ==
    [a \in Addrs |-> IF a \in addrs
                     THEN CASE link[a] = "open" -> "closed"
                            [] link[a] = "dialing" -> "failed"
                            [] OTHER -> link[a]
                     ELSE link[a]]

(* The first connection of a home that the client sees open is the one. *)
Choose(a) ==
    LET h == HomeOf[a] IN
    /\ st = "asked" /\ home[h] = "dialing" /\ link[a] \in {"open", "closed"}
    /\ chosen' = [chosen EXCEPT ![h] = a]
    /\ home' = [home EXCEPT ![h] = "shaking"]
    /\ link' = Dropped(AddrsOf(h) \ {a})
    /\ phase' = [phase EXCEPT ![a]["client"] = "shaking"]
    /\ UNCHANGED <<st, used, step, pipe, size, heard, context, cut>>

(* The server's listener takes it, even if the client has let go of it. *)
Incoming(a) ==
    /\ link[a] \in {"open", "closed"} /\ phase[a]["server"] = "none"
    /\ phase' = [phase EXCEPT ![a]["server"] = "shaking"]
    /\ UNCHANGED <<dialVars, step, pipe, size, heard, context, cut>>

-----------------------------------------------------------------------------
(* The handshake, the same at both ends *)

Other(e) == IF e = "client" THEN "server" ELSE "client"
Self(a, e) == IF e = "client" THEN Me ELSE HomeOf[a]

SizeUnit(n) == [kind |-> "size", n |-> n, of |-> Nothing]
InfoUnit(p) == [kind |-> "info", n |-> 0, of |-> p]
Introduction(p) == [i \in 1..InfoLen[p] |-> InfoUnit(p)]
RpcUnit == [kind |-> "rpc", n |-> 0, of |-> Nothing]

(* temp_handshake_until_tls_is_implemented *)
Order_ReadFirst == <<"readSize", "readInfo", "writeSize", "writeInfo">>

Order == <<"writeSize", "writeInfo", "readSize", "readInfo">>

(* The client's end is polled only while its future is not dropped. *)
Polled(a, e) ==
    /\ phase[a][e] = "shaking"
    /\ e = "client" => st = "asked" /\ home[HomeOf[a]] = "shaking"

At(a, e, what) ==
    /\ Polled(a, e)
    /\ step[a][e] <= Len(Order) /\ Order[step[a][e]] = what

Advance(a, e) == step' = [step EXCEPT ![a][e] = @ + 1]

Written(a, e, units) == pipe' = [pipe EXCEPT ![a][Other(e)] = @ \o units]

WriteSize(a, e) ==
    /\ At(a, e, "writeSize")
    /\ Written(a, e, <<SizeUnit(InfoLen[Self(a, e)])>>)
    /\ Advance(a, e)
    /\ UNCHANGED <<dialVars, phase, size, heard, context, cut>>

WriteInfo(a, e) ==
    /\ At(a, e, "writeInfo")
    /\ Written(a, e, Introduction(Self(a, e)))
    /\ Advance(a, e)
    /\ UNCHANGED <<dialVars, phase, size, heard, context, cut>>

ReadSize(a, e) ==
    /\ At(a, e, "readSize") /\ pipe[a][e] # <<>>
    /\ size' = [size EXCEPT ![a][e] = Head(pipe[a][e]).n]
    /\ pipe' = [pipe EXCEPT ![a][e] = Tail(@)]
    /\ Advance(a, e)
    /\ UNCHANGED <<dialVars, phase, heard, context, cut>>

(* read_exact: as many bytes as announced, and no more *)
Taken_All(a, e) == Len(pipe[a][e])

Taken(a, e) == size[a][e]

ReadInfo(a, e) ==
    /\ At(a, e, "readInfo") /\ Len(pipe[a][e]) >= size[a][e]
    /\ heard' = [heard EXCEPT ![a][e] = SubSeq(pipe[a][e], 1, Taken(a, e))]
    /\ pipe' = [pipe EXCEPT ![a][e] = SubSeq(@, Taken(a, e) + 1, Len(@))]
    /\ Advance(a, e)
    /\ UNCHANGED <<dialVars, phase, size, context, cut>>

(* from_slice accepts exactly one introduction. *)
Parses(units) ==
    /\ units # <<>> /\ units[1].kind = "info"
    /\ units = [i \in 1..InfoLen[units[1].of] |-> units[1]]

Introduced(a, e) == Polled(a, e) /\ step[a][e] > Len(Order)

PeerContext(p) == [id |-> p, key |-> Key(p)]
ValidContext(ctx) == ProfileIdOf(ctx.key) = ctx.id

(***************************************************************************)
(* The client's end is done: HomeClientCapnProto starts to use the stream, *)
(* whoever the home said it is, and the other homes are let go.            *)
(***************************************************************************)
ClientMet(a) ==
    LET h == HomeOf[a] IN
    /\ Introduced(a, "client") /\ Parses(heard[a]["client"])
    /\ phase' = [phase EXCEPT ![a]["client"] = "met"]
    /\ Written(a, "client", <<RpcUnit>>)
    /\ st' = "connected" /\ used' = a
    /\ home' = [g \in Homes |-> IF g = h THEN "ready"
                                ELSE IF home[g] = "failed" THEN "failed" ELSE "dropped"]
    /\ link' = Dropped(Addrs \ {a})
    /\ UNCHANGED <<chosen, step, size, heard, context, cut>>

(* HomeConnectionServer::new and dispatch *)
Serve(a) ==
    LET ctx == PeerContext(heard[a]["server"][1].of) IN
    /\ Introduced(a, "server") /\ Parses(heard[a]["server"])
    /\ ValidContext(ctx)
    /\ phase' = [phase EXCEPT ![a]["server"] = "met"]
    /\ context' = [context EXCEPT ![a] = ctx]
    /\ UNCHANGED <<dialVars, step, pipe, size, heard, cut>>

ServeRpc(a) ==
    /\ phase[a]["server"] = "met" /\ pipe[a]["server"] # <<>>
    /\ pipe' = [pipe EXCEPT ![a]["server"] = Tail(@)]
    /\ UNCHANGED <<dialVars, phase, step, size, heard, context, cut>>

(***************************************************************************)
(* An end gives up: it writes to or waits for a connection that is closed, *)
(* or cannot make sense of what it read.                                   *)
(***************************************************************************)
Broken(a, e) ==
    \/ /\ link[a] # "open"
       /\ \/ At(a, e, "writeSize") \/ At(a, e, "writeInfo")
          \/ At(a, e, "readSize") /\ pipe[a][e] = <<>>
          \/ At(a, e, "readInfo") /\ Len(pipe[a][e]) < size[a][e]
    \/ Introduced(a, e) /\ ~Parses(heard[a][e])

ClientGivesUp(a) ==
    /\ Broken(a, "client")
    /\ phase' = [phase EXCEPT ![a]["client"] = "ended"]
    /\ link' = Dropped({a})
    /\ HomeFails(HomeOf[a], TRUE)
    /\ UNCHANGED <<chosen, used, step, pipe, size, heard, context, cut>>

ServerGivesUp(a) ==
    /\ \/ Broken(a, "server")
       \/ phase[a]["server"] = "met" /\ link[a] # "open" /\ pipe[a]["server"] = <<>>
    /\ phase' = [phase EXCEPT ![a]["server"] = "ended"]
    /\ link' = Dropped({a})
    /\ UNCHANGED <<st, home, chosen, used, step, pipe, size, heard, context, cut>>

LoseConnection(a) ==
    /\ link[a] = "open" /\ Cardinality(cut) < MaxCuts
    /\ link' = [link EXCEPT ![a] = "closed"]
    /\ cut' = cut \cup {a}
    /\ UNCHANGED <<st, home, chosen, used, shakeVars>>

-----------------------------------------------------------------------------
Shake(a, e) == WriteSize(a, e) \/ WriteInfo(a, e) \/ ReadSize(a, e) \/ ReadInfo(a, e)

Client(a) == Choose(a) \/ Shake(a, "client") \/ ClientMet(a) \/ ClientGivesUp(a)
Server(a) == Incoming(a) \/ Shake(a, "server") \/ Serve(a) \/ ServeRpc(a) \/ ServerGivesUp(a)

ConnectNext ==
    \/ AnyHomeOf
    \/ \E h \in Homes : LoadFails(h) \/ Dial(h)
    \/ \E a \in Addrs : TcpOpen(a) \/ TcpFails(a) \/ LoseConnection(a)
    \/ \E a \in Addrs : Client(a) \/ Server(a)

ConnectSpec == ConnectInit /\ [][ConnectNext]_connectVars

(***************************************************************************)
(* Lookups and TCP attempts end, one way or the other, and the reactors of *)
(* client and server poll what can go on.                                  *)
(***************************************************************************)
Fairness ==
    /\ \A h \in Homes : WF_connectVars(LoadFails(h) \/ Dial(h))
    /\ \A a \in Addrs : WF_connectVars(TcpOpen(a) \/ TcpFails(a))
    /\ \A a \in Addrs : WF_connectVars(Client(a)) /\ WF_connectVars(Server(a))

FairSpec == ConnectSpec /\ Fairness

-----------------------------------------------------------------------------
(* Properties *)

(***************************************************************************)
(* The client sends requests while the home may still be reading its       *)
(* introduction; still the home does not break off the connection in use,  *)
(* takes it for that client's, and finds the requests where the handshake  *)
(* ended.                                                                  *)
(***************************************************************************)
UsedIsServed ==
    /\ st = "connected" /\ phase[used]["server"] = "ended" => used \in cut
    /\ \A a \in Addrs : phase[a]["server"] = "met" =>
          /\ context[a] = PeerContext(Me)
          /\ \A i \in 1..Len(pipe[a]["server"]) : pipe[a]["server"][i] = RpcUnit

(***************************************************************************)
(* A home that could be reached is not given up: any_home_of2 fails only   *)
(* if no home's profile was found or none of its addresses answered, or    *)
(* the connection over which it was talked to was lost.                    *)
(***************************************************************************)
GivesUpLast ==
    st = "failed" => \A h \in Homes :
       \/ \A a \in AddrsOf(h) : link[a] \in {"idle", "failed"}
       \/ chosen[h] \in cut

(***************************************************************************)
(* Connecting ends: in the handshake, which has no timeout, neither end    *)
(* waits for the other to speak first.                                     *)
(***************************************************************************)
ConnectEnds == st = "asked" ~> st \in {"connected", "failed"}

(***************************************************************************)
(* Of all the connections made, the servers keep only the one in use: the  *)
(* dropped ones end, wherever their handshake was.                         *)
(***************************************************************************)
OthersEnd ==
    st \in {"connected", "failed"}
       ~> \A a \in Addrs \ {used} :
             link[a] \in {"idle", "failed"} \/ phase[a]["server"] = "ended"

-----------------------------------------------------------------------------
(* What the two invariants need to be inductive *)

Phases == {"none", "shaking", "met", "ended"}
Units == [kind : {"size", "info", "rpc"}, n : Nat, of : Homes \cup {Me, Nothing}]

ConnectTypeOK ==
    /\ st \in {"new", "asked", "connected", "failed"}
    /\ home \in [Homes -> {"idle", "loading", "dialing", "shaking", "ready", "dropped", "failed"}]
    /\ link \in [Addrs -> {"idle", "dialing", "open", "closed", "failed"}]
    /\ chosen \in [Homes -> Addrs \cup {Nothing}]
    /\ phase \in [Addrs -> [Ends -> Phases]]
    /\ step \in [Addrs -> [Ends -> 1..5]]
    /\ pipe \in [Addrs -> [Ends -> Seq(Units)]]
    /\ size \in [Addrs -> [Ends -> Nat]]
    /\ heard \in [Addrs -> [Ends -> Seq(Units)]]
    /\ DOMAIN context = Addrs

(* A home is dialled after it was looked up, and chosen after it was dialled. *)
InTurn ==
    /\ st = "new" => \A h \in Homes : home[h] = "idle"
    /\ \A h \in Homes : home[h] \in {"idle", "loading"} => \A a \in AddrsOf(h) : link[a] = "idle"
    /\ \A h \in Homes : home[h] \in {"idle", "loading", "dialing"} => chosen[h] = Nothing

(* Both ends talk only over connections that were made, the client only over chosen ones. *)
OnlyOverMade ==
    /\ \A h \in Homes : chosen[h] # Nothing =>
          HomeOf[chosen[h]] = h /\ link[chosen[h]] \in {"open", "closed"}
    /\ \A a \in Addrs : phase[a]["client"] # "none" => chosen[HomeOf[a]] = a
    /\ \A a \in Addrs : phase[a]["server"] # "none" => link[a] \in {"open", "closed"}
    /\ \A a \in Addrs : phase[a]["server"] = "ended" => link[a] = "closed"
    /\ st = "connected" => used \in Addrs /\ chosen[HomeOf[used]] = used

(* Let go for another connection to the same home or to another one *)
LetGo(a) ==
    \/ chosen[HomeOf[a]] # Nothing /\ chosen[HomeOf[a]] # a
    \/ st = "connected" /\ used # a

ClosedForCause == \A a \in Addrs : link[a] = "closed" => a \in cut \/ LetGo(a)

GaveUp(h) ==
    \/ \A a \in AddrsOf(h) : link[a] \in {"idle", "failed"}
    \/ chosen[h] \in cut

FailedForCause ==
    /\ \A h \in Homes : home[h] = "failed" => GaveUp(h)
    /\ st = "failed" => \A h \in Homes : home[h] = "failed"

(* The unit that profile p is the n-th to write on a connection *)
UnitAt(p, n) ==
    IF n = 1 THEN SizeUnit(InfoLen[p]) ELSE IF n <= 1 + InfoLen[p] THEN InfoUnit(p) ELSE RpcUnit

(* Units that end e of a connection wrote, and units that it read in the handshake *)
Sent(a, e) ==
    IF phase[a][e] = "met" /\ e = "client" THEN 2 + InfoLen[Self(a, e)]
    ELSE IF step[a][e] = 1 THEN 0 ELSE IF step[a][e] = 2 THEN 1 ELSE 1 + InfoLen[Self(a, e)]

Read(a, e) ==
    IF step[a][e] <= 3 THEN 0
    ELSE IF step[a][e] = 4 THEN 1 ELSE 1 + InfoLen[Self(a, Other(e))]

(* The units that profile p wrote, after the first r of them and up to the first n *)
IsStream(units, p, r, n) ==
    /\ Len(units) = n - r
    /\ \A i \in 1..Len(units) : units[i] = UnitAt(p, r + i)

(* A pipe has what the other end wrote and this one did not read. *)
Flows(a, e) ==
    phase[a][e] \in {"none", "shaking"} =>
       IsStream(pipe[a][e], Self(a, Other(e)), Read(a, e), Sent(a, Other(e)))

Learnt(a, e) ==
    /\ step[a][e] >= 4 => size[a][e] = InfoLen[Self(a, Other(e))]
    /\ step[a][e] = 5 => heard[a][e] = Introduction(Self(a, Other(e)))
    /\ phase[a][e] = "met" => step[a][e] = 5

Served(a) ==
    phase[a]["server"] = "met" =>
       /\ step[a]["client"] >= 3
       /\ context[a] = PeerContext(Me)
       /\ \A i \in 1..Len(pipe[a]["server"]) : pipe[a]["server"][i] = RpcUnit

ShakeInv(a) == Served(a) /\ \A e \in Ends : Flows(a, e) /\ Learnt(a, e)

DialInv == InTurn /\ OnlyOverMade /\ ClosedForCause /\ FailedForCause

ConnectInv == ConnectTypeOK /\ DialInv /\ \A a \in Addrs : ShakeInv(a)
=============================================================================
