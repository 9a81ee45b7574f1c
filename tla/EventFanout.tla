----------------------------- MODULE EventFanout -----------------------------
(***************************************************************************)
(* The client side of a session, MyHomeSessionImpl                         *)
(* (connect/src/profile.rs): one spawned task reads the profile events of  *)
(* the home and forwards each to all listeners, dApps and the profile's    *)
(* own handler of pairing responses among them.                            *)
(*                                                                         *)
(* For every event the task takes the Vec of listeners, leaving an empty   *)
(* one, sends the event to each of them and waits until all of these sends *)
(* succeeded or failed (collect_results); then it puts the successful      *)
(* listeners back beside those that were added meanwhile.                  *)
(***************************************************************************)
EXTENDS Naturals, Sequences

CONSTANTS
    Listeners,   \* streams obtained with MyHomeSession::events()
    MaxEvents,   \* bound: events that the home sends
    Capacity     \* CHANNEL_CAPACITY

ASSUME FanoutAssumption == MaxEvents \in Nat /\ Capacity \in Nat

VARIABLES
    session,     \* "live" until the MyHomeSessionImpl is dropped
    task,        \* "running" until the forwarding task stops
    arrived,     \* number of events the task took from the home's stream
    list,        \* event_listeners
    sending,     \* listeners whose send of the current event is pending,
    sent,        \* succeeded,
    failed,      \* or failed
    receiver,    \* each listener's stream: "none", "open", or "dropped"
    queue,       \* events in each listener's channel
    parked,      \* listeners whose sender is parked
    since,       \* history: events that arrived before a listener was added
    got          \* history: events each listener read

taskVars == <<task, arrived, list, sending, sent, failed>>
chanVars == <<receiver, queue, parked>>
vars == <<session, taskVars, chanVars, since, got>>

Init ==
    /\ session = "live" /\ task = "running" /\ arrived = 0
    /\ list = {} /\ sending = {} /\ sent = {} /\ failed = {}
    /\ receiver = [l \in Listeners |-> "none"]
    /\ queue = [l \in Listeners |-> <<>>]
    /\ parked = {}
    /\ since = [l \in Listeners |-> 0]
    /\ got = [l \in Listeners |-> <<>>]

Forwarding == sending \cup sent \cup failed # {}

(* MyHomeSession::events *)
AddListener(l) ==
    /\ session = "live" /\ receiver[l] = "none"
    /\ receiver' = [receiver EXCEPT ![l] = "open"]
    /\ list' = list \cup {l}
    /\ since' = [since EXCEPT ![l] = arrived]
    /\ UNCHANGED <<session, task, arrived, sending, sent, failed, queue, parked, got>>

(***************************************************************************)
(* forward_event_safe with Ok(event): event_listeners.replace(Vec::new()). *)
(* for_each takes the next event only when this one is forwarded.          *)
(***************************************************************************)
Ready_Always == TRUE

Ready == ~Forwarding

TakeEvent ==
    /\ task = "running" /\ session = "live" /\ Ready
    /\ arrived < MaxEvents
    /\ arrived' = arrived + 1
    /\ sending' = list
    /\ list' = {}
    /\ UNCHANGED <<session, task, sent, failed, chanVars, since, got>>

(***************************************************************************)
(* The home sent an error, its stream ended, or there is no session to     *)
(* upgrade to any more when the next event comes.                          *)
(***************************************************************************)
StopTask ==
    /\ task = "running" /\ ~Forwarding
    /\ task' = "stopped"
    /\ UNCHANGED <<session, arrived, list, sending, sent, failed, chanVars, since, got>>

(***************************************************************************)
(* forward_event: the listener's own sender is used, so a full channel     *)
(* makes the send wait; a dropped receiver makes it fail.                  *)
(***************************************************************************)
HasRoom(l) == l \notin parked

CurrentEvent == arrived

SendTo(l) ==
    /\ l \in sending
    /\ sending' = sending \ {l}
    /\ \/ /\ receiver[l] = "open" /\ HasRoom(l)
          /\ queue' = [queue EXCEPT ![l] = Append(@, CurrentEvent)]
          /\ parked' = IF Len(queue[l]) >= Capacity THEN parked \cup {l} ELSE parked
          /\ sent' = sent \cup {l}
          /\ UNCHANGED failed
       \/ /\ receiver[l] = "dropped"
          /\ failed' = failed \cup {l}
          /\ UNCHANGED <<queue, parked, sent>>
    /\ UNCHANGED <<session, task, arrived, list, receiver, since, got>>

(***************************************************************************)
(* listeners.extend(successful_listeners).  If the session was dropped     *)
(* meanwhile, the Vec is dropped at once.  Since version 0.1.24 of the     *)
(* futures crate a send that filled the channel completes only when there  *)
(* is room again; before, at once.  This allows either.                    *)
(***************************************************************************)
PutBack_Assigns == list' = IF session = "live" THEN sent ELSE {}

PutBack == list' = IF session = "live" THEN list \cup sent ELSE {}

FinishEvent ==
    /\ Forwarding /\ sending = {}
    /\ PutBack
    /\ sent' = {} /\ failed' = {}
    /\ UNCHANGED <<session, task, arrived, sending, chanVars, since, got>>

(* The owner of the stream reads an event; its sender may send again. *)
Unpark_Never(l) == UNCHANGED parked

Unpark(l) == parked' = parked \ {l}

Read(l) ==
    /\ queue[l] # <<>>
    /\ got' = [got EXCEPT ![l] = Append(@, Head(queue[l]))]
    /\ queue' = [queue EXCEPT ![l] = Tail(@)]
    /\ Unpark(l)
    /\ UNCHANGED <<session, taskVars, receiver, since>>

DropListener(l) ==
    /\ receiver[l] = "open"
    /\ receiver' = [receiver EXCEPT ![l] = "dropped"]
    /\ queue' = [queue EXCEPT ![l] = <<>>]
    /\ parked' = parked \ {l}
    /\ UNCHANGED <<session, taskVars, since, got>>

DropSession ==
    /\ session = "live"
    /\ session' = "dropped"
    /\ list' = IF Forwarding THEN list ELSE {}
    /\ UNCHANGED <<task, arrived, sending, sent, failed, chanVars, since, got>>

Next ==
    \/ TakeEvent
    \/ StopTask
    \/ FinishEvent
    \/ DropSession
    \/ \E l \in Listeners :
          \/ AddListener(l)
          \/ SendTo(l)
          \/ Read(l)
          \/ DropListener(l)

Spec == Init /\ [][Next]_vars

(***************************************************************************)
(* The reactor polls the task whenever a send may go on, and whoever keeps *)
(* a stream reads it (start_event_handler does, with a for_each that never *)
(* waits).  The task is polled for certain when no send of it is parked.   *)
(***************************************************************************)
Fairness ==
    /\ WF_vars(sent \cap parked = {} /\ FinishEvent)
    /\ \A l \in Listeners : WF_vars(SendTo(l)) /\ WF_vars(Read(l))

FairSpec == Spec /\ Fairness

-----------------------------------------------------------------------------
(* Properties *)

TypeOK ==
    /\ session \in {"live", "dropped"} /\ task \in {"running", "stopped"}
    /\ arrived \in 0..MaxEvents
    /\ list \in SUBSET Listeners
    /\ sending \in SUBSET Listeners /\ sent \in SUBSET Listeners /\ failed \in SUBSET Listeners
    /\ receiver \in [Listeners -> {"none", "open", "dropped"}]
    /\ queue \in [Listeners -> Seq(1..MaxEvents)]
    /\ parked \in SUBSET Listeners
    /\ since \in [Listeners -> 0..MaxEvents]
    /\ got \in [Listeners -> Seq(1..MaxEvents)]

(***************************************************************************)
(* A listener misses nothing and gets nothing twice: what it read, from    *)
(* the first event after it was added, are the events in the order the     *)
(* home sent them, also if it was added while an event was being forwarded *)
(* or if others were dropped or slow.                                      *)
(***************************************************************************)
NothingMissed ==
    \A l \in Listeners : \A n \in DOMAIN got[l] : got[l][n] = since[l] + n

(***************************************************************************)
(* A live session never forgets a listener that did not drop its stream.   *)
(***************************************************************************)
ListenersKept ==
    session = "live" =>
        \A l \in Listeners : receiver[l] = "open" => l \in list \cup sending \cup sent

(***************************************************************************)
(* Every event that arrived gets to every listener that was added before,  *)
(* unless that listener drops its stream.                                  *)
(***************************************************************************)
AllInformed ==
    \A l \in Listeners, n \in 1..MaxEvents :
        (receiver[l] = "open" /\ since[l] < n /\ n <= arrived)
            ~> (receiver[l] = "dropped" \/ Len(got[l]) >= n - since[l])

-----------------------------------------------------------------------------
(***************************************************************************)
(* The inductive invariant: a listener is in one of the sets, its channel  *)
(* goes on where it stopped to read, and has all events that arrived but   *)
(* the one whose send is pending.                                          *)
(***************************************************************************)
InOnePlace ==
    /\ list \cap sending = {} /\ list \cap sent = {} /\ sending \cap sent = {}
    /\ sending # {} => arrived > 0
    /\ \A l \in list \cup sending \cup sent : receiver[l] # "none"

QueueFollows ==
    \A l \in Listeners :
       /\ \A n \in DOMAIN queue[l] : queue[l][n] = since[l] + Len(got[l]) + n
       /\ receiver[l] = "none" => queue[l] = <<>> /\ got[l] = <<>>

UpToDate ==
    \A l \in Listeners : receiver[l] = "open" =>
       /\ l \in list \cup sent => since[l] + Len(got[l]) + Len(queue[l]) = arrived
       /\ l \in sending => since[l] + Len(got[l]) + Len(queue[l]) = arrived - 1

FanoutInv == TypeOK /\ InOnePlace /\ QueueFollows /\ UpToDate /\ NothingMissed /\ ListenersKept
=============================================================================
