----------------------------- MODULE Multicast -----------------------------
(***************************************************************************)
(* Multicast discovery from on_discovered() to stop(): a listener per      *)
(* interface, a task per announcement heard that registers with the device *)
(* over HTTP and passes it on only if that succeeds, a broadcast channel,  *)
(* and the task that runs the caller's callback.                           *)
(*                                                                         *)
(* The network is modelled by what a listener hears: an announcement can   *)
(* be lost, repeated, heard on several interfaces, and heard late.  The    *)
(* callback is the one of a send that looks for its target.                *)
(*                                                                         *)
(* registered and expected are not in the code: the devices whose          *)
(* registration succeeded, and those among them that were passed on to a   *)
(* listening callback.                                                     *)
(***************************************************************************)
EXTENDS Naturals, Sequences, FiniteSets

CONSTANTS
  Interface,   (* interfaces that can be joined                     *)
  Device,      (* fingerprints of other devices                     *)
  Own,         (* the fingerprint of this one                       *)
  Wanted,      (* devices that match the target's alias or address  *)
  Capacity,    (* what the broadcast channel holds                  *)
  MaxHeard,    (* bound on announcements heard                      *)
  None         (* no device                                         *)

Rounds == 3      (* announcements sent in any case              *)
MaxRounds == 5   (* with the two that follow if all of them fail *)

VARIABLES
  sockets,     (* interfaces that are listened on; {} when stopped      *)
  round, sent, (* announcements made, and whether one left this machine *)
  heard,       (* announcements heard                                   *)
  asking,      (* confirmation tasks under way, per device              *)
  callback,    (* the task that runs the callback                       *)
  channel,     (* what waits for it                                     *)
  found,       (* what the callback has stored                          *)
  registered, expected

announcing == <<round, sent>>
listening == <<heard, asking>>
delivery == <<callback, channel, found>>
history == <<registered, expected>>

castVars == <<sockets, announcing, listening, delivery, history>>

Init ==
  /\ sockets = {}
  /\ round = 0
  /\ sent = FALSE
  /\ heard = 0
  /\ asking = [d \in Device \cup {Own} |-> 0]
  /\ callback = "none"
  /\ channel = <<>>
  /\ found = None
  /\ registered = {}
  /\ expected = {}

-----------------------------------------------------------------------------

(* on_discovered: the task is spawned; it subscribes when it first runs. *)
OnDiscovered ==
  /\ callback = "none"
  /\ callback' = "spawned"
  /\ UNCHANGED <<sockets, announcing, listening, channel, found, history>>

Subscribe ==
  /\ callback = "spawned"
  /\ callback' = "subscribed"
  /\ UNCHANGED <<sockets, announcing, listening, channel, found, history>>

(* start, on the interfaces the selection leaves: at least one. *)
Start(joined) ==
  /\ sockets = {}
  /\ joined # {}
  /\ sockets' = joined
  /\ UNCHANGED <<announcing, listening, delivery, history>>

(* One round of announce_presence: accepted of the sockets take it. *)
AnnounceRound(accepted) ==
  /\ sockets # {}
  /\ round < Rounds \/ (round < MaxRounds /\ ~sent)
  /\ round' = round + 1
  /\ sent' = IF accepted # {} THEN TRUE ELSE sent
  /\ UNCHANGED <<sockets, listening, delivery, history>>

Announced == round >= Rounds /\ (sent \/ round = MaxRounds)

(* stop.  A listener goes on for up to a second, until it next looks at    *)
(* running; what it hears then is left out, for the search reads its       *)
(* result right after this call.                                           *)
Stop ==
  /\ sockets' = {}
  /\ UNCHANGED <<announcing, listening, delivery, history>>

-----------------------------------------------------------------------------
(* The listeners and their confirmation tasks. *)

(* Mutant: this machine's own announcement is followed up too. *)
HearAnyone(i, d) ==
  /\ i \in sockets
  /\ heard < MaxHeard
  /\ heard' = heard + 1
  /\ asking' = [asking EXCEPT ![d] = @ + 1]
  /\ UNCHANGED <<sockets, announcing, delivery, history>>

(* Our own announcements come back and are dropped. *)
Hear(i, d) ==
  /\ i \in sockets
  /\ d # Own
  /\ heard < MaxHeard
  /\ heard' = heard + 1
  /\ asking' = [asking EXCEPT ![d] = @ + 1]
  /\ UNCHANGED <<sockets, announcing, delivery, history>>

Asked(d) ==
  /\ asking[d] > 0
  /\ asking' = [asking EXCEPT ![d] = @ - 1]

(* tx.send: whoever has not subscribed yet misses it, and a subscriber     *)
(* that has fallen behind by more than the channel holds gets an error     *)
(* next, at which its loop ends for good.                                  *)
PassOn(d) ==
  /\ expected' = IF callback = "subscribed" THEN expected \cup {d}
                                            ELSE expected
  /\ IF callback # "subscribed" THEN UNCHANGED <<callback, channel>>
     ELSE IF Len(channel) < Capacity
     THEN channel' = Append(channel, d) /\ UNCHANGED callback
     ELSE channel' = <<>> /\ callback' = "lagged"

(* respond_to_announcement: the device took our registration. *)
Confirm(d) ==
  /\ Asked(d)
  /\ registered' = registered \cup {d}
  /\ PassOn(d)
  /\ UNCHANGED <<sockets, announcing, heard, found>>

(* It did not answer, or not with the certificate it had announced. *)
Ignore(d) ==
  /\ Asked(d)
  /\ UNCHANGED <<sockets, announcing, heard, delivery, history>>

(* Mutant: the last match is kept, and anything else undoes it. *)
DeliverLast ==
  /\ callback = "subscribed"
  /\ channel # <<>>
  /\ channel' = Tail(channel)
  /\ found' = IF Head(channel) \in Wanted THEN Head(channel) ELSE None
  /\ UNCHANGED <<sockets, announcing, listening, callback, history>>

(* The callback: the first device that matches is kept. *)
Deliver ==
  /\ callback = "subscribed"
  /\ channel # <<>>
  /\ channel' = Tail(channel)
  /\ found' = IF found = None /\ Head(channel) \in Wanted
              THEN Head(channel) ELSE found
  /\ UNCHANGED <<sockets, announcing, listening, callback, history>>

-----------------------------------------------------------------------------

Background ==
  \/ Subscribe
  \/ Deliver
  \/ \E d \in Device \cup {Own} :
       \/ \E i \in Interface : Hear(i, d)
       \/ Confirm(d)
       \/ Ignore(d)

-----------------------------------------------------------------------------

(* The variables range over what the code can store in them. *)
TypeOK ==
  /\ sockets \subseteq Interface
  /\ round \in 0 .. MaxRounds
  /\ sent \in BOOLEAN
  /\ heard \in 0 .. MaxHeard
  /\ asking \in [Device \cup {Own} -> Nat]
  /\ callback \in {"none", "spawned", "subscribed", "lagged"}
  /\ channel \in Seq(Device \cup {Own})
  /\ found \in Wanted \cup {None}
  /\ registered \subseteq Device \cup {Own}
  /\ expected \subseteq Device \cup {Own}

(* An announcement proves nothing: a device comes out of discovery only    *)
(* after it has taken our registration, and never if it is this one.       *)
FoundIsConfirmed ==
  /\ found # None => found \in registered
  /\ \A k \in DOMAIN channel : channel[k] \in registered
  /\ Own \notin registered

(* A device that was looked for and passed on is not lost between the      *)
(* tasks: it has been found, it waits in the channel, or the callback fell *)
(* behind the channel and is gone.                                         *)
NothingConfirmedIsLost ==
  \A d \in expected \cap Wanted :
    \/ found # None
    \/ \E k \in DOMAIN channel : channel[k] = d
    \/ callback = "lagged"
=============================================================================
