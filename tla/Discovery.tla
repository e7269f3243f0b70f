----------------------------- MODULE Discovery -----------------------------
(***************************************************************************)
(* A search for devices: a sweep of hosts, or the search of a send for its *)
(* target, which asks the target's address, if it was given as one, and    *)
(* then listens to multicast for as long as it takes to announce itself    *)
(* and five seconds more.                                                  *)
(*                                                                         *)
(* Sending to an alias is the "peer" mode without targets.                 *)
(***************************************************************************)
EXTENDS Naturals, Sequences, FiniteSets

CONSTANTS Host, Device, Own, Nameless, Slots,
          Interface, Wanted, Capacity, MaxHeard, None

ASSUME DeviceAssumption ==
  /\ Own \notin Device
  /\ Nameless \notin Device
  /\ None \notin Device \cup {Own, Nameless}

ASSUME WantedAssumption == Wanted \subseteq Device

ASSUME BoundAssumption ==
  /\ Slots \in Nat \ {0}
  /\ Capacity \in Nat \ {0}
  /\ MaxHeard \in Nat

VARIABLES mode, targets, bounded, asked, scheme, posted, absent, discovered,
          sweep, devices, complete,
          sockets, round, sent, heard, asking, callback, channel, found,
          registered, expected,
          search,   (* where resolve_target is                       *)
          result    (* what it returned: a device, None, or an error *)

Scan == INSTANCE HostScan
Cast == INSTANCE Multicast

scanVars == <<mode, targets, bounded, asked, scheme, posted, absent,
              discovered, sweep, devices, complete>>
castVars == <<sockets, round, sent, heard, asking, callback, channel, found,
              registered, expected>>

vars == <<scanVars, castVars, search, result>>

Init ==
  /\ Scan!Init
  /\ Cast!Init
  /\ search = "sweeping"
  /\ result = None

-----------------------------------------------------------------------------

Sweep ==
  /\ search = "sweeping"
  /\ Scan!Next
  /\ UNCHANGED <<castVars, search, result>>

(* The sweep's outcome is the caller's answer. *)
SweepReturns ==
  /\ search = "sweeping"
  /\ mode # "peer"
  /\ sweep = "over"
  /\ search' = "over"
  /\ UNCHANGED <<scanVars, castVars, result>>

(* Whatever answers at the target's address is the target. *)
ProbeAnswered ==
  /\ search = "sweeping"
  /\ mode = "peer"
  /\ sweep = "over"
  /\ discovered # <<>>
  /\ result' = Head(discovered).name
  /\ search' = "over"
  /\ UNCHANGED <<scanVars, castVars>>

FallBackToMulticast ==
  /\ search = "sweeping"
  /\ mode = "peer"
  /\ sweep = "over"
  /\ discovered = <<>>
  /\ Cast!OnDiscovered
  /\ search' = "starting"
  /\ UNCHANGED <<scanVars, result>>

StartMulticast ==
  /\ search = "starting"
  /\ \E joined \in SUBSET Interface : Cast!Start(joined)
  /\ search' = "announcing"
  /\ UNCHANGED <<scanVars, result>>

(* No socket, or no interface to join on: the command fails. *)
StartFails ==
  /\ search = "starting"
  /\ search' = "over"
  /\ result' = "error"
  /\ UNCHANGED <<scanVars, castVars>>

Announce ==
  /\ search = "announcing"
  /\ \E accepted \in SUBSET sockets : Cast!AnnounceRound(accepted)
  /\ UNCHANGED <<scanVars, search, result>>

(* One announcement that left on one interface is enough; without any the  *)
(* command fails, and its listeners go with the process.                   *)
AnnounceReturns ==
  /\ search = "announcing"
  /\ Cast!Announced
  /\ IF sent
     THEN /\ search' = "waiting"
          /\ UNCHANGED <<castVars, result>>
     ELSE /\ search' = "over"
          /\ result' = "error"
          /\ Cast!Stop
  /\ UNCHANGED scanVars

(* Something was found, or five seconds have passed. *)
EndWait ==
  /\ search = "waiting"
  /\ Cast!Stop
  /\ result' = found
  /\ search' = "over"
  /\ UNCHANGED scanVars

Listen ==
  /\ search \in {"starting", "announcing", "waiting"}
  /\ Cast!Background
  /\ UNCHANGED <<scanVars, search, result>>

-----------------------------------------------------------------------------

Resolve ==
  \/ SweepReturns
  \/ ProbeAnswered
  \/ FallBackToMulticast
  \/ StartMulticast
  \/ StartFails
  \/ Announce
  \/ AnnounceReturns
  \/ EndWait

Next == Sweep \/ Resolve \/ Listen

Spec == Init /\ [][Next]_vars

(* Requests, sleeps and announcements all end. *)
Fairness ==
  /\ WF_vars(search = "sweeping" /\ (\E h \in Host : Scan!Begin(h))
               /\ UNCHANGED <<castVars, search, result>>)
  /\ \A h \in Host :
       WF_vars(search = "sweeping" /\ Scan!Answers(h)
                 /\ UNCHANGED <<castVars, search, result>>)
  /\ WF_vars(search = "sweeping" /\ Scan!Drained
               /\ UNCHANGED <<castVars, search, result>>)
  /\ WF_vars(Resolve)

FairSpec == Spec /\ Fairness

-----------------------------------------------------------------------------

(* The variables range over what the code can store in them. *)
TypeOK ==
  /\ Scan!TypeOK
  /\ Cast!TypeOK
  /\ search \in {"sweeping", "starting", "announcing", "waiting", "over"}
  /\ result \in Device \cup {Own, Nameless, None, "error"}

(* The four that follow are stated, and explained, in HostScan and         *)
(* Multicast: a stranger is told nothing about this device.                *)
NoBlindDisclosure == Scan!NoBlindDisclosure

(* What a sweep returns is what it heard, and complete means complete. *)
OutcomeIsExact == Scan!OutcomeIsExact

(* What multicast finds has taken our registration. *)
FoundIsConfirmed == Cast!FoundIsConfirmed

(* What was looked for and passed on is not lost between the tasks. *)
NothingConfirmedIsLost == Cast!NothingConfirmedIsLost

(* A search ends, whatever the hosts and the network do: every request has *)
(* a timeout, at most five announcements are made, and the wait for a      *)
(* device is bounded.                                                      *)
SearchEnds == <>(search = "over")
=============================================================================
