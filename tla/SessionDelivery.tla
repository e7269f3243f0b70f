-------------------------- MODULE SessionDelivery --------------------------
(***************************************************************************)
(* What a receive session promises, with no slots, leases or handlers: an  *)
(* accepted file that has arrived on disk is either acknowledged, and then *)
(* never received again, or given up with its upload; and once the session *)
(* is closed nothing more arrives, and everything that did was             *)
(* acknowledged.                                                           *)
(***************************************************************************)
CONSTANT File

VARIABLES
  arrived, (* the files on disk whose upload will answer for them, or has   *)
  acked,   (* the files recorded in the session and answered with 200       *)
  closed   (* a cancellation of the session has succeeded                   *)

vars == <<arrived, acked, closed>>

Init ==
  /\ arrived = {}
  /\ acked = {}
  /\ closed = FALSE

Deliver(f) ==
  /\ ~closed
  /\ f \notin arrived
  /\ arrived' = arrived \cup {f}
  /\ UNCHANGED <<acked, closed>>

Acknowledge(f) ==
  /\ ~closed
  /\ f \in arrived \ acked
  /\ acked' = acked \cup {f}
  /\ UNCHANGED <<arrived, closed>>

(* The upload is lost before it was acknowledged; the sender may repeat it. *)
GiveUp(f) ==
  /\ ~closed
  /\ f \in arrived \ acked
  /\ arrived' = arrived \ {f}
  /\ UNCHANGED <<acked, closed>>

(* A cancellation has to wait for the file that has arrived and is not yet *)
(* acknowledged.                                                           *)
Close ==
  /\ ~closed
  /\ arrived = acked
  /\ closed' = TRUE
  /\ UNCHANGED <<arrived, acked>>

Next == Close \/ \E f \in File : Deliver(f) \/ Acknowledge(f) \/ GiveUp(f)

Spec == Init /\ [][Next]_vars
=============================================================================
