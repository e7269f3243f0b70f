---------------------------- MODULE OwnerCustody ----------------------------
(***************************************************************************)
(* What the server promises a host about the upload owners it takes from   *)
(* the host's gate: each is handed over once, is used for at most one      *)
(* transfer, comes to one end, and no transfer begins once the server is   *)
(* stopping.                                                               *)
(***************************************************************************)
CONSTANT Request

VARIABLES
  custody,  (* where the owner for a prepare request is                     *)
  closing   (* the server is stopping                                       *)

vars == <<custody, closing>>

Init ==
  /\ custody = [r \in Request |-> "gate"]
  /\ closing = FALSE

Passes(r, source, target) ==
  /\ custody[r] = source
  /\ custody' = [custody EXCEPT ![r] = target]

(* The gate gives the owner away for good. *)
Take(r) == Passes(r, "gate", "server") /\ UNCHANGED closing

(* receive consumes it. *)
Transfer(r) == ~closing /\ Passes(r, "server", "transfer") /\ UNCHANGED closing

(* receive returned, cancel was called, or the owner was dropped. *)
End(r) ==
  /\ Passes(r, "server", "over") \/ Passes(r, "transfer", "over")
  /\ UNCHANGED closing

(* Stopping leaves every owner where it is. *)
Close == ~closing /\ closing' = TRUE /\ UNCHANGED custody

Next == Close \/ \E r \in Request : Take(r) \/ Transfer(r) \/ End(r)

Spec == Init /\ [][Next]_vars
=============================================================================
