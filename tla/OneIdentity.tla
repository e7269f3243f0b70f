----------------------------- MODULE OneIdentity -----------------------------
(***************************************************************************)
(* What the identity store promises to the devices that pin a fingerprint: *)
(* there is one identity, set once, and everyone who asks is told it.      *)
(***************************************************************************)
CONSTANTS Identity, None

VARIABLES
  identity,  (* the usable pair in the store, or None *)
  told       (* the identities callers were given     *)

Init ==
  /\ identity \in Identity \cup {None}
  /\ told = {}

Establish ==
  /\ identity = None
  /\ identity' \in Identity
  /\ UNCHANGED told

Tell ==
  /\ identity # None
  /\ told' = told \cup {identity}
  /\ UNCHANGED identity

Spec == Init /\ [][Establish \/ Tell]_<<identity, told>>
=============================================================================
