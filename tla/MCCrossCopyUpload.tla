-------------------------- MODULE MCCrossCopyUpload --------------------------
(* Two protected prepares from two addresses, and their uploads. *)
EXTENDS CrossCopyUpload, TLC

CONSTANTS r1, r2, p1, p2

MCOrigin == r1 :> p1 @@ r2 :> p2
=============================================================================
