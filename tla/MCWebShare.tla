----------------------------- MODULE MCWebShare -----------------------------
(* A share of two files that asks, and one of one file that does not. *)
EXTENDS WebShare, TLC

CONSTANTS s1, s2, f1, f2

MCFiles == s1 :> {f1, f2} @@ s2 :> {f2}
=============================================================================
