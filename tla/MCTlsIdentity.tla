---------------------------- MODULE MCTlsIdentity ----------------------------
(* Two processes, a stored identity and two to generate. *)
EXTENDS TlsIdentity

CONSTANTS old, i1, i2
=============================================================================
