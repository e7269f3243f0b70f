------------------------------ MODULE MCPinGate ------------------------------
(* Small instances of PinGate; their values are in the configurations. *)
EXTENDS PinGate
=============================================================================
