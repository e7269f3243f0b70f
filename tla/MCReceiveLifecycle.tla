------------------------- MODULE MCReceiveLifecycle -------------------------
(* Small instances of ReceiveLifecycle. *)
EXTENDS ReceiveLifecycle, TLC

(* Handlers and files are interchangeable where only safety is checked. *)
MCSymmetry == Permutations(File) \cup Permutations(Handler)
=============================================================================
