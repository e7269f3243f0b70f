-------------------------- MODULE MCAtomicFileSink --------------------------
(***************************************************************************)
(* Instances of AtomicFileSink: two receives of one wire name and one of a *)
(* name that is the first collision name of the other two.                 *)
(***************************************************************************)
EXTENDS AtomicFileSink, TLC

CONSTANTS r1, r2, r3

MCName == {"a", "a (1)", "a (1) (1)"}

(* One collision name each, so that a series can run out. *)
MCSeries ==
  LET a  == 0 :> "a" @@ 1 :> "a (1)"
      a1 == 0 :> "a (1)" @@ 1 :> "a (1) (1)"
  IN  r1 :> a @@ r2 :> a @@ r3 :> a1
=============================================================================
