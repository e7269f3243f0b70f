------------------------- MODULE MCStandardReceive -------------------------
(***************************************************************************)
(* Instances of StandardReceive: an offer of two files from one address    *)
(* and, from another, an offer of one file or one text message.            *)
(***************************************************************************)
EXTENDS StandardReceiveSessions, TLC

CONSTANTS o1, o2, m, p1, p2, f1, f2

MCSender == o1 :> p1 @@ o2 :> p2

MCOffered == o1 :> {f1, f2} @@ o2 :> {f1}

MCSenderMsg == o1 :> p1 @@ m :> p2

MCOfferedMsg == o1 :> {f1, f2} @@ m :> {f1}

(* Upload handlers are interchangeable where only safety is checked. *)
MCSymmetry == Permutations(Upload)
=============================================================================
