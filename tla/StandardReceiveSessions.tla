---------------------- MODULE StandardReceiveSessions ----------------------
(***************************************************************************)
(* The sessions of the standard receive path, each seen on its own: what   *)
(* the server does to the slots of one session is the lifecycle of         *)
(* ReceiveLifecycle, whose handlers are the uploads into that session.     *)
(***************************************************************************)
EXTENDS StandardReceive

In(o, u) == of[u] = o

Lifecycle(o) ==
  INSTANCE ReceiveLifecycle WITH
    Handler  <- Upload,
    phase    <- slots[o],
    at       <- [u \in Upload |-> IF ~In(o, u) THEN "idle"
                                 ELSE IF at[u] = "orphaned" THEN "lost"
                                 ELSE at[u]],
    file     <- [u \in Upload |-> IF In(o, u) THEN file[u] ELSE None],
    detached <- {u \in detached : In(o, u)},
    landed   <- {u \in landed : In(o, u)},
    recorded <- received[o],
    closed   <- o \in closed

(* Every session, installed or forgotten, runs the lifecycle of            *)
(* ReceiveLifecycle, although the callers of try_cancel_receives in        *)
(* prepare-upload ignore its answer and clear the slot all the same.       *)
ImplementsLifecycle ==
  /\ \A o \in Offer : Lifecycle(o)!Init
  /\ [][\A o \in Offer : [Lifecycle(o)!Next]_(Lifecycle(o)!vars)]_vars
=============================================================================
