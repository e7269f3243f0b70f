-------------------------- MODULE ReceiveLifecycle --------------------------
(***************************************************************************)
(* The lifecycle of the files of one receive session (core/session.rs) as  *)
(* the upload handlers of server/handlers.rs drive it: any number of       *)
(* concurrent and repeated uploads claim, publish, fail, and are dropped,  *)
(* while the session is cancelled from outside.                            *)
(*                                                                         *)
(* A handler whose client disconnects is dropped at the await it is parked *)
(* on.  A drop while it holds a lease is an ordinary failed upload.  A     *)
(* drop while it holds the publication permit happens inside               *)
(* PendingReceive::commit or at the lock that follows it: the upload is    *)
(* lost.  The rename that commit had already handed to the blocking pool   *)
(* still runs.                                                             *)
(***************************************************************************)
EXTENDS ReceiveSlots

CONSTANTS
  File,                  (* the files of the session                        *)
  Handler,               (* upload requests; each runs once                 *)
  None                   (* no file                                         *)

ASSUME NoneIsNoFile == None \notin File

VARIABLES
  phase,      (* the slot of every file                                     *)
  at,         (* where every upload handler is                              *)
  file,       (* the file a handler claimed                                 *)
  detached,   (* dropped handlers whose rename is still in the blocking pool *)
  landed,     (* handlers whose rename has happened                         *)
  recorded,   (* Session::received                                          *)
  closed      (* some try_cancel_receives has answered true                 *)

vars == <<phase, at, file, detached, landed, recorded, closed>>

(* Where a handler is: writing the body with a lease, committing with a    *)
(* permit, past the commit and waiting for the server lock, finished, or   *)
(* lost: gone from either of these two places without an answer.           *)
Place == {"idle", "body", "commit", "landed", "done", "lost"}

Init ==
  /\ phase = [f \in File |-> Ready]
  /\ at = [h \in Handler |-> "idle"]
  /\ file = [h \in Handler |-> None]
  /\ detached = {}
  /\ landed = {}
  /\ recorded = {}
  /\ closed = FALSE

Moves(h, from, to) ==
  /\ at[h] = from
  /\ at' = [at EXCEPT ![h] = to]

-----------------------------------------------------------------------------

BeginReceive(h, f) ==
  /\ Claimable(phase, f)
  /\ Moves(h, "idle", "body")
  /\ phase' = Claim(phase, f)
  /\ file' = [file EXCEPT ![h] = f]
  /\ UNCHANGED <<detached, landed, recorded, closed>>

(* The body failed, was too short, did not match its hash, was cancelled,  *)
(* lost the race in begin_publication, or its client went away.            *)
FailReceive(h) ==
  /\ Moves(h, "body", "done")
  /\ phase' = DropLease(phase, file[h])
  /\ UNCHANGED <<file, detached, landed, recorded, closed>>

BeginPublication(h) ==
  /\ Moves(h, "body", "commit")
  /\ Publishable(phase, file[h])
  /\ phase' = Publish(phase, file[h])
  /\ UNCHANGED <<file, detached, landed, recorded, closed>>

(* The rename inside PendingReceive::commit. *)
Land(h) ==
  /\ Moves(h, "commit", "landed")
  /\ landed' = landed \cup {h}
  /\ UNCHANGED <<phase, file, detached, recorded, closed>>

(* commit reports an error: nothing landed, and the permit is dropped. *)
FailCommit(h) ==
  /\ Moves(h, "commit", "done")
  /\ phase' = DropPermit(phase, file[h])
  /\ UNCHANGED <<file, detached, landed, recorded, closed>>

(* mark_received, then StandardPublicationPermit::finish, under the server *)
(* lock.                                                                   *)
Record(h) ==
  /\ Moves(h, "landed", "done")
  /\ recorded' = recorded \cup {file[h]}
  /\ phase' = FinishPublication(phase, file[h])
  /\ UNCHANGED <<file, detached, landed, closed>>

(* The handler is past the commit and loses its permit without recording   *)
(* the file: dropped at the lock, or the session is no longer installed.   *)
AbandonLanded(h) ==
  /\ Moves(h, "landed", "lost")
  /\ phase' = DropPermit(phase, file[h])
  /\ UNCHANGED <<file, detached, landed, recorded, closed>>

(* The handler is dropped inside commit with the rename under way. *)
DropInCommit(h) ==
  /\ Moves(h, "commit", "lost")
  /\ phase' = DropPermit(phase, file[h])
  /\ detached' = detached \cup {h}
  /\ UNCHANGED <<file, landed, recorded, closed>>

LandDetached(h) ==
  /\ h \in detached
  /\ detached' = detached \ {h}
  /\ landed' = landed \cup {h}
  /\ UNCHANGED <<phase, at, file, recorded, closed>>

(* try_cancel_receives by /cancel, the sweep, a replacing offer or stop.   *)
(* When a slot is Publishing it answers false and changes nothing.         *)
TryCancelReceives ==
  /\ Cancellable(phase)
  /\ phase' = CancelAll(phase)
  /\ closed' = TRUE
  /\ UNCHANGED <<at, file, detached, landed, recorded>>

Step(h) ==
  \/ \E f \in File : BeginReceive(h, f)
  \/ FailReceive(h)
  \/ BeginPublication(h)
  \/ Land(h)
  \/ FailCommit(h)
  \/ Record(h)
  \/ AbandonLanded(h)
  \/ DropInCommit(h)
  \/ LandDetached(h)

Next == TryCancelReceives \/ \E h \in Handler : Step(h)

Spec == Init /\ [][Next]_vars

-----------------------------------------------------------------------------

Holds(h) == at[h] \in {"body", "commit", "landed"}

(* The variables range over what the code can store in them. *)
TypeOK ==
  /\ phase \in [File -> Phase]
  /\ at \in [Handler -> Place]
  /\ file \in [Handler -> File \cup {None}]
  /\ detached \subseteq Handler
  /\ landed \subseteq Handler
  /\ recorded \subseteq File
  /\ closed \in BOOLEAN

(* Two handlers never own the same file at once, whether by lease or by    *)
(* permit, through every failure, drop and retry: begin_receive "claims    *)
(* the one receive body allowed for a file id".                            *)
OneOwnerPerFile ==
  \A g, h \in Handler :
    (Holds(g) /\ Holds(h) /\ file[g] = file[h]) => g = h

(* A file the session recorded is on disk and can never be received again: *)
(* a replayed upload of it finds no Ready slot, whatever else was dropped  *)
(* or cancelled.                                                           *)
RecordedIsFinal ==
  \A f \in recorded :
    /\ phase[f] = Published
    /\ \E h \in landed : file[h] = f
    /\ \A h \in Handler : file[h] = f => ~Holds(h)

(* After a cancellation has answered true nothing of the session lands but *)
(* the renames that outlived their uploads: the permit "holds the          *)
(* cancellation/publication linearization point until the file has landed  *)
(* on disk" (StandardPublicationPermit).                                   *)
CancellationIsFinal ==
  [][closed => \A h \in landed' \ landed : at[h] = "lost"]_vars

(* Of the uploads that were not lost at most one lands a file, however     *)
(* often it is repeated, before and after others were lost.                *)
LandsOnce ==
  \A g, h \in landed :
    (file[g] = file[h] /\ at[g] # "lost" /\ at[h] # "lost") => g = h

(* The lifecycle implements what a session promises. *)
Delivery == INSTANCE SessionDelivery WITH
              arrived <- {file[h] : h \in {g \in landed : at[g] # "lost"}},
              acked   <- recorded

ImplementsDelivery == Delivery!Spec
=============================================================================
