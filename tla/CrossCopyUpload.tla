--------------------------- MODULE CrossCopyUpload ---------------------------
(***************************************************************************)
(* The CrossCopy-authorized upload of the server, from start to stop.  The *)
(* host's gate gives a prepare request a one-shot owner, the server        *)
(* installs it as the one protected session, an upload moves it into       *)
(* receive, and a cancel, the sweep or stop ends it before that.           *)
(*                                                                         *)
(* One action is one critical section of the server lock, or the return of *)
(* a call to the host between two of them.  The standard session slot,     *)
(* which stop, sweep and cancel look at too, is its holder's address and   *)
(* whether a file of it is being published.                                *)
(*                                                                         *)
(* Three variables are not in the code: signalled are the requests whose   *)
(* cancellation token was cancelled, overwritten those whose record in     *)
(* active was replaced by another upload, and disconnected those of whose  *)
(* handlers one was dropped with its connection.                           *)
(***************************************************************************)
CONSTANTS
  Request,     (* protected prepare requests; each has one handler          *)
  Upload,      (* upload requests; each has one handler                     *)
  Peer,        (* sender addresses                                          *)
  Origin,      (* the address a request comes from                          *)
  None         (* no request, no address                                    *)

ASSUME OriginAssumption == Origin \in [Request -> Peer]

ASSUME NoneAssumption == None \notin Request \cup Peer

VARIABLES
  session,     (* crosscopy_authorized_session: its request, or None        *)
  aged,        (* the session was created 300 seconds ago                   *)
  active,      (* crosscopy_authorized_active_upload: its request, or None  *)
  stopping,    (* crosscopy_authorized_stopping                             *)
  from,        (* current_session_from                                      *)
  standard,    (* the standard slot: free, held, or publishing              *)
  prep,        (* where the handler of a prepare request is                 *)
  owner,       (* what has become of the owner for a request                *)
  by,          (* who awaits the cancel of an owner                         *)
  at,          (* where an upload handler is                                *)
  of,          (* the request whose owner it moved into receive             *)
  sweep,       (* the sweep task: ticking, cancelling an owner, or gone     *)
  stop,        (* where the host's call of stop is                          *)
  filed,       (* requests with FileReceived sent                           *)
  done,        (* requests with SessionDone sent                            *)
  signalled, overwritten, disconnected

stateVars == <<session, aged, active, stopping>>
standardVars == <<from, standard>>
ownerVars == <<prep, owner, by>>
uploadVars == <<at, of, filed, done>>
taskVars == <<sweep, stop>>
historyVars == <<signalled, overwritten, disconnected>>

vars == <<stateVars, standardVars, ownerVars, uploadVars, taskVars,
          historyVars>>

Fate ==
  {"gate", "held", "installed", "cancelling", "receiving",
   "received", "failed", "cancelled", "dropped"}

Over == {"received", "failed", "cancelled", "dropped"}

(* start: the state is new, the listener and the sweep run. *)
Init ==
  /\ session = None
  /\ aged = FALSE
  /\ active = None
  /\ stopping = FALSE
  /\ from = None
  /\ standard = "free"
  /\ prep = [r \in Request |-> "new"]
  /\ owner = [r \in Request |-> "gate"]
  /\ by = [r \in Request |-> "nobody"]
  /\ at = [u \in Upload |-> "idle"]
  /\ of = [u \in Upload |-> None]
  /\ sweep = "ticking"
  /\ stop = "running"
  /\ filed = {}
  /\ done = {}
  /\ signalled = {}
  /\ overwritten = {}
  /\ disconnected = {}

Becomes(r, fate) == owner' = [owner EXCEPT ![r] = fate]

(* owner.cancel() is called and awaited by somebody. *)
StartCancel(r, who) ==
  /\ Becomes(r, "cancelling")
  /\ by' = [by EXCEPT ![r] = who]

-----------------------------------------------------------------------------
(* prepare-upload with the handoff header. *)

Advances(r, source, target) ==
  /\ prep[r] = source
  /\ prep' = [prep EXCEPT ![r] = target]

(* A malformed credential, a request that is not one named file, or a      *)
(* listener without a gate; or, from the preflight, 503 or 409.            *)
TurnAway(r) ==
  /\ Advances(r, "new", "over")
  /\ UNCHANGED <<stateVars, standardVars, owner, by, uploadVars, taskVars,
                 historyVars>>

(* The preflight finds the server running and the session free. *)
Preflight(r) ==
  /\ ~stopping
  /\ session = None
  /\ Advances(r, "new", "asking")
  /\ UNCHANGED <<stateVars, standardVars, owner, by, uploadVars, taskVars,
                 historyVars>>

(* take_authorized_upload gives an owner, or refuses. *)
TakeAuthorizedUpload(r) ==
  /\ \/ Advances(r, "asking", "holding") /\ Becomes(r, "held")
     \/ Advances(r, "asking", "over") /\ UNCHANGED owner
  /\ UNCHANGED <<stateVars, standardVars, by, uploadVars, taskVars,
                 historyVars>>

(* Mutant: an owner is installed over another one. *)
InstallOver(r) ==
  /\ ~stopping
  /\ session' = r
  /\ aged' = FALSE
  /\ Advances(r, "holding", "answered")
  /\ Becomes(r, "installed")
  /\ UNCHANGED <<active, stopping, standardVars, by, uploadVars, taskVars,
                 historyVars>>

(* The owner is installed and its session id and token are answered. *)
Install(r) ==
  /\ ~stopping
  /\ session = None
  /\ session' = r
  /\ aged' = FALSE
  /\ Advances(r, "holding", "answered")
  /\ Becomes(r, "installed")
  /\ UNCHANGED <<active, stopping, standardVars, by, uploadVars, taskVars,
                 historyVars>>

(* Stopping, or another prepare has won: the owner is cancelled. *)
Reject(r) ==
  /\ stopping \/ session # None
  /\ Advances(r, "holding", "over")
  /\ StartCancel(r, "handler")
  /\ UNCHANGED <<stateVars, standardVars, uploadVars, taskVars, historyVars>>

(* The client disconnects while the handler asks the gate or waits for the *)
(* lock; an owner it holds is dropped without a call.                      *)
DropPrepare(r) ==
  /\ \/ Advances(r, "asking", "over") /\ UNCHANGED owner
     \/ Advances(r, "holding", "over") /\ Becomes(r, "dropped")
  /\ disconnected' = disconnected \cup {r}
  /\ UNCHANGED <<stateVars, standardVars, by, uploadVars, taskVars,
                 signalled, overwritten>>

-----------------------------------------------------------------------------
(* upload with the id of the protected session. *)

Moves(u, source, target) ==
  /\ at[u] = source
  /\ at' = [at EXCEPT ![u] = target]

(* Mutant: the session is left installed while its owner receives. *)
BeginReceiveKeepingSession(u, r) ==
  /\ session = r
  /\ active' = r
  /\ overwritten' = overwritten \cup ({active} \ {None, r})
  /\ Moves(u, "idle", "receiving")
  /\ of' = [of EXCEPT ![u] = r]
  /\ Becomes(r, "receiving")
  /\ UNCHANGED <<session, aged, stopping, standardVars, prep, by, filed,
                 done, taskVars, signalled, disconnected>>

(* File and token are the session's: it is taken, and whatever upload was  *)
(* recorded as active is recorded no more.                                 *)
BeginReceive(u, r) ==
  /\ session = r
  /\ session' = None
  /\ active' = r
  /\ overwritten' = overwritten \cup ({active} \ {None})
  /\ Moves(u, "idle", "receiving")
  /\ of' = [of EXCEPT ![u] = r]
  /\ Becomes(r, "receiving")
  /\ UNCHANGED <<aged, stopping, standardVars, prep, by, filed, done,
                 taskVars, signalled, disconnected>>

(* Another file or token: the session is taken all the same, and ended. *)
BeginWrongly(u, r) ==
  /\ session = r
  /\ session' = None
  /\ Moves(u, "idle", "over")
  /\ StartCancel(r, "handler")
  /\ UNCHANGED <<aged, active, stopping, standardVars, prep, of, filed,
                 done, taskVars, historyVars>>

(* receive returns a receipt or an error. *)
ReceiveReturns(u) ==
  /\ \/ Moves(u, "receiving", "received") /\ Becomes(of[u], "received")
     \/ Moves(u, "receiving", "failed") /\ Becomes(of[u], "failed")
  /\ UNCHANGED <<stateVars, standardVars, prep, by, of, filed, done,
                 taskVars, historyVars>>

(* Mutant: an upload whose record is gone is not reported. *)
ClearOwnActive(u) ==
  /\ \/ Moves(u, "received", IF active = of[u] THEN "reporting" ELSE "over")
     \/ Moves(u, "failed", "over")
  /\ active' = IF active = of[u] THEN None ELSE active
  /\ UNCHANGED <<session, aged, stopping, standardVars, ownerVars, of,
                 filed, done, taskVars, historyVars>>

(* The lock is taken again, to clear the record if it is still this one's; *)
(* an error is answered with 500.                                          *)
ClearActive(u) ==
  /\ Moves(u, "received", "reporting") \/ Moves(u, "failed", "over")
  /\ active' = IF active = of[u] THEN None ELSE active
  /\ UNCHANGED <<session, aged, stopping, standardVars, ownerVars, of,
                 filed, done, taskVars, historyVars>>

(* FileReceived, with a full channel as late as the host makes room. *)
ReportFile(u) ==
  /\ Moves(u, "reporting", "closing")
  /\ filed' = filed \cup {of[u]}
  /\ UNCHANGED <<stateVars, standardVars, ownerVars, of, done, taskVars,
                 historyVars>>

(* SessionDone, and 200. *)
ReportDone(u) ==
  /\ Moves(u, "closing", "over")
  /\ done' = done \cup {of[u]}
  /\ UNCHANGED <<stateVars, standardVars, ownerVars, of, filed, taskVars,
                 historyVars>>

(* The client disconnects: receive is dropped in the middle, or the        *)
(* handler after it.  Its record in active stays.                          *)
DropUpload(u) ==
  /\ at[u] \in {"receiving", "received", "failed", "reporting", "closing"}
  /\ at' = [at EXCEPT ![u] = "over"]
  /\ IF at[u] = "receiving" THEN Becomes(of[u], "dropped")
                            ELSE UNCHANGED owner
  /\ disconnected' = disconnected \cup {of[u]}
  /\ UNCHANGED <<stateVars, standardVars, prep, by, of, filed, done,
                 taskVars, signalled, overwritten>>

-----------------------------------------------------------------------------
(* cancel, and the end of a cancellation. *)

(* /cancel with the session id, which only the address it was answered to  *)
(* knows.  It counts if the standard slot is on record for nobody or for   *)
(* this address.                                                           *)
CancelSession(r) ==
  /\ from \in {None, Origin[r]}
  /\ session = r
  /\ session' = None
  /\ StartCancel(r, "handler")
  /\ UNCHANGED <<aged, active, stopping, standardVars, prep, uploadVars,
                 taskVars, historyVars>>

CancelActive(r) ==
  /\ from \in {None, Origin[r]}
  /\ session # r
  /\ active = r
  /\ signalled' = signalled \cup {r}
  /\ UNCHANGED <<stateVars, standardVars, ownerVars, uploadVars, taskVars,
                 overwritten, disconnected>>

(* The host's cancel returns. *)
CancelReturns(r) ==
  /\ owner[r] = "cancelling"
  /\ Becomes(r, "cancelled")
  /\ by' = [by EXCEPT ![r] = "nobody"]
  /\ sweep' = IF by[r] = "sweep" THEN "ticking" ELSE sweep
  /\ UNCHANGED <<stateVars, standardVars, prep, uploadVars, stop,
                 historyVars>>

(* The client of the handler that cancels disconnects. *)
DropCanceller(r) ==
  /\ owner[r] = "cancelling"
  /\ by[r] = "handler"
  /\ Becomes(r, "dropped")
  /\ by' = [by EXCEPT ![r] = "nobody"]
  /\ disconnected' = disconnected \cup {r}
  /\ UNCHANGED <<stateVars, standardVars, prep, uploadVars, taskVars,
                 signalled, overwritten>>

-----------------------------------------------------------------------------
(* The sweep, the clock and the standard path. *)

Age ==
  /\ session # None
  /\ ~aged
  /\ aged' = TRUE
  /\ UNCHANGED <<session, active, stopping, standardVars, ownerVars,
                 uploadVars, taskVars, historyVars>>

(* Mutant: the session is looked at only while no upload is recorded. *)
SweepWhenQuiet ==
  /\ sweep = "ticking"
  /\ session # None
  /\ aged
  /\ active = None
  /\ session' = None
  /\ StartCancel(session, "sweep")
  /\ sweep' = "cancelling"
  /\ UNCHANGED <<aged, active, stopping, standardVars, prep, uploadVars,
                 stop, historyVars>>

(* One tick that finds the protected session aged.  The standard session   *)
(* goes in the same tick if it is idle and nothing of it is published.     *)
SweepProtected ==
  /\ sweep = "ticking"
  /\ session # None
  /\ aged
  /\ session' = None
  /\ StartCancel(session, "sweep")
  /\ sweep' = "cancelling"
  /\ \/ UNCHANGED standard
     \/ standard = "held" /\ standard' = "free"
  /\ UNCHANGED <<aged, active, stopping, from, prep, uploadVars, stop,
                 historyVars>>

(* What moves the standard slot: a prepare-upload reserves it; a file of   *)
(* it is published and recorded, the last one clearing the slot with the   *)
(* address left on record; a cancel clears both; a tick of the sweep, a    *)
(* decline or a message clears the slot.                                   *)
StandardPath ==
  /\ \/ /\ standard = "free"
        /\ standard' = "held"
        /\ from' \in Peer
     \/ standard = "held" /\ standard' = "publishing" /\ UNCHANGED from
     \/ /\ standard = "publishing"
        /\ standard' \in {"held", "free"}
        /\ UNCHANGED from
     \/ standard = "held" /\ standard' = "free" /\ from' = None
     \/ standard = "held" /\ standard' = "free" /\ UNCHANGED from
  /\ UNCHANGED <<stateVars, ownerVars, uploadVars, taskVars, historyVars>>

-----------------------------------------------------------------------------
(* stop. *)

(* One critical section raises the barrier, ends the standard session      *)
(* unless a file of it is being published, and takes session and active;   *)
(* then the recorded upload is signalled and the owner cancelled.          *)
BeginStop ==
  /\ stop = "running"
  /\ stop' = "cancelling"
  /\ stopping' = TRUE
  /\ standard' = IF standard = "held" THEN "free" ELSE standard
  /\ session' = None
  /\ active' = None
  /\ signalled' = signalled \cup ({active} \ {None})
  /\ IF session = None THEN UNCHANGED <<owner, by>>
                       ELSE StartCancel(session, "stop")
  /\ UNCHANGED <<aged, from, prep, uploadVars, sweep, overwritten,
                 disconnected>>

(* The owner's cancel has returned. *)
StopHasCancelled == \A r \in Request : by[r] # "stop"

(* Mutant: the sweep is awaited, and not aborted. *)
AwaitSweep ==
  /\ stop = "cancelling"
  /\ StopHasCancelled
  /\ sweep = "gone"
  /\ stop' = "stopped"
  /\ UNCHANGED <<stateVars, standardVars, ownerVars, uploadVars, sweep,
                 historyVars>>

(* The sweep is aborted where it is, an owner it is cancelling dropped     *)
(* with it; the listener too, but not the handlers of its connections.     *)
AbortTasks ==
  /\ stop = "cancelling"
  /\ StopHasCancelled
  /\ stop' = "stopped"
  /\ sweep' = "gone"
  /\ owner' = [r \in Request |->
                 IF by[r] = "sweep" THEN "dropped" ELSE owner[r]]
  /\ by' = [r \in Request |-> IF by[r] = "sweep" THEN "nobody" ELSE by[r]]
  /\ UNCHANGED <<stateVars, standardVars, prep, uploadVars, historyVars>>

-----------------------------------------------------------------------------

Prepare(r) ==
  \/ TurnAway(r)
  \/ Preflight(r)
  \/ TakeAuthorizedUpload(r)
  \/ Install(r)
  \/ Reject(r)
  \/ DropPrepare(r)

UploadFile(u) ==
  \/ \E r \in Request : BeginReceive(u, r) \/ BeginWrongly(u, r)
  \/ ReceiveReturns(u)
  \/ ClearActive(u)
  \/ ReportFile(u)
  \/ ReportDone(u)
  \/ DropUpload(u)

Cancel(r) ==
  \/ CancelSession(r)
  \/ CancelActive(r)
  \/ CancelReturns(r)
  \/ DropCanceller(r)

Next ==
  \/ \E r \in Request : Prepare(r) \/ Cancel(r)
  \/ \E u \in Upload : UploadFile(u)
  \/ Age
  \/ SweepProtected
  \/ StandardPath
  \/ BeginStop
  \/ AbortTasks

Spec == Init /\ [][Next]_vars

-----------------------------------------------------------------------------

(* The variables range over what the code can store in them. *)
TypeOK ==
  /\ session \in Request \cup {None}
  /\ aged \in BOOLEAN
  /\ active \in Request \cup {None}
  /\ stopping \in BOOLEAN
  /\ from \in Peer \cup {None}
  /\ standard \in {"free", "held", "publishing"}
  /\ prep \in [Request -> {"new", "asking", "holding", "answered", "over"}]
  /\ owner \in [Request -> Fate]
  /\ by \in [Request -> {"nobody", "handler", "sweep", "stop"}]
  /\ at \in [Upload -> {"idle", "receiving", "received", "failed",
                        "reporting", "closing", "over"}]
  /\ of \in [Upload -> Request \cup {None}]
  /\ sweep \in {"ticking", "cancelling", "gone"}
  /\ stop \in {"running", "cancelling", "stopped"}
  /\ filed \subseteq Request
  /\ done \subseteq Request
  /\ signalled \subseteq Request
  /\ overwritten \subseteq Request
  /\ disconnected \subseteq Request

(* An owner is in one place: the handler that took it, the installed       *)
(* session, or the one upload it was moved into.  No prepare that loses a  *)
(* race, no second upload and no stop leaves it in none or in two.         *)
OwnerInOnePlace ==
  /\ \A r \in Request :
       /\ owner[r] = "held" <=> prep[r] = "holding"
       /\ owner[r] = "installed" <=> session = r
       /\ owner[r] = "receiving" =>
            \E u \in Upload : at[u] = "receiving" /\ of[u] = r
  /\ \A u, v \in Upload : of[u] = of[v] /\ of[u] # None => u = v

(* "A subsequent protected prepare cannot consume a new gate slot while    *)
(* cancellation is awaited" (stop): a prepare that took an owner in the    *)
(* meantime does not get it installed, and nothing is recorded as active.  *)
StopIsABarrier == stopping => session = None /\ active = None

(* An upload under way can be cancelled by its session id, or has been     *)
(* told to end, as long as no other upload began while it was recorded.    *)
ReceiveIsUnderControl ==
  \A r \in Request \ overwritten :
    owner[r] = "receiving" => active = r \/ r \in signalled

(* What the host is told is true: a file is reported if its owner received *)
(* it, and SessionDone comes after it.                                     *)
ReportsAreTrue ==
  /\ \A r \in filed : owner[r] = "received"
  /\ done \subseteq filed

(* The server implements the promise it makes about owners. *)
Custody(fate) ==
  CASE fate = "gate" -> "gate"
    [] fate \in {"held", "installed", "cancelling"} -> "server"
    [] fate = "receiving" -> "transfer"
    [] fate \in Over -> "over"

OC == INSTANCE OwnerCustody WITH
        custody <- [r \in Request |-> Custody(owner[r])],
        closing <- stopping

ImplementsCustody == OC!Spec

-----------------------------------------------------------------------------

(* The clock and the sweep tick, handlers get from one await to the next,  *)
(* the host's gate and cancel return, and it drains its events.  A body    *)
(* need not end and nobody need upload, cancel or stop.                    *)
Fairness ==
  /\ WF_vars(Age)
  /\ WF_vars(SweepProtected)
  /\ WF_vars(AbortTasks)
  /\ \A r \in Request :
       /\ WF_vars(Install(r) \/ Reject(r))
       /\ WF_vars(CancelReturns(r))
  /\ \A u \in Upload :
       WF_vars(ClearActive(u) \/ ReportFile(u) \/ ReportDone(u))

FairSpec == Spec /\ Fairness

(* No owner stays with the server for ever without a transfer: it is used, *)
(* cancelled or dropped, also when its sender vanished, was refused the    *)
(* cancel because of another sender's address on record, or the server     *)
(* stops.                                                                  *)
OwnerIsReleased ==
  \A r \in Request :
    owner[r] \in {"held", "installed", "cancelling"} ~>
      owner[r] \in Over \cup {"receiving"}

(* A file the owner received is reported, and the session reported done,   *)
(* unless a client hung up.                                                *)
ReceivedIsReported ==
  \A r \in Request :
    owner[r] = "received" ~> r \in done \cup disconnected

(* stop returns, whatever owner, sweep and uploads are doing. *)
StopReturns == stop = "cancelling" ~> stop = "stopped"
=============================================================================
